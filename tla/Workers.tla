------------------------------- MODULE Workers -------------------------------
(***************************************************************************)
(* Several messages at once.  Each worker thread runs the tools of its own *)
(* turn one after the other: a query on a pooled connection                *)
(* (tools/database.py), an operation on the facts about its user, a page   *)
(* to fetch.  The turns share the pools, the table flag and the patched    *)
(* function of urllib3; close_pools may run at any time.                   *)
(***************************************************************************)
EXTENDS LongTermMemory, PinnedFetch

CONSTANT MaxJobs   \* bound: tools one thread runs

ASSUME WorkersAssumption == MaxJobs \in Nat

VARIABLE jobs      \* tools a thread has begun

vars == <<poolVars, memoryVars, fetchVars, jobs>>

Free(t) == conn[t].at = "out" /\ memory[t] = "out" /\ fetch[t].at = "out"

Init == PoolsInit /\ MemoryInit /\ FetchInit /\ jobs = [t \in Threads |-> 0]

Begin(t) ==
    /\ Free(t)
    /\ jobs[t] < MaxJobs
    /\ jobs' = [jobs EXCEPT ![t] = @ + 1]

\* run_general_query; get_salary and get_user_credential on the other pool.
BeginQuery(t) ==
    /\ Begin(t)
    /\ \E role \in Roles : Ask(t, role)
    /\ UNCHANGED <<memoryVars, fetchVars>>

BeginMemory(t) == Begin(t) /\ UseMemory(t) /\ UNCHANGED fetchVars

BeginFetch(t) == Begin(t) /\ FetchPage(t) /\ UNCHANGED <<poolVars, memoryVars>>

\* Whoever asks for a connection goes through the same getters.
TakeConnection(t) ==
    /\ Connect(t) \/ Acquire(t)
    /\ UNCHANGED <<memoryVars, fetchVars, jobs>>

\* The query of a tool ends; its rows, or its exception, concern no one else.
EndQuery(t) ==
    /\ memory[t] = "out"
    /\ GiveBack(t) \/ NoConnection(t)
    /\ UNCHANGED <<memoryVars, fetchVars, jobs>>

Remember(t) == MemoryStep(t) /\ UNCHANGED <<fetchVars, jobs>>

FetchOn(t) == FetchStep(t) /\ UNCHANGED <<poolVars, memoryVars, jobs>>

Work(t) == TakeConnection(t) \/ EndQuery(t) \/ Remember(t) \/ FetchOn(t)

Close == CloseStep /\ UNCHANGED <<memoryVars, fetchVars, jobs>>

Shutdown == CloseBegins /\ UNCHANGED <<memoryVars, fetchVars, jobs>>

Next ==
    \/ \E t \in Threads :
          BeginQuery(t) \/ BeginMemory(t) \/ BeginFetch(t) \/ Work(t)
    \/ Shutdown \/ Close

Spec == Init /\ [][Next]_vars

\* Every thread is scheduled; waiting for a connection, a statement and a
\* request have timeouts, so none of them lasts for ever.
FairSpec == Spec /\ (\A t \in Threads : WF_vars(Work(t))) /\ WF_vars(Close)

-----------------------------------------------------------------------------
TypeOK == PoolsTypeOK /\ MemoryTypeOK /\ FetchTypeOK /\ jobs \in [Threads -> Nat]

\* Places at which a thread cannot go on by itself: another holds the lock.
Waits(t) ==
    \/ conn[t].at = "wait" /\ poolsLock # Nobody
    \/ memory[t] = "wait" /\ tableLock # Nobody
    \/ fetch[t].at = "wait" /\ pinLock # Nobody

\* While any thread is at work, one of them or close_pools can go on: no circle of
\* threads waits for each other's locks, although a thread holds the lock of the
\* table while it waits for the lock of the pools (services/memory.py:63-68).
NobodyIsStuck ==
    (\E t \in Threads : ~Free(t)) =>
        \/ closing \in Roles \cup {"drop"}
        \/ \E t \in Threads : ~Free(t) /\ ~Waits(t)

\* A bound on the steps that are left of what a thread has begun.
ConnSteps   == [out |-> 0, held |-> 1, acquire |-> 2, read |-> 3, retest |-> 4,
                wait |-> 5, test |-> 6]
MemorySteps == [out |-> 0, operate |-> 0, ensured |-> 7, create |-> 7, reflag |-> 14,
                wait |-> 15, flag |-> 16]
FetchSteps  == [out |-> 0, failed |-> 1, answered |-> 1, redirected |-> 1, request |-> 2,
                wait |-> 3, validate |-> 4]

FetchLeft(t) ==
    IF fetch[t].at = "out" THEN 0
    ELSE FetchSteps[fetch[t].at] + 4 * (MAX_REDIRECTS - fetch[t].hop)

WorkLeft(t) == ConnSteps[conn[t].at] + MemorySteps[memory[t]] + FetchLeft(t)

\* Every step of a thread brings the end of its tool nearer, and nothing another
\* thread or close_pools does sets it back: no retry goes round for ever.
JobsAreBounded ==
    [][\A t \in Threads : ~Free(t) =>
          /\ WorkLeft(t)' <= WorkLeft(t)
          /\ Work(t) => WorkLeft(t)' \in 0..(WorkLeft(t) - 1)]_vars

\* No tool waits for ever and no turn hangs, although a thread holds the lock of
\* the table while it waits for the lock of the pools and for a connection that
\* threads waiting for the table's lock may need too.
JobsEnd == \A t \in Threads : ~Free(t) ~> Free(t)
=============================================================================
