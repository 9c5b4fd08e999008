---------------------------- MODULE LongTermMemory ----------------------------
(***************************************************************************)
(* The facts about a user (services/memory.py): every operation makes sure *)
(* first that the table exists, once per process and under a lock that is  *)
(* held while a connection of the elevated pool is awaited.                *)
(***************************************************************************)
EXTENDS Pools

VARIABLES
    ready,      \* _memory_table_ready
    table,      \* the database has the table user_memory
    tableLock,  \* who holds _memory_table_lock
    memory      \* where a thread is in write_fact, read_facts or clear_user_memory

memoryVars == <<ready, table, tableLock, memory>>

MemoryPlaces == {"out", "flag", "wait", "reflag", "create", "ensured", "operate"}

\* An earlier process may have made the table.
MemoryInit ==
    /\ ready = FALSE
    /\ table \in BOOLEAN
    /\ tableLock = Nobody
    /\ memory = [t \in Threads |-> "out"]

Reach(t, place) == memory' = [memory EXCEPT ![t] = place]

UseMemory(t) ==
    /\ memory[t] = "out"
    /\ Reach(t, "flag")
    /\ UNCHANGED <<ready, table, tableLock, poolVars>>

\* The first test of the flag, without the lock.
TestFlag(t) ==
    /\ memory[t] = "flag"
    /\ Reach(t, IF ready THEN "ensured" ELSE "wait")
    /\ UNCHANGED <<ready, table, tableLock, poolVars>>

EnterTable(t) ==
    /\ memory[t] = "wait"
    /\ tableLock = Nobody
    /\ tableLock' = t
    /\ Reach(t, "reflag")
    /\ UNCHANGED <<ready, table, poolVars>>

\* Mutant: the flag is set before the table is made.
RetestFlag_Early(t) ==
    /\ memory[t] = "reflag"
    /\ ready' = TRUE
    /\ IF ready
       THEN tableLock' = Nobody /\ Reach(t, "ensured") /\ UNCHANGED poolVars
       ELSE UNCHANGED tableLock /\ Reach(t, "create") /\ Ask(t, "elevated")
    /\ UNCHANGED table

\* The second test, under the lock.
RetestFlag(t) ==
    /\ memory[t] = "reflag"
    /\ IF ready
       THEN tableLock' = Nobody /\ Reach(t, "ensured") /\ UNCHANGED poolVars
       ELSE UNCHANGED tableLock /\ Reach(t, "create") /\ Ask(t, "elevated")
    /\ UNCHANGED <<ready, table>>

\* CREATE TABLE IF NOT EXISTS and its commit, then the flag.
CreateTable(t) ==
    /\ memory[t] = "create"
    /\ GiveBack(t)
    /\ table' = TRUE
    /\ ready' = TRUE
    /\ tableLock' = Nobody
    /\ Reach(t, "ensured")

\* Mutant: the lock is released only when the table was made.
CreateFails_KeepsLock(t) ==
    /\ memory[t] = "create"
    /\ NoConnection(t) \/ GiveBack(t)
    /\ Reach(t, "out")
    /\ UNCHANGED <<ready, table, tableLock>>

\* The exception leaves the flag as it is and releases the lock.
CreateFails(t) ==
    /\ memory[t] = "create"
    /\ NoConnection(t) \/ GiveBack(t)
    /\ tableLock' = Nobody
    /\ Reach(t, "out")
    /\ UNCHANGED <<ready, table>>

\* The operation's own connection.
AskToOperate(t) ==
    /\ memory[t] = "ensured"
    /\ Ask(t, "elevated")
    /\ Reach(t, "operate")
    /\ UNCHANGED <<ready, table, tableLock>>

\* Its one statement is committed, or fails, or got no connection.
Operate(t) ==
    /\ memory[t] = "operate"
    /\ GiveBack(t) \/ NoConnection(t)
    /\ Reach(t, "out")
    /\ UNCHANGED <<ready, table, tableLock>>

MemoryStep(t) ==
    \/ TestFlag(t) \/ EnterTable(t) \/ RetestFlag(t)
    \/ CreateTable(t) \/ CreateFails(t) \/ AskToOperate(t) \/ Operate(t)

-----------------------------------------------------------------------------
MemoryTypeOK ==
    /\ ready \in BOOLEAN /\ table \in BOOLEAN
    /\ tableLock \in Threads \cup {Nobody}
    /\ memory \in [Threads -> MemoryPlaces]

\* No statement is sent to a table that does not exist yet: a thread that goes
\* on because of the flag alone, without ever taking the lock, finds the table.
TableBeforeUse ==
    \A t \in Threads : memory[t] \in {"ensured", "operate"} => table
=============================================================================
