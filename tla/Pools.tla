-------------------------------- MODULE Pools --------------------------------
(***************************************************************************)
(* The two connection pools of the process (db/connection.py).  Any thread *)
(* that needs a connection gets its role's pool, which the first one makes *)
(* under a double-checked lock, and takes one of its connections.          *)
(* close_pools, registered with atexit, closes and drops both pools while  *)
(* other threads may still be at work.                                     *)
(*                                                                         *)
(* Reading or writing a global is atomic, the statements of a function are *)
(* not: the handle a getter returns is read again after it was tested.     *)
(***************************************************************************)
EXTENDS Naturals, FiniteSets, Threading

CONSTANTS
    Closer,    \* the thread that runs close_pools
    NoPool,    \* a handle that is None
    PoolSize,  \* connections a pool lends at a time
    MaxCloses  \* bound: how often close_pools runs

ASSUME PoolsAssumption ==
    /\ Closer \notin Threads \cup {Nobody}
    /\ NoPool \notin Nat
    /\ PoolSize \in Nat \ {0}
    /\ MaxCloses \in Nat

VARIABLES
    handle,     \* _general_pool and _elevated_pool
    made,       \* ConnectionPools made so far; the n-th is pool n
    open,       \* the pools that are not closed
    poolsLock,  \* who holds _POOLS_LOCK
    conn,       \* a thread's get_*_connection, see Connection
    closing,    \* where close_pools is
    closes

poolVars == <<handle, made, open, poolsLock, conn, closing, closes>>

Roles == {"general", "elevated"}
Pool  == Nat \ {0}

\* overtaken is no state of the program: close_pools was at work meanwhile.
Connection == [at: {"out", "test", "wait", "retest", "read", "acquire", "held"},
               role: Roles, pool: Pool \cup {NoPool}, overtaken: BOOLEAN]

\* A thread that is in no getter and holds no connection.
Away == [at |-> "out", role |-> "general", pool |-> NoPool, overtaken |-> FALSE]

PoolsInit ==
    /\ handle = [role \in Roles |-> NoPool]
    /\ made = 0 /\ open = {}
    /\ poolsLock = Nobody
    /\ conn = [t \in Threads |-> Away]
    /\ closing = "rest" /\ closes = 0

Go(t, place) == conn' = [conn EXCEPT ![t].at = place]
Leave(t) == conn' = [conn EXCEPT ![t] = Away]

\* get_general_connection or get_elevated_connection is called.
Ask(t, role) ==
    /\ conn[t].at = "out"
    /\ conn' = [conn EXCEPT ![t] = [at |-> "test", role |-> role, pool |-> NoPool,
                                    overtaken |-> closing # "rest"]]
    /\ UNCHANGED <<handle, made, open, poolsLock, closing, closes>>

\* The first test of the handle, without the lock.
Test(t) ==
    /\ conn[t].at = "test"
    /\ Go(t, IF handle[conn[t].role] = NoPool THEN "wait" ELSE "read")
    /\ UNCHANGED <<handle, made, open, poolsLock, closing, closes>>

Enter(t) ==
    /\ conn[t].at = "wait"
    /\ poolsLock = Nobody
    /\ poolsLock' = t
    /\ Go(t, "retest")
    /\ UNCHANGED <<handle, made, open, closing, closes>>

\* Mutant: the handle is not tested again once the lock is held.
Retest_Skipped(t) ==
    /\ conn[t].at = "retest"
    /\ made' = made + 1
    /\ open' = open \cup {made + 1}
    /\ handle' = [handle EXCEPT ![conn[t].role] = made + 1]
    /\ poolsLock' = Nobody
    /\ Go(t, "read")
    /\ UNCHANGED <<closing, closes>>

\* The second test, under the lock; the first thread in makes the pool.
Retest(t) ==
    /\ conn[t].at = "retest"
    /\ IF handle[conn[t].role] = NoPool
       THEN /\ made' = made + 1
            /\ open' = open \cup {made + 1}
            /\ handle' = [handle EXCEPT ![conn[t].role] = made + 1]
       ELSE UNCHANGED <<handle, made, open>>
    /\ poolsLock' = Nobody
    /\ Go(t, "read")
    /\ UNCHANGED <<closing, closes>>

\* A ConnectionPool that cannot be made (its sizes come from the environment): the
\* exception leaves the handle None and releases the lock.
MakeFails(t) ==
    /\ conn[t].at = "retest"
    /\ handle[conn[t].role] = NoPool
    /\ poolsLock' = Nobody
    /\ Leave(t)
    /\ UNCHANGED <<handle, made, open, closing, closes>>

\* The handle is read once more to be returned.
Read(t) ==
    /\ conn[t].at = "read"
    /\ conn' = [conn EXCEPT ![t].at = "acquire", ![t].pool = handle[conn[t].role]]
    /\ UNCHANGED <<handle, made, open, poolsLock, closing, closes>>

Lent(pool) == {t \in Threads : conn[t].at = "held" /\ conn[t].pool = pool}

Acquire(t) ==
    /\ conn[t].at = "acquire"
    /\ conn[t].pool \in open
    /\ Cardinality(Lent(conn[t].pool)) < PoolSize
    /\ Go(t, "held")
    /\ UNCHANGED <<handle, made, open, poolsLock, closing, closes>>

\* None has no connection(), a closed pool lends none, the server cannot be
\* reached, or no connection is returned before the timeout.
AcquireFails(t) ==
    /\ conn[t].at = "acquire"
    /\ Leave(t)
    /\ UNCHANGED <<handle, made, open, poolsLock, closing, closes>>

GiveBack(t) ==
    /\ conn[t].at = "held"
    /\ Leave(t)
    /\ UNCHANGED <<handle, made, open, poolsLock, closing, closes>>

\* The caller gets an exception for a connection.
NoConnection(t) == MakeFails(t) \/ AcquireFails(t)

Connect(t) == Test(t) \/ Enter(t) \/ Retest(t) \/ Read(t)

-----------------------------------------------------------------------------
(* close_pools                                                             *)

CloseBegins ==
    /\ closing = "rest" /\ closes < MaxCloses
    /\ closing' = "wait"
    /\ closes' = closes + 1
    /\ conn' = [t \in Threads |->
                   IF conn[t].at = "out" THEN conn[t]
                   ELSE [conn[t] EXCEPT !.overtaken = TRUE]]
    /\ UNCHANGED <<handle, made, open, poolsLock>>

CloseEnters ==
    /\ closing = "wait"
    /\ poolsLock = Nobody
    /\ poolsLock' = Closer
    /\ closing' = "general"
    /\ UNCHANGED <<handle, made, open, conn, closes>>

\* One pool after the other; a handle that is None is passed over.
ClosePool ==
    /\ closing \in Roles
    /\ open' = open \ {handle[closing]}
    /\ closing' = IF closing = "general" THEN "elevated" ELSE "drop"
    /\ UNCHANGED <<handle, made, poolsLock, conn, closes>>

\* Mutant: the handles are not reset.
DropHandles_Kept ==
    /\ closing = "drop"
    /\ poolsLock' = Nobody
    /\ closing' = "rest"
    /\ UNCHANGED <<handle, made, open, conn, closes>>

DropHandles ==
    /\ closing = "drop"
    /\ handle' = [role \in Roles |-> NoPool]
    /\ poolsLock' = Nobody
    /\ closing' = "rest"
    /\ UNCHANGED <<made, open, conn, closes>>

CloseStep == CloseEnters \/ ClosePool \/ DropHandles

-----------------------------------------------------------------------------
PoolsTypeOK ==
    /\ handle \in [Roles -> Pool \cup {NoPool}]
    /\ made \in Nat
    /\ open \in SUBSET Pool
    /\ poolsLock \in Threads \cup {Closer, Nobody}
    /\ conn \in [Threads -> Connection]
    /\ closing \in Roles \cup {"rest", "wait", "drop"}
    /\ closes \in Nat

\* No pool is lost: one that is open can be reached through its handle, so that
\* a role never has two and close_pools leaves none open behind it.
NoPoolLeaks == open \subseteq {handle[role] : role \in Roles}

\* A thread is handed a pool that is closed, or None, only when close_pools was
\* at work during its own call: a pool closed earlier is never found again.
ClosedOnlyMeanwhile ==
    \A t \in Threads :
        conn[t].at \in {"acquire", "held"} /\ conn[t].pool \notin open => conn[t].overtaken
=============================================================================
