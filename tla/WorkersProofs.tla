---------------------------- MODULE WorkersProofs ----------------------------
(***************************************************************************)
(* Theorems about messages handled at the same time, for any number of     *)
(* threads, tools and shutdowns.                                           *)
(***************************************************************************)
EXTENDS Workers, TLAPS

USE ThreadsAssumption, PoolsAssumption, FetchAssumption, WorkersAssumption

-----------------------------------------------------------------------------
(* The pools                                                               *)

\* Who is where _POOLS_LOCK is held is who holds it.
PoolsExclusive ==
    /\ poolsLock = Closer <=> closing \in {"general", "elevated", "drop"}
    /\ \A t \in Threads : poolsLock = t <=> conn[t].at = "retest"

\* A pool is open from its making until close_pools has come by its handle, and
\* the two roles never share one.
HandlesOpen ==
    /\ \A role \in Roles : handle[role] # NoPool =>
          /\ handle[role] <= made
          /\ \A other \in Roles \ {role} : handle[other] # handle[role]
          /\ closing \in {"rest", "wait", "general"} => handle[role] \in open
    /\ closing = "elevated" =>
          /\ open \subseteq {handle["elevated"]}
          /\ handle["elevated"] # NoPool => handle["elevated"] \in open
    /\ closing = "drop" => open = {}

\* Unless close_pools was at work, a pool once seen is still open.
SeenIsOpen ==
    \A t \in Threads :
        /\ closing # "rest" /\ conn[t].at # "out" => conn[t].overtaken
        /\ ~conn[t].overtaken /\ conn[t].at = "read" => handle[conn[t].role] # NoPool
        /\ ~conn[t].overtaken /\ conn[t].at \in {"acquire", "held"} => conn[t].pool \in open

PoolsInv ==
    PoolsTypeOK /\ PoolsExclusive /\ HandlesOpen /\ SeenIsOpen /\ NoPoolLeaks

\* The steps a thread takes with a connection.
ConnStep(t) ==
    \/ \E role \in Roles : Ask(t, role)
    \/ Connect(t) \/ Acquire(t) \/ NoConnection(t) \/ GiveBack(t)

LEMMA InitPoolsInv == PoolsInit => PoolsInv
BY DEF PoolsInit, PoolsInv, PoolsTypeOK, PoolsExclusive, HandlesOpen, SeenIsOpen, NoPoolLeaks,
       Away, Connection, Roles, Pool

LEMMA ConnStepKeepsPoolsInv ==
    ASSUME PoolsInv, NEW t \in Threads, ConnStep(t) PROVE PoolsInv'
<1> USE DEF PoolsInv, PoolsTypeOK, PoolsExclusive, HandlesOpen, SeenIsOpen, NoPoolLeaks, Connection
<1>0. conn[t] \in Connection /\ "general" \in Roles /\ "elevated" \in Roles
      BY DEF Roles
<1>1. CASE \E role \in Roles : Ask(t, role)
  <2>1. PICK role \in Roles : Ask(t, role)
        BY <1>1
  <2>2. ASSUME NEW late \in BOOLEAN, late <=> closing # "rest" PROVE PoolsInv'
    <3>1. [at |-> "test", role |-> role, pool |-> NoPool, overtaken |-> late] \in Connection
          OBVIOUS
    <3>2. conn' = [conn EXCEPT ![t] = [at |-> "test", role |-> role, pool |-> NoPool,
                                       overtaken |-> late]]
          BY <2>1, <2>2, Zenon DEF Ask
    <3> QED BY <2>1, <2>2, <3>1, <3>2 DEF Ask
  <2> QED BY <2>2
<1>2. CASE Test(t)
  <2>1. CASE handle[conn[t].role] = NoPool
        BY <1>2, <2>1 DEF Test, Go
  <2>2. CASE handle[conn[t].role] # NoPool
        BY <1>2, <2>2 DEF Test, Go
  <2> QED BY <2>1, <2>2
<1>3. CASE Enter(t)
      BY <1>3 DEF Enter, Go
<1>4. CASE Retest(t)
  <2>1. CASE handle[conn[t].role] = NoPool
    <3>1. /\ conn[t].at = "retest" /\ poolsLock = t /\ conn[t].role \in Roles
          /\ closing \in {"rest", "wait"}
          BY <1>0, <1>4 DEF Retest, Roles
    <3>2. /\ made' = made + 1 /\ open' = open \cup {made'}
          /\ handle' = [handle EXCEPT ![conn[t].role] = made']
          /\ poolsLock' = Nobody /\ closing' = closing /\ closes' = closes
          /\ conn' = [conn EXCEPT ![t].at = "read"]
          BY <1>4, <2>1 DEF Retest, Go
    <3>3. PoolsTypeOK' /\ PoolsExclusive'
          BY <3>1, <3>2 DEF Pool
    <3>4. HandlesOpen'
          BY <3>1, <3>2 DEF Roles, Pool
    <3>5. SeenIsOpen'
          BY <3>1, <3>2
    <3>6. NoPoolLeaks'
          BY <2>1, <3>1, <3>2 DEF Pool
    <3> QED BY <3>3, <3>4, <3>5, <3>6
  <2>2. CASE handle[conn[t].role] # NoPool
        BY <1>4, <2>2 DEF Retest, Go
  <2> QED BY <2>1, <2>2
<1>5. CASE Read(t)
  <2>1. conn[t].role \in Roles /\ handle[conn[t].role] \in Pool \cup {NoPool}
        BY <1>0
  <2>2. ~conn[t].overtaken => handle[conn[t].role] \in open
        BY <1>5, <2>1 DEF Read
  <2>3. PoolsTypeOK'
    <3>1. [conn[t] EXCEPT !.at = "acquire", !.pool = handle[conn[t].role]] \in Connection
          BY <1>0, <2>1
    <3> QED BY <1>5, <3>1 DEF Read
  <2>4. /\ \A u \in Threads \ {t} : conn'[u] = conn[u]
        /\ conn[t].at = "read" /\ conn'[t].at = "acquire"
        /\ conn'[t].pool = handle[conn[t].role]
        /\ conn'[t].overtaken = conn[t].overtaken /\ conn'[t].role = conn[t].role
        /\ UNCHANGED <<handle, made, open, poolsLock, closing, closes>>
        BY <1>0, <1>5 DEF Read
  <2>5. PoolsExclusive'
        BY <2>4
  <2>6. SeenIsOpen'
        BY <2>2, <2>4
  <2> QED BY <2>3, <2>4, <2>5, <2>6
<1>6. CASE Acquire(t)
      BY <1>6 DEF Acquire, Go
<1>7. CASE AcquireFails(t)
      BY <1>7 DEF AcquireFails, Leave, Away, Roles
<1>8. CASE GiveBack(t)
      BY <1>8 DEF GiveBack, Leave, Away, Roles
<1>9. CASE MakeFails(t)
  <2>1. /\ conn[t].at = "retest" /\ poolsLock = t /\ poolsLock' = Nobody
        /\ conn' = [conn EXCEPT ![t] = Away]
        /\ UNCHANGED <<handle, made, open, closing, closes>>
        BY <1>9 DEF MakeFails, Leave
  <2>2. Away \in Connection /\ Away.at = "out"
        BY DEF Away, Roles
  <2>3. PoolsTypeOK' /\ HandlesOpen' /\ NoPoolLeaks'
        BY <2>1, <2>2
  <2>4. PoolsExclusive' /\ SeenIsOpen'
        BY <2>1, <2>2
  <2> QED BY <2>3, <2>4
<1> QED BY <1>1, <1>2, <1>3, <1>4, <1>5, <1>6, <1>7, <1>8, <1>9
        DEF ConnStep, Connect, NoConnection

LEMMA CloseKeepsPoolsInv ==
    ASSUME PoolsInv, CloseBegins \/ CloseStep PROVE PoolsInv'
<1> USE DEF PoolsInv, PoolsTypeOK, PoolsExclusive, HandlesOpen, SeenIsOpen, NoPoolLeaks, Roles
<1>1. CASE CloseBegins
  <2>1. ASSUME NEW t \in Threads
        PROVE  [conn[t] EXCEPT !.overtaken = TRUE] \in Connection
    <3>1. conn[t] \in Connection
          OBVIOUS
    <3> HIDE DEF PoolsInv
    <3> QED BY <3>1 DEF Connection
  <2>2. PoolsTypeOK'
        BY <1>1, <2>1 DEF CloseBegins
  <2>3. \A t \in Threads : conn'[t].at = conn[t].at /\ (conn[t].at # "out" => conn'[t].overtaken)
        BY <1>1 DEF CloseBegins, Connection
  <2>4. PoolsExclusive' /\ HandlesOpen' /\ NoPoolLeaks'
        BY <1>1, <2>3 DEF CloseBegins
  <2>5. SeenIsOpen'
        BY <1>1, <2>3 DEF CloseBegins
  <2> QED BY <2>2, <2>4, <2>5
<1>2. CASE CloseEnters
      BY <1>2 DEF CloseEnters
<1>3. CASE ClosePool
  <2>1. /\ closing \in Roles /\ open' = open \ {handle[closing]}
        /\ UNCHANGED <<handle, made, poolsLock, conn, closes>>
        /\ closing' = IF closing = "general" THEN "elevated" ELSE "drop"
        BY <1>3 DEF ClosePool
  <2>2. open \subseteq {handle["general"], handle["elevated"]}
        OBVIOUS
  <2>3. CASE closing = "general"
    <3>1. open' \subseteq {handle["elevated"]} /\ closing' = "elevated"
          BY <2>1, <2>2, <2>3
    <3>2. handle["elevated"] # NoPool => handle["elevated"] \in open'
          BY <2>1, <2>3
    <3>3. PoolsTypeOK' /\ PoolsExclusive' /\ NoPoolLeaks'
          BY <2>1, <2>3, <3>1
    <3>4. HandlesOpen'
          BY <2>1, <2>3, <3>1, <3>2
    <3>5. SeenIsOpen'
          BY <2>1, <2>3, <3>1
    <3> QED BY <3>3, <3>4, <3>5
  <2>4. CASE closing = "elevated"
    <3>1. open' = {} /\ closing' = "drop"
          BY <2>1, <2>4
    <3>2. PoolsTypeOK' /\ PoolsExclusive' /\ NoPoolLeaks'
          BY <2>1, <2>4, <3>1
    <3>3. HandlesOpen'
          BY <2>1, <2>4, <3>1
    <3>4. SeenIsOpen'
          BY <2>1, <2>4, <3>1
    <3> QED BY <3>2, <3>3, <3>4
  <2> QED BY <2>1, <2>3, <2>4
<1>4. CASE DropHandles
      BY <1>4 DEF DropHandles
<1> QED BY <1>1, <1>2, <1>3, <1>4 DEF CloseStep

-----------------------------------------------------------------------------
(* The table of facts                                                      *)

MemoryInv ==
    /\ MemoryTypeOK
    /\ ready => table
    /\ TableBeforeUse
    /\ \A t \in Threads : tableLock = t <=> memory[t] \in {"reflag", "create"}

LEMMA MemoryStepKeepsInv ==
    ASSUME MemoryInv, NEW t \in Threads, UseMemory(t) \/ MemoryStep(t) PROVE MemoryInv'
<1> USE DEF MemoryInv, MemoryTypeOK, TableBeforeUse, MemoryPlaces, Reach
<1>1. CASE UseMemory(t)
      BY <1>1 DEF UseMemory
<1>2. CASE TestFlag(t)
  <2>1. CASE ready
        BY <1>2, <2>1 DEF TestFlag
  <2>2. CASE ~ready
        BY <1>2, <2>2 DEF TestFlag
  <2> QED BY <2>1, <2>2
<1>3. CASE EnterTable(t)
      BY <1>3 DEF EnterTable
<1>4. CASE RetestFlag(t)
  <2>1. CASE ready
        BY <1>4, <2>1 DEF RetestFlag
  <2>2. CASE ~ready
        BY <1>4, <2>2 DEF RetestFlag
  <2> QED BY <2>1, <2>2
<1>5. CASE CreateTable(t)
      BY <1>5 DEF CreateTable
<1>6. CASE CreateFails(t)
      BY <1>6 DEF CreateFails
<1>7. CASE AskToOperate(t)
      BY <1>7 DEF AskToOperate
<1>8. CASE Operate(t)
      BY <1>8 DEF Operate
<1> QED BY <1>1, <1>2, <1>3, <1>4, <1>5, <1>6, <1>7, <1>8 DEF MemoryStep

\* What an operation on the facts does with connections are steps of the pools.
LEMMA MemoryUsesPools ==
    ASSUME NEW t \in Threads, UseMemory(t) \/ MemoryStep(t)
    PROVE  ConnStep(t) \/ UNCHANGED poolVars
BY DEF UseMemory, MemoryStep, TestFlag, EnterTable, RetestFlag, CreateTable, CreateFails,
       AskToOperate, Operate, ConnStep, Roles

-----------------------------------------------------------------------------
(* Pages                                                                   *)

\* Who is where _PIN_LOCK is held is who holds it, and what is installed then
\* is the pin of that thread's own hop.
Pinning(t) ==
    /\ pinLock = t <=> fetch[t].at \in {"request", "redirected", "answered", "failed"}
    /\ fetch[t].at = "wait" => fetch[t].pinned = PinOf(t, fetch[t].hop)
    /\ pinLock = t => /\ fetch[t].pinned = PinOf(t, fetch[t].hop)
                      /\ create_connection = fetch[t].pinned
                      /\ fetch[t].previous = Original

FetchInv ==
    /\ FetchTypeOK
    /\ \A t \in Threads : Pinning(t)
    /\ ReachesValidated
    /\ PinIsTemporary

LEMMA FetchStepKeepsInv ==
    ASSUME FetchInv, NEW t \in Threads, FetchPage(t) \/ FetchStep(t) PROVE FetchInv'
<1> USE DEF FetchInv, FetchTypeOK, Pinning, ReachesValidated, PinIsTemporary
<1>0. /\ fetch[t] \in Fetch
      /\ Original \in Functions
      /\ \A hop \in 0..MAX_REDIRECTS : PinOf(t, hop) \in Functions
      BY DEF Original, Functions, PinOf
<1>1. \A place \in FetchPlaces, hop \in 0..MAX_REDIRECTS : Fresh(place, hop) \in Fetch
      BY <1>0 DEF Fresh, Fetch
<1>2. CASE FetchPage(t)
      BY <1>1, <1>2 DEF FetchPage, StartHop, FetchPlaces, Fresh
<1>3. CASE Validate(t)
  <2>1. CASE EndFetch(t)
        BY <1>1, <1>3, <2>1 DEF Validate, EndFetch, FetchPlaces, Fresh
  <2>2. CASE fetch' = [fetch EXCEPT ![t].at = "wait", ![t].pinned = PinOf(t, fetch[t].hop)]
    <3>1. [fetch[t] EXCEPT !.at = "wait", !.pinned = PinOf(t, fetch[t].hop)] \in Fetch
          BY <1>0 DEF Fetch, FetchPlaces
    <3> QED BY <1>3, <2>2, <3>1 DEF Validate, Fetch
  <2> QED BY <1>3, <2>1, <2>2 DEF Validate
<1>4. CASE Pin(t)
  <2>1. [fetch[t] EXCEPT !.at = "request", !.previous = create_connection] \in Fetch
        BY <1>0 DEF Fetch, FetchPlaces
  <2> QED BY <1>0, <1>4, <2>1 DEF Pin, Fetch
<1>5. CASE Request(t)
  <2>1. PICK how \in {"redirected", "answered", "failed"} :
            fetch' = [fetch EXCEPT ![t].at = how, ![t].reached = create_connection]
        BY <1>5 DEF Request
  <2>2. [fetch[t] EXCEPT !.at = how, !.reached = create_connection] \in Fetch
        BY <1>0 DEF Fetch, FetchPlaces
  <2>3. /\ fetch[t].at = "request" /\ fetch[t].reached \in Functions
        /\ UNCHANGED <<create_connection, pinLock>> /\ create_connection \in Functions
        BY <1>0, <1>5 DEF Request, Fetch
  <2>4. /\ fetch' \in [Threads -> Fetch]
        /\ \A u \in Threads \ {t} : fetch'[u] = fetch[u]
        /\ fetch'[t] = [fetch[t] EXCEPT !.at = how, !.reached = create_connection]
        BY <2>1, <2>2
  <2>5. /\ fetch'[t].at = how /\ fetch'[t].reached = create_connection
        /\ fetch'[t].hop = fetch[t].hop /\ fetch'[t].pinned = fetch[t].pinned
        /\ fetch'[t].previous = fetch[t].previous
        BY <1>0, <2>4 DEF Fetch
  <2>6. pinLock = t /\ create_connection = PinOf(t, fetch[t].hop)
        BY <2>3
  <2>7. \A u \in Threads : Pinning(u)'
    <3>1. Pinning(t)'
          BY <2>3, <2>5, <2>6
    <3>2. ASSUME NEW u \in Threads \ {t} PROVE Pinning(u)'
          BY <2>3, <2>4
    <3> QED BY <3>1, <3>2
  <2>8. ReachesValidated'
    <3>1. fetch'[t].reached = PinOf(t, fetch'[t].hop)
          BY <2>5, <2>6
    <3> QED BY <2>4, <3>1
  <2> QED BY <2>3, <2>4, <2>6, <2>7, <2>8
<1>6. CASE Unpin(t)
  <2>1. \E hop \in 0..MAX_REDIRECTS, place \in {"out", "validate"} :
            fetch' = [fetch EXCEPT ![t] = Fresh(place, hop)]
        BY <1>0, <1>6 DEF Unpin, EndFetch, StartHop, Fetch
  <2>2. PICK hop \in 0..MAX_REDIRECTS, place \in {"out", "validate"} :
            fetch' = [fetch EXCEPT ![t] = Fresh(place, hop)]
        BY <2>1
  <2>3. pinLock = t /\ pinLock' = Nobody /\ create_connection' = Original
        BY <1>6 DEF Unpin
  <2>4. FetchTypeOK'
        BY <1>0, <1>1, <2>2, <2>3 DEF FetchPlaces
  <2>5. \A u \in Threads : Pinning(u)'
        BY <2>2, <2>3 DEF Fresh
  <2>6. ReachesValidated'
        BY <2>2 DEF Fresh
  <2> QED BY <2>3, <2>4, <2>5, <2>6
<1> QED BY <1>2, <1>3, <1>4, <1>5, <1>6 DEF FetchStep

-----------------------------------------------------------------------------
(* All of it together                                                      *)

WorkersInv == PoolsInv /\ MemoryInv /\ FetchInv /\ jobs \in [Threads -> Nat]

LEMMA InitWorkersInv == Init => WorkersInv
<1> SUFFICES ASSUME Init PROVE WorkersInv
    OBVIOUS
<1>1. PoolsInv
      BY InitPoolsInv DEF Init
<1>2. MemoryInv
      BY DEF Init, MemoryInit, MemoryInv, MemoryTypeOK, TableBeforeUse, MemoryPlaces
<1>3. FetchInv
      BY DEF Init, FetchInit, FetchInv, FetchTypeOK, Pinning, ReachesValidated, PinIsTemporary,
             Fresh, Fetch, FetchPlaces, Functions, Original
<1> QED BY <1>1, <1>2, <1>3 DEF Init, WorkersInv

\* What leaves a part's variables alone keeps its invariant.
LEMMA StutterKeepsParts ==
    /\ PoolsInv /\ UNCHANGED poolVars => PoolsInv'
    /\ MemoryInv /\ UNCHANGED memoryVars => MemoryInv'
    /\ FetchInv /\ UNCHANGED fetchVars => FetchInv'
<1>1. PoolsInv /\ UNCHANGED poolVars => PoolsInv'
      BY DEF poolVars, PoolsInv, PoolsTypeOK, PoolsExclusive, HandlesOpen, SeenIsOpen, NoPoolLeaks
<1>2. MemoryInv /\ UNCHANGED memoryVars => MemoryInv'
      BY DEF memoryVars, MemoryInv, MemoryTypeOK, TableBeforeUse
<1>3. FetchInv /\ UNCHANGED fetchVars => FetchInv'
      BY DEF fetchVars, FetchInv, FetchTypeOK, Pinning, ReachesValidated, PinIsTemporary
<1> QED BY <1>1, <1>2, <1>3

LEMMA NextKeepsWorkersInv == WorkersInv /\ [Next]_vars => WorkersInv'
<1> SUFFICES ASSUME WorkersInv, [Next]_vars PROVE WorkersInv'
    OBVIOUS
<1> USE StutterKeepsParts DEF WorkersInv
<1>1. CASE UNCHANGED vars
      BY <1>1 DEF vars
<1>2. CASE Shutdown \/ Close
      BY <1>2, CloseKeepsPoolsInv DEF Shutdown, Close
<1>3. ASSUME NEW t \in Threads,
             BeginQuery(t) \/ BeginMemory(t) \/ BeginFetch(t) \/ Work(t)
      PROVE  WorkersInv'
  <2>1. CASE BeginQuery(t)
        BY <2>1, ConnStepKeepsPoolsInv DEF BeginQuery, Begin, ConnStep
  <2>2. CASE BeginMemory(t)
        BY <2>2, MemoryStepKeepsInv, MemoryUsesPools, ConnStepKeepsPoolsInv DEF BeginMemory, Begin
  <2>3. CASE BeginFetch(t)
        BY <2>3, FetchStepKeepsInv DEF BeginFetch, Begin
  <2>4. CASE TakeConnection(t) \/ EndQuery(t)
        BY <2>4, ConnStepKeepsPoolsInv DEF TakeConnection, EndQuery, ConnStep
  <2>5. CASE Remember(t)
        BY <2>5, MemoryStepKeepsInv, MemoryUsesPools, ConnStepKeepsPoolsInv DEF Remember
  <2>6. CASE FetchOn(t)
        BY <2>6, FetchStepKeepsInv DEF FetchOn
  <2> QED BY <1>3, <2>1, <2>2, <2>3, <2>4, <2>5, <2>6 DEF Work
<1> QED BY <1>1, <1>2, <1>3 DEF Next

\* The invariant of all threads together, for any number of them.
THEOREM WorkersInvariant == Spec => []WorkersInv
BY InitWorkersInv, NextKeepsWorkersInv, PTL DEF Spec

\* The shared state keeps its types (db/connection.py, services/memory.py,
\* tools/web_search.py).
THEOREM WorkersTypeCorrect == Spec => []TypeOK
<1>1. WorkersInv => TypeOK
      BY DEF WorkersInv, PoolsInv, MemoryInv, FetchInv, TypeOK
<1> QED BY <1>1, WorkersInvariant, PTL

\* However many threads race for the first connection, and however often the
\* pools are closed meanwhile, no open pool is lost (db/connection.py:45-85).
THEOREM PoolsDoNotLeak == Spec => []NoPoolLeaks
<1>1. WorkersInv => NoPoolLeaks
      BY DEF WorkersInv, PoolsInv
<1> QED BY <1>1, WorkersInvariant, PTL

\* A closed pool, or None, is only handed to a thread that asked while
\* close_pools was at work (db/connection.py:104-112).
THEOREM ClosedPoolsAreForgotten == Spec => []ClosedOnlyMeanwhile
<1>1. WorkersInv => ClosedOnlyMeanwhile
      BY DEF WorkersInv, PoolsInv, SeenIsOpen, ClosedOnlyMeanwhile, PoolsTypeOK, Connection
<1> QED BY <1>1, WorkersInvariant, PTL

\* The flag that spares later operations the lock is never ahead of the table
\* (services/memory.py:57-79).
THEOREM TableIsThere == Spec => []TableBeforeUse
<1>1. WorkersInv => TableBeforeUse
      BY DEF WorkersInv, MemoryInv
<1> QED BY <1>1, WorkersInvariant, PTL

\* Every request goes to the address validated for its own URL, however many
\* threads fetch and are redirected at once (tools/web_search.py:157-188).
THEOREM PagesComeFromValidatedAddresses == Spec => []ReachesValidated
<1>1. WorkersInv => ReachesValidated
      BY DEF WorkersInv, FetchInv
<1> QED BY <1>1, WorkersInvariant, PTL

\* Between requests urllib3 is as it was (tools/web_search.py:175-176).
THEOREM PinsAreTakenBack == Spec => []PinIsTemporary
<1>1. WorkersInv => PinIsTemporary
      BY DEF WorkersInv, FetchInv
<1> QED BY <1>1, WorkersInvariant, PTL

-----------------------------------------------------------------------------
(* No circle of waiting threads, and an end to every tool                  *)

\* A thread is in one tool at a time, and in a connection's getter only between
\* the places of services/memory.py.
OneTool ==
    \A t \in Threads :
        /\ memory[t] \in {"flag", "wait", "reflag", "ensured"} => conn[t].at = "out"
        /\ fetch[t].at # "out" => conn[t].at = "out" /\ memory[t] = "out"

\* What a step of t does to connections is nothing to the others.
LEMMA ConnStepIsLocal ==
    ASSUME WorkersInv, NEW t \in Threads, ConnStep(t)
    PROVE  /\ \A u \in Threads \ {t} : conn'[u] = conn[u]
           /\ conn' \in [Threads -> Connection]
<1>1. PoolsTypeOK /\ PoolsTypeOK'
      BY ConnStepKeepsPoolsInv DEF WorkersInv, PoolsInv
<1>2. \A u \in Threads \ {t} : conn'[u] = conn[u]
      BY <1>1 DEF PoolsTypeOK, ConnStep, Ask, Connect, Test, Enter, Retest, Read, Acquire,
                  NoConnection, MakeFails, AcquireFails, GiveBack, Go, Leave
<1> QED BY <1>1, <1>2 DEF PoolsTypeOK

LEMMA MemoryStepIsLocal ==
    ASSUME WorkersInv, NEW t \in Threads, UseMemory(t) \/ MemoryStep(t)
    PROVE  /\ \A u \in Threads \ {t} : memory'[u] = memory[u]
           /\ \A u \in Threads \ {t} : conn'[u] = conn[u]
<1>1. MemoryTypeOK
      BY DEF WorkersInv, MemoryInv
<1>2. \A u \in Threads \ {t} : memory'[u] = memory[u]
      BY <1>1 DEF MemoryTypeOK, UseMemory, MemoryStep, TestFlag, EnterTable, RetestFlag, CreateTable,
                  CreateFails, AskToOperate, Operate, Reach
<1>3. \A u \in Threads \ {t} : conn'[u] = conn[u]
      BY MemoryUsesPools, ConnStepIsLocal DEF poolVars
<1> QED BY <1>2, <1>3

LEMMA FetchStepIsLocal ==
    ASSUME WorkersInv, NEW t \in Threads, FetchPage(t) \/ FetchStep(t)
    PROVE  \A u \in Threads \ {t} : fetch'[u] = fetch[u]
BY DEF WorkersInv, FetchInv, FetchTypeOK, FetchPage, FetchStep, Validate, Pin, Request, Unpin,
       StartHop, EndFetch

\* close_pools moves no thread from its place.
LEMMA CloseMovesNobody ==
    ASSUME WorkersInv, Shutdown \/ Close
    PROVE  /\ \A t \in Threads : conn'[t].at = conn[t].at
           /\ memory' = memory /\ fetch' = fetch
<1>1. memory' = memory /\ fetch' = fetch
      BY DEF Shutdown, Close, memoryVars, fetchVars
<1>2. CASE Close
      BY <1>1, <1>2 DEF Close, CloseStep, CloseEnters, ClosePool, DropHandles
<1>3. CASE Shutdown
  <2>1. \A t \in Threads : conn[t] \in Connection
        BY DEF WorkersInv, PoolsInv, PoolsTypeOK
  <2>2. \A t \in Threads :
            conn'[t] = IF conn[t].at = "out" THEN conn[t]
                       ELSE [conn[t] EXCEPT !.overtaken = TRUE]
        BY <1>3 DEF Shutdown, CloseBegins
  <2> QED BY <1>1, <2>1, <2>2 DEF Connection
<1> QED BY <1>1, <1>2, <1>3

\* The same of any step: only t moves t.
LEMMA StepMovesOne ==
    ASSUME WorkersInv, NEW t \in Threads, NEW u \in Threads \ {t},
           BeginQuery(t) \/ BeginMemory(t) \/ BeginFetch(t) \/ Work(t)
    PROVE  conn'[u] = conn[u] /\ memory'[u] = memory[u] /\ fetch'[u] = fetch[u]
<1>1. CASE BeginQuery(t)
      BY <1>1, ConnStepIsLocal DEF BeginQuery, ConnStep, memoryVars, fetchVars
<1>2. CASE BeginMemory(t)
      BY <1>2, MemoryStepIsLocal DEF BeginMemory, fetchVars
<1>3. CASE BeginFetch(t)
      BY <1>3, FetchStepIsLocal DEF BeginFetch, poolVars, memoryVars
<1>4. CASE TakeConnection(t)
      BY <1>4, ConnStepIsLocal DEF TakeConnection, ConnStep, memoryVars, fetchVars
<1>5. CASE EndQuery(t)
      BY <1>5, ConnStepIsLocal DEF EndQuery, ConnStep, memoryVars, fetchVars
<1>6. CASE Remember(t)
      BY <1>6, MemoryStepIsLocal DEF Remember, fetchVars
<1>7. CASE FetchOn(t)
      BY <1>7, FetchStepIsLocal DEF FetchOn, poolVars, memoryVars
<1> QED BY <1>1, <1>2, <1>3, <1>4, <1>5, <1>6, <1>7 DEF Work

\* Where a step of t leaves t itself.
LEMMA StepKeepsOneTool ==
    ASSUME WorkersInv, OneTool, NEW t \in Threads,
           BeginQuery(t) \/ BeginMemory(t) \/ BeginFetch(t) \/ Work(t)
    PROVE  /\ memory'[t] \in {"flag", "wait", "reflag", "ensured"} => conn'[t].at = "out"
           /\ fetch'[t].at # "out" => conn'[t].at = "out" /\ memory'[t] = "out"
<1> DEFINE Fine == /\ memory'[t] \in {"flag", "wait", "reflag", "ensured"} => conn'[t].at = "out"
                   /\ fetch'[t].at # "out" => conn'[t].at = "out" /\ memory'[t] = "out"
<1> SUFFICES Fine
    OBVIOUS
<1>1. /\ memory \in [Threads -> MemoryPlaces] /\ conn \in [Threads -> Connection]
      /\ conn[t] \in Connection /\ fetch \in [Threads -> Fetch]
      BY DEF WorkersInv, PoolsInv, PoolsTypeOK, MemoryInv, MemoryTypeOK, FetchInv, FetchTypeOK
<1>2. CASE BeginQuery(t)
      BY <1>2 DEF BeginQuery, Begin, Free, memoryVars, fetchVars
<1>3. CASE BeginMemory(t)
      BY <1>3 DEF BeginMemory, Begin, Free, UseMemory, fetchVars, poolVars
<1>4. CASE BeginFetch(t)
      BY <1>4 DEF BeginFetch, Begin, Free, poolVars, memoryVars
<1>5. CASE TakeConnection(t)
  <2>1. conn[t].at # "out" /\ memory' = memory /\ fetch' = fetch
        BY <1>5 DEF TakeConnection, Connect, Test, Enter, Retest, Read, Acquire, memoryVars, fetchVars
  <2> QED BY <2>1 DEF OneTool
<1>6. CASE EndQuery(t)
  <2>1. conn[t].at # "out" /\ memory' = memory /\ fetch' = fetch
        BY <1>6 DEF EndQuery, GiveBack, NoConnection, MakeFails, AcquireFails, memoryVars,
                    fetchVars
  <2> QED BY <2>1 DEF OneTool
<1>7. CASE Remember(t)
  <2>1. memory[t] # "out" /\ fetch' = fetch /\ fetch[t].at = "out"
        BY <1>7 DEF Remember, MemoryStep, TestFlag, EnterTable, RetestFlag, CreateTable,
                    CreateFails, AskToOperate, Operate, fetchVars, OneTool
  <2>2. CASE TestFlag(t) \/ EnterTable(t)
        BY <1>1, <2>1, <2>2 DEF TestFlag, EnterTable, poolVars, OneTool
  <2>3. CASE RetestFlag(t)
        BY <1>1, <2>1, <2>3 DEF RetestFlag, Reach, poolVars, OneTool
  <2>4. CASE CreateTable(t)
        BY <1>1, <2>1, <2>4 DEF CreateTable, Reach, GiveBack, Leave, Away
  <2>5. CASE CreateFails(t) \/ AskToOperate(t) \/ Operate(t)
        BY <1>1, <2>1, <2>5 DEF CreateFails, AskToOperate, Operate, Reach
  <2> QED BY <1>7, <2>2, <2>3, <2>4, <2>5 DEF Remember, MemoryStep
<1>8. CASE FetchOn(t)
  <2>1. fetch[t].at # "out" /\ conn' = conn /\ memory' = memory
        BY <1>8 DEF FetchOn, FetchStep, Validate, Pin, Request, Unpin, poolVars, memoryVars
  <2> QED BY <2>1 DEF OneTool
<1> QED BY <1>2, <1>3, <1>4, <1>5, <1>6, <1>7, <1>8 DEF Work

LEMMA NextKeepsOneTool == WorkersInv /\ OneTool /\ [Next]_vars => OneTool'
<1> SUFFICES ASSUME WorkersInv, OneTool, [Next]_vars PROVE OneTool'
    OBVIOUS
<1>1. CASE UNCHANGED vars
      BY <1>1 DEF vars, poolVars, memoryVars, fetchVars, OneTool
<1>2. CASE Shutdown \/ Close
      BY <1>2, CloseMovesNobody DEF OneTool
<1>3. ASSUME NEW t \in Threads,
             BeginQuery(t) \/ BeginMemory(t) \/ BeginFetch(t) \/ Work(t)
      PROVE  OneTool'
  <2>1. ASSUME NEW u \in Threads
        PROVE  /\ memory'[u] \in {"flag", "wait", "reflag", "ensured"} => conn'[u].at = "out"
               /\ fetch'[u].at # "out" => conn'[u].at = "out" /\ memory'[u] = "out"
    <3>1. CASE u = t
          BY <1>3, <3>1, StepKeepsOneTool
    <3>2. CASE u # t
      <4>1. conn'[u] = conn[u] /\ memory'[u] = memory[u] /\ fetch'[u] = fetch[u]
            BY <1>3, <3>2, StepMovesOne
      <4> QED BY <4>1 DEF OneTool
    <3> QED BY <3>1, <3>2
  <2> QED BY <2>1 DEF OneTool
<1> QED BY <1>1, <1>2, <1>3 DEF Next

THEOREM OneToolInvariant == Spec => []OneTool
<1>1. Init => OneTool
      BY DEF Init, PoolsInit, MemoryInit, FetchInit, OneTool, Away, Fresh
<1> QED BY <1>1, WorkersInvariant, NextKeepsOneTool, PTL DEF Spec

\* Who holds a lock that others wait for can go on, or waits for a lock whose
\* holder can: of the pools' lock, the table's and the pin's, in that order.
LEMMA SomeoneCanGoOn ==
    ASSUME WorkersInv, OneTool PROVE NobodyIsStuck
<1> SUFFICES ASSUME NEW t \in Threads, ~Free(t), closing \notin Roles \cup {"drop"}
             PROVE  \E u \in Threads : ~Free(u) /\ ~Waits(u)
    BY DEF NobodyIsStuck
<1>1. /\ poolsLock \in Threads \cup {Nobody}
      /\ \A u \in Threads : poolsLock = u <=> conn[u].at = "retest"
      BY DEF WorkersInv, PoolsInv, PoolsTypeOK, PoolsExclusive, Roles
<1>2. /\ tableLock \in Threads \cup {Nobody}
      /\ \A u \in Threads : tableLock = u <=> memory[u] \in {"reflag", "create"}
      BY DEF WorkersInv, MemoryInv, MemoryTypeOK
<1>3. /\ pinLock \in Threads \cup {Nobody}
      /\ \A u \in Threads :
            pinLock = u <=> fetch[u].at \in {"request", "redirected", "answered", "failed"}
      BY DEF WorkersInv, FetchInv, FetchTypeOK, Pinning
<1>4. CASE poolsLock # Nobody
  <2>1. poolsLock \in Threads /\ conn[poolsLock].at = "retest"
        BY <1>1, <1>4
  <2> QED BY <2>1 DEF Free, Waits, OneTool
<1>5. CASE poolsLock = Nobody /\ tableLock # Nobody
  <2>1. tableLock \in Threads /\ memory[tableLock] \in {"reflag", "create"}
        BY <1>2, <1>5
  <2> QED BY <1>5, <2>1 DEF Free, Waits, OneTool
<1>6. CASE poolsLock = Nobody /\ tableLock = Nobody /\ pinLock # Nobody
  <2>1. pinLock \in Threads /\ fetch[pinLock].at \in {"request", "redirected", "answered", "failed"}
        BY <1>3, <1>6
  <2> QED BY <1>6, <2>1 DEF Free, Waits
<1>7. CASE poolsLock = Nobody /\ tableLock = Nobody /\ pinLock = Nobody
      BY <1>7 DEF Waits
<1> QED BY <1>4, <1>5, <1>6, <1>7

\* Threads never all wait for each other, however many there are and whatever
\* tools they run: the thread that makes the table waits for the pools' lock while
\* it holds the table's, never the other way round (services/memory.py:57-79,
\* db/connection.py:45-112, tools/web_search.py:157-188).
THEOREM NobodyDeadlocks == Spec => []NobodyIsStuck
BY SomeoneCanGoOn, WorkersInvariant, OneToolInvariant, PTL

\* The steps left are a number, wherever a thread can be.
StepsAreNat ==
    \A t \in Threads :
        /\ ConnSteps[conn[t].at] \in Nat /\ MemorySteps[memory[t]] \in Nat
        /\ FetchLeft(t) \in Nat

LEMMA StepsLeftAreNat == WorkersInv => StepsAreNat
<1> SUFFICES ASSUME WorkersInv, NEW t \in Threads
             PROVE  /\ ConnSteps[conn[t].at] \in Nat /\ MemorySteps[memory[t]] \in Nat
                    /\ FetchLeft(t) \in Nat
    BY DEF StepsAreNat
<1>1. ConnSteps[conn[t].at] \in Nat
      BY DEF WorkersInv, PoolsInv, PoolsTypeOK, Connection, ConnSteps
<1>2. MemorySteps[memory[t]] \in Nat
      BY DEF WorkersInv, MemoryInv, MemoryTypeOK, MemoryPlaces, MemorySteps
<1>3. fetch[t] \in Fetch
      BY DEF WorkersInv, FetchInv, FetchTypeOK
<1>4. FetchSteps[fetch[t].at] \in Nat /\ MAX_REDIRECTS - fetch[t].hop \in Nat
      BY <1>3 DEF Fetch, FetchPlaces, FetchSteps
<1>5. FetchLeft(t) \in Nat
      BY <1>4 DEF FetchLeft
<1> QED BY <1>1, <1>2, <1>5

\* With a connection: towards holding it, and then towards giving it back.
LEMMA ConnShrinks ==
    ASSUME WorkersInv, NEW t \in Threads,
           Connect(t) \/ Acquire(t) \/ NoConnection(t) \/ GiveBack(t)
    PROVE  ConnSteps[conn'[t].at] < ConnSteps[conn[t].at]
<1>1. conn \in [Threads -> Connection] /\ conn[t] \in Connection
      BY DEF WorkersInv, PoolsInv, PoolsTypeOK
<1> USE <1>1 DEF ConnSteps
<1>2. CASE Test(t)
      BY <1>2 DEF Test, Go
<1>3. CASE Enter(t)
      BY <1>3 DEF Enter, Go
<1>4. CASE Retest(t)
      BY <1>4 DEF Retest, Go
<1>5. CASE Read(t)
  <2>1. conn'[t] = [conn[t] EXCEPT !.at = "acquire", !.pool = handle[conn[t].role]]
        BY <1>5 DEF Read
  <2>2. conn'[t].at = "acquire"
        BY <2>1 DEF Connection
  <2> QED BY <1>5, <2>2 DEF Read
<1>6. CASE Acquire(t)
      BY <1>6 DEF Acquire, Go
<1>7. CASE NoConnection(t) \/ GiveBack(t)
      BY <1>7 DEF NoConnection, MakeFails, AcquireFails, GiveBack, Leave, Away
<1> QED BY <1>2, <1>3, <1>4, <1>5, <1>6, <1>7 DEF Connect

\* With the facts about the user, the connection it asks for included.
LEMMA MemoryShrinks ==
    ASSUME WorkersInv, NEW t \in Threads, MemoryStep(t)
    PROVE  ConnSteps[conn'[t].at] + MemorySteps[memory'[t]]
               < ConnSteps[conn[t].at] + MemorySteps[memory[t]]
<1>1. /\ conn \in [Threads -> Connection] /\ conn[t] \in Connection
      /\ memory \in [Threads -> MemoryPlaces]
      BY DEF WorkersInv, PoolsInv, PoolsTypeOK, MemoryInv, MemoryTypeOK
<1>2. ConnSteps[conn[t].at] \in Nat
      BY StepsLeftAreNat DEF StepsAreNat
<1>3. CASE TestFlag(t) \/ EnterTable(t)
  <2>1. conn' = conn
        BY <1>3 DEF TestFlag, EnterTable, poolVars
  <2>2. MemorySteps[memory'[t]] < MemorySteps[memory[t]]
    <3>1. CASE TestFlag(t) /\ ready
          BY <1>1, <3>1 DEF TestFlag, Reach, MemorySteps
    <3>2. CASE TestFlag(t) /\ ~ready
          BY <1>1, <3>2 DEF TestFlag, Reach, MemorySteps
    <3>3. CASE EnterTable(t)
          BY <1>1, <3>3 DEF EnterTable, Reach, MemorySteps
    <3> QED BY <1>3, <3>1, <3>2, <3>3
  <2>3. MemorySteps[memory[t]] \in Nat /\ MemorySteps[memory'[t]] \in Nat
    <3>1. memory'[t] \in MemoryPlaces /\ memory[t] \in MemoryPlaces
          BY <1>1, <1>3 DEF TestFlag, EnterTable, Reach, MemoryPlaces
    <3> QED BY <3>1 DEF MemorySteps, MemoryPlaces
  <2> QED BY <1>2, <2>1, <2>2, <2>3
<1>4. CASE RetestFlag(t)
  <2>1. CASE ready
        BY <1>1, <1>2, <1>4, <2>1 DEF RetestFlag, Reach, poolVars, MemorySteps
  <2>2. CASE ~ready
        BY <1>1, <1>4, <2>2 DEF RetestFlag, Reach, Ask, MemorySteps, ConnSteps
  <2> QED BY <2>1, <2>2
<1>5. CASE CreateTable(t)
      BY <1>1, <1>5 DEF CreateTable, Reach, GiveBack, Leave, Away, MemorySteps, ConnSteps
<1>6. CASE CreateFails(t) \/ Operate(t)
  <2>1. conn'[t].at = "out" /\ memory'[t] = "out" /\ conn[t].at \in {"retest", "acquire", "held"}
        /\ memory[t] \in {"create", "operate"}
        BY <1>1, <1>6 DEF CreateFails, Operate, Reach, GiveBack, NoConnection, MakeFails,
                              AcquireFails, Leave, Away
  <2> QED BY <2>1 DEF MemorySteps, ConnSteps
<1>7. CASE AskToOperate(t)
      BY <1>1, <1>7 DEF AskToOperate, Reach, Ask, MemorySteps, ConnSteps
<1> QED BY <1>3, <1>4, <1>5, <1>6, <1>7 DEF MemoryStep

\* With a page: a redirect costs as much as is left of the hop it ends.
LEMMA FetchShrinks ==
    ASSUME WorkersInv, NEW t \in Threads, FetchStep(t)
    PROVE  FetchLeft(t)' < FetchLeft(t)
<1>1. /\ fetch \in [Threads -> Fetch] /\ fetch[t] \in Fetch
      /\ fetch[t].hop \in 0..MAX_REDIRECTS /\ MAX_REDIRECTS \in Nat
      BY DEF WorkersInv, FetchInv, FetchTypeOK, Fetch
<1>2. CASE EndFetch(t) /\ fetch[t].at # "out"
  <2>1. fetch'[t].at = "out"
        BY <1>1, <1>2 DEF EndFetch, Fresh
  <2>2. FetchSteps[fetch[t].at] \in Nat \ {0}
        BY <1>1, <1>2 DEF Fetch, FetchPlaces, FetchSteps
  <2> QED BY <1>1, <1>2, <2>1, <2>2 DEF FetchLeft
<1>3. ASSUME NEW place \in {"wait", "request", "redirected", "answered", "failed"},
             fetch'[t].at = place, fetch'[t].hop = fetch[t].hop,
             fetch[t].at # "out", FetchSteps[place] < FetchSteps[fetch[t].at]
      PROVE  FetchLeft(t)' < FetchLeft(t)
  <2>1. FetchSteps[place] \in Nat /\ FetchSteps[fetch[t].at] \in Nat
        BY <1>1 DEF Fetch, FetchPlaces, FetchSteps
  <2> QED BY <1>1, <1>3, <2>1 DEF FetchLeft
<1>4. CASE Validate(t)
  <2>1. CASE EndFetch(t)
        BY <1>2, <1>4, <2>1 DEF Validate
  <2>2. CASE fetch' = [fetch EXCEPT ![t].at = "wait", ![t].pinned = PinOf(t, fetch[t].hop)]
    <3>1. fetch'[t] = [fetch[t] EXCEPT !.at = "wait", !.pinned = PinOf(t, fetch[t].hop)]
          BY <1>1, <2>2
    <3>2. fetch'[t].at = "wait" /\ fetch'[t].hop = fetch[t].hop /\ fetch[t].at = "validate"
          BY <1>1, <1>4, <3>1 DEF Fetch, Validate
    <3>3. FetchSteps["wait"] < FetchSteps["validate"]
          BY DEF FetchSteps
    <3> QED BY <1>3, <3>2, <3>3
  <2> QED BY <1>4, <2>1, <2>2 DEF Validate
<1>5. CASE Pin(t)
  <2>1. fetch'[t] = [fetch[t] EXCEPT !.at = "request", !.previous = create_connection]
        BY <1>1, <1>5 DEF Pin
  <2>2. fetch'[t].at = "request" /\ fetch'[t].hop = fetch[t].hop /\ fetch[t].at = "wait"
        BY <1>1, <1>5, <2>1 DEF Fetch, Pin
  <2>3. FetchSteps["request"] < FetchSteps["wait"]
        BY DEF FetchSteps
  <2> QED BY <1>3, <2>2, <2>3
<1>6. CASE Request(t)
  <2>1. PICK how \in {"redirected", "answered", "failed"} :
            fetch' = [fetch EXCEPT ![t].at = how, ![t].reached = create_connection]
        BY <1>6 DEF Request
  <2>2. fetch'[t] = [fetch[t] EXCEPT !.at = how, !.reached = create_connection]
        BY <1>1, <2>1
  <2>3. fetch'[t].at = how /\ fetch'[t].hop = fetch[t].hop /\ fetch[t].at = "request"
        BY <1>1, <1>6, <2>2 DEF Fetch, Request
  <2>4. FetchSteps[how] < FetchSteps["request"]
        BY DEF FetchSteps
  <2> QED BY <1>3, <2>3, <2>4
<1>7. CASE Unpin(t)
  <2>1. CASE EndFetch(t)
        BY <1>2, <1>7, <2>1 DEF Unpin
  <2>2. CASE fetch[t].hop < MAX_REDIRECTS /\ StartHop(t, fetch[t].hop + 1)
    <3>1. fetch'[t].at = "validate" /\ fetch'[t].hop = fetch[t].hop + 1
          BY <1>1, <2>2 DEF StartHop, Fresh
    <3>2. FetchSteps["validate"] = 4 /\ FetchSteps[fetch[t].at] = 1 /\ fetch[t].at # "out"
          BY <1>7 DEF Unpin, FetchSteps
    <3> QED BY <1>1, <3>1, <3>2 DEF FetchLeft
  <2> QED BY <1>7, <2>1, <2>2 DEF Unpin
<1> QED BY <1>4, <1>5, <1>6, <1>7 DEF FetchStep

\* A step of t's own brings the end of its tool nearer.
LEMMA WorkShrinks ==
    ASSUME WorkersInv, WorkersInv', NEW t \in Threads, Work(t)
    PROVE  WorkLeft(t)' \in 0..(WorkLeft(t) - 1)
<1>1. /\ ConnSteps[conn[t].at] \in Nat /\ MemorySteps[memory[t]] \in Nat /\ FetchLeft(t) \in Nat
      BY StepsLeftAreNat DEF StepsAreNat
<1>2. (/\ ConnSteps[conn[t].at] \in Nat /\ MemorySteps[memory[t]] \in Nat /\ FetchLeft(t) \in Nat)'
  <2>1. StepsAreNat'
        BY StepsLeftAreNat, PTL
  <2> QED BY <2>1 DEF StepsAreNat
<1>3. CASE TakeConnection(t) \/ EndQuery(t)
  <2>1. ConnSteps[conn'[t].at] < ConnSteps[conn[t].at]
        BY <1>3, ConnShrinks DEF TakeConnection, EndQuery
  <2>2. memory' = memory /\ fetch' = fetch
        BY <1>3 DEF TakeConnection, EndQuery, memoryVars, fetchVars
  <2>3. FetchLeft(t)' = FetchLeft(t)
        BY <2>2 DEF FetchLeft
  <2> QED BY <1>1, <1>2, <2>1, <2>2, <2>3 DEF WorkLeft
<1>4. CASE Remember(t)
  <2>1. ConnSteps[conn'[t].at] + MemorySteps[memory'[t]]
            < ConnSteps[conn[t].at] + MemorySteps[memory[t]]
        BY <1>4, MemoryShrinks DEF Remember
  <2>2. FetchLeft(t)' = FetchLeft(t)
        BY <1>4 DEF FetchLeft, Remember, fetchVars
  <2> QED BY <1>1, <1>2, <2>1, <2>2 DEF WorkLeft
<1>5. CASE FetchOn(t)
  <2>1. FetchLeft(t)' < FetchLeft(t)
        BY <1>5, FetchShrinks DEF FetchOn
  <2>2. conn' = conn /\ memory' = memory
        BY <1>5 DEF FetchOn, poolVars, memoryVars
  <2> QED BY <1>1, <1>2, <2>1, <2>2 DEF WorkLeft
<1> QED BY <1>3, <1>4, <1>5 DEF Work

\* A step of another's, or of close_pools, sets nothing back.
LEMMA NobodySetsBack ==
    ASSUME WorkersInv, WorkersInv', [Next]_vars, NEW t \in Threads, ~Free(t)
    PROVE  WorkLeft(t)' <= WorkLeft(t)
<1>1. WorkLeft(t) \in Nat
      BY StepsLeftAreNat DEF StepsAreNat, WorkLeft
<1>2. CASE Work(t)
      BY <1>1, <1>2, WorkShrinks
<1>3. CASE conn'[t].at = conn[t].at /\ memory'[t] = memory[t] /\ fetch'[t] = fetch[t]
  <2>1. FetchLeft(t)' = FetchLeft(t)
        BY <1>3 DEF FetchLeft
  <2> QED BY <1>1, <1>3, <2>1 DEF WorkLeft
<1>4. CASE UNCHANGED vars
      BY <1>3, <1>4 DEF vars, poolVars, memoryVars, fetchVars
<1>5. CASE Shutdown \/ Close
      BY <1>3, <1>5, CloseMovesNobody
<1>6. ASSUME NEW u \in Threads,
             BeginQuery(u) \/ BeginMemory(u) \/ BeginFetch(u) \/ Work(u)
      PROVE  WorkLeft(t)' <= WorkLeft(t)
  <2>1. CASE u = t
        BY <1>2, <1>6, <2>1 DEF BeginQuery, BeginMemory, BeginFetch, Begin
  <2>2. CASE u # t
        BY <1>3, <1>6, <2>2, StepMovesOne
  <2> QED BY <2>1, <2>2
<1> QED BY <1>4, <1>5, <1>6 DEF Next

\* Every tool has only so many steps, whatever other threads and close_pools do
\* meanwhile: no test of a handle, a flag or a redirect is repeated without end
\* (db/connection.py:45-112, services/memory.py:57-79, tools/web_search.py:157-229).
THEOREM JobsTerminate == Spec => JobsAreBounded
<1>1. WorkersInv /\ WorkersInv' /\ [Next]_vars =>
          [\A t \in Threads : ~Free(t) =>
              /\ WorkLeft(t)' <= WorkLeft(t)
              /\ Work(t) => WorkLeft(t)' \in 0..(WorkLeft(t) - 1)]_vars
      BY NobodySetsBack, WorkShrinks
<1> QED BY <1>1, WorkersInvariant, PTL DEF Spec, JobsAreBounded
=============================================================================
