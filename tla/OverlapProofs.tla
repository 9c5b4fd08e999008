---------------------------- MODULE OverlapProofs ----------------------------
(***************************************************************************)
(* What it would take for the turns of a conversation thread to be         *)
(* numbered as state/state.py says, for any number of messages.            *)
(***************************************************************************)
EXTENDS Overlap, TLAPS

\* An invocation that has read the checkpoint has the number that is stored, and
\* no turn has a higher one; a turn is begun by memory_manager alone, which runs
\* for new messages: while the checkpoint schedules it, one has it at work.
OverlapInv ==
    /\ checkpoint \in State
    /\ handler \in [Messages -> Handler]
    /\ \A m \in Messages :
          /\ handler[m].turn <= checkpoint.turn_count
          /\ Invoked(m) => handler[m].state.turn_count = checkpoint.turn_count
          /\ handler[m].at \in {"unsent", "get_state", "invoke"} => handler[m].turn = 0
          /\ handler[m].at = "memory_manager" => ~handler[m].paused
    /\ checkpoint.next = "memory_manager" => \E m \in Messages : handler[m].at = "memory_manager"
    /\ TurnsNumberedOnce

\* Steps that store nothing and leave memory_manager alone.
LEMMA ReadingKeepsOverlapInv ==
    ASSUME OverlapInv, OneInvocation', NEW m \in Messages,
           OnMessage(m) \/ GetState(m) \/ Resume(m) \/ Raise(m)
    PROVE  OverlapInv'
<1>1. /\ checkpoint' = checkpoint /\ checkpoint \in State
      /\ handler[m] \in Handler /\ handler \in [Messages -> Handler]
      /\ handler[m].at # "memory_manager"
      BY DEF OverlapInv, OnMessage, GetState, Resume, Raise
<1>2. \A n \in Messages \ {m} : handler'[n] = handler[n]
      BY <1>1 DEF OnMessage, GetState, Resume, Raise, Go
<1> DEFINE Reads ==
        /\ handler'[m] \in Handler /\ handler'[m].turn = handler[m].turn
        /\ Invoked(m)' => handler'[m].state.turn_count = checkpoint.turn_count
        /\ handler'[m].at \in {"unsent", "get_state", "invoke"} => handler'[m].turn = 0
        /\ handler'[m].at # "memory_manager"
        /\ handler'[m].paused => handler'[m].turn = 0
<1>3. Reads
  <2>1. CASE OnMessage(m)
    <3>1. handler'[m] = [handler[m] EXCEPT !.at = "get_state"] /\ handler[m].at = "unsent"
          BY <1>1, <2>1 DEF OnMessage, Go
    <3> QED BY <1>1, <3>1 DEF Handler, Places, Invoked, OverlapInv
  <2>2. CASE GetState(m)
    <3>1. PICK paused \in {checkpoint.next = "paused", FALSE} :
              handler' = [handler EXCEPT ![m].at = "invoke", ![m].paused = paused]
          BY <2>2 DEF GetState
    <3>2. handler'[m] = [handler[m] EXCEPT !.at = "invoke", !.paused = paused]
          BY <1>1, <3>1
    <3>3. handler[m].turn = 0 /\ paused \in BOOLEAN
          BY <2>2 DEF GetState, OverlapInv
    <3>4. handler'[m] \in Handler /\ handler'[m].at = "invoke" /\ handler'[m].turn = handler[m].turn
          BY <1>1, <3>2, <3>3 DEF Handler, Places
    <3> QED BY <1>1, <3>3, <3>4 DEF Invoked
  <2>3. CASE Resume(m)
    <3>1. PICK place \in {"memory_manager", "graph", "handled"} :
              /\ place = "memory_manager" <=> checkpoint.next = "memory_manager"
              /\ handler' = [handler EXCEPT ![m].state = checkpoint, ![m].at = place]
          BY <2>3 DEF Resume
    <3>2. handler'[m] = [handler[m] EXCEPT !.state = checkpoint, !.at = place]
          BY <1>1, <3>1
    <3>3. /\ handler'[m] \in Handler /\ handler'[m].state = checkpoint /\ handler'[m].at = place
          /\ handler'[m].turn = handler[m].turn /\ handler[m].turn = 0
          BY <1>1, <2>3, <3>1, <3>2 DEF Handler, Places, Resume, OverlapInv
    \* Otherwise the message would run the node of the one that is at work.
    <3>4. place # "memory_manager"
      <4>1. SUFFICES ASSUME place = "memory_manager" PROVE FALSE
            OBVIOUS
      <4>2. PICK n \in Messages : handler[n].at = "memory_manager"
            BY <3>1, <4>1 DEF OverlapInv
      <4>3. n # m /\ handler'[n].at = "memory_manager"
            BY <1>1, <1>2, <4>2
      <4> QED BY <3>3, <4>1, <4>3 DEF OneInvocation, Invoked
    <3> QED BY <1>1, <3>1, <3>3, <3>4
  <2>4. CASE Raise(m)
    <3>1. handler'[m] = [handler[m] EXCEPT !.at = "handled"]
          BY <1>1, <2>4 DEF Raise, Go
    <3>2. handler'[m] \in Handler /\ handler'[m].turn = handler[m].turn
          /\ handler'[m].paused = handler[m].paused /\ handler'[m].at = "handled"
          BY <1>1, <3>1 DEF Handler, Places
    <3> QED BY <1>1, <3>2 DEF Invoked, OverlapInv, TurnsNumberedOnce
  <2> QED BY <2>1, <2>2, <2>3, <2>4
<1>4. handler' \in [Messages -> Handler]
  <2>1. \A n \in Messages : handler'[n] \in Handler
        BY <1>1, <1>2, <1>3
  <2>2. handler' = [n \in Messages |-> handler'[n]]
        BY <1>1 DEF OnMessage, GetState, Resume, Raise, Go
  <2> QED BY <2>1, <2>2
<1>5. \A n \in Messages :
          /\ handler'[n].turn <= checkpoint'.turn_count
          /\ Invoked(n)' => handler'[n].state.turn_count = checkpoint'.turn_count
          /\ handler'[n].at \in {"unsent", "get_state", "invoke"} => handler'[n].turn = 0
          /\ handler'[n].at = "memory_manager" => ~handler'[n].paused
      BY <1>1, <1>2, <1>3 DEF OverlapInv, Invoked
<1>6. checkpoint'.next = "memory_manager" =>
          \E n \in Messages : handler'[n].at = "memory_manager"
      BY <1>1, <1>2 DEF OverlapInv
<1>7. TurnsNumberedOnce'
  <2>1. \A n \in Messages : handler'[n].turn = handler[n].turn
        BY <1>2, <1>3
  <2>2. \A n \in Messages : handler'[n].paused => handler'[n].turn = 0
        BY <1>2, <1>3 DEF OverlapInv, TurnsNumberedOnce
  <2> QED BY <2>1, <2>2 DEF OverlapInv, TurnsNumberedOnce
<1> QED BY <1>1, <1>4, <1>5, <1>6, <1>7 DEF OverlapInv

\* Steps that store a state, while no other invocation has one of its own.
LEMMA StoringKeepsOverlapInv ==
    ASSUME OverlapInv, OneInvocation, OneInvocation', NEW m \in Messages,
           Invoke(m) \/ MemoryManager(m) \/ Graph(m)
    PROVE  OverlapInv'
<1>1. /\ handler[m] \in Handler /\ handler \in [Messages -> Handler] /\ checkpoint \in State
      /\ checkpoint.turn_count \in Nat
      /\ handler[m].turn <= checkpoint.turn_count
      /\ handler[m].state \in State /\ handler[m].turn \in Nat
      BY DEF OverlapInv, Handler, State
\* What is left to show of a step that stores: its number is the stored one or a
\* new one, and the others have ended, or have not begun, as before.
<1>2. ASSUME NEW next \in Scheduled, NEW number \in Nat, NEW place \in Places, NEW turn \in Nat,
             Store(m, [turn_count |-> number, next |-> next], place, turn),
             \/ number = checkpoint.turn_count /\ turn = handler[m].turn
             \/ number = checkpoint.turn_count + 1 /\ turn = number,
             place \in {"memory_manager", "graph", "handled"},
             next = "memory_manager" <=> place = "memory_manager",
             place = "memory_manager" \/ turn # handler[m].turn => ~handler[m].paused,
             \A n \in Messages \ {m} : ~Invoked(n)'
      PROVE  OverlapInv'
  <2> DEFINE state == [turn_count |-> number, next |-> next]
  <2>1. state \in State /\ state.turn_count = number /\ state.next = next
        BY <1>2 DEF State
  <2>2. checkpoint' = state
        BY <1>2 DEF Store
  <2>3. handler' = [handler EXCEPT ![m].state = state, ![m].at = place, ![m].turn = turn]
        BY <1>2 DEF Store
  <2> HIDE DEF state
  <2>4. handler'[m] = [handler[m] EXCEPT !.state = state, !.at = place, !.turn = turn]
        BY <1>1, <2>3
  <2>5. /\ handler'[m] \in Handler /\ handler'[m].state = state /\ handler'[m].turn = turn
        /\ handler'[m].at = place /\ handler'[m].paused = handler[m].paused
        BY <1>1, <1>2, <2>1, <2>4 DEF Handler
  <2>6. \A n \in Messages \ {m} : handler'[n] = handler[n]
        BY <1>1, <2>3
  <2>7. handler' \in [Messages -> Handler]
        BY <1>1, <2>3, <2>5, <2>6
  <2>8. \A n \in Messages : handler[n].turn \in Nat /\ handler[n].turn <= checkpoint.turn_count
        BY DEF OverlapInv, Handler
  <2>9. \A n \in Messages :
            /\ handler'[n].turn <= number
            /\ Invoked(n)' => handler'[n].state.turn_count = number
    <3>1. handler'[m].turn <= number /\ handler'[m].state.turn_count = number
          BY <1>1, <1>2, <2>1, <2>5, <2>8
    <3>2. \A n \in Messages \ {m} : handler'[n].turn <= number
          BY <1>1, <1>2, <2>6, <2>8
    <3> QED BY <1>2, <3>1, <3>2
  <2>10. \A n \in Messages :
            /\ handler'[n].at \in {"unsent", "get_state", "invoke"} => handler'[n].turn = 0
            /\ handler'[n].at = "memory_manager" => ~handler'[n].paused
        BY <1>2, <2>5, <2>6 DEF OverlapInv
  <2>11. next = "memory_manager" => \E n \in Messages : handler'[n].at = "memory_manager"
        BY <1>2, <2>5
  <2>12. TurnsNumberedOnce'
    <3>1. \A n \in Messages : handler'[n].paused => handler'[n].turn = 0
          BY <1>2, <2>5, <2>6 DEF OverlapInv, TurnsNumberedOnce
    <3>2. CASE turn = handler[m].turn
      <4>1. \A n \in Messages : handler'[n].turn = handler[n].turn
            BY <2>5, <2>6, <3>2
      <4> QED BY <3>1, <4>1 DEF OverlapInv, TurnsNumberedOnce
    <3>3. CASE turn = checkpoint.turn_count + 1
      <4>1. \A n \in Messages \ {m} : handler'[n].turn # handler'[m].turn
            BY <1>1, <2>5, <2>6, <2>8, <3>3
      <4>2. \A n, k \in Messages \ {m} :
                n # k /\ handler'[n].turn # 0 => handler'[n].turn # handler'[k].turn
            BY <2>6 DEF OverlapInv, TurnsNumberedOnce
      <4> QED BY <3>1, <4>1, <4>2 DEF TurnsNumberedOnce
    <3> QED BY <1>2, <3>2, <3>3
  <2> QED BY <2>1, <2>2, <2>7, <2>9, <2>10, <2>11, <2>12 DEF OverlapInv
<1>3. CASE Invoke(m)
  <2>1. Store(m, [checkpoint EXCEPT !.next = "memory_manager"], "memory_manager", 0)
        /\ ~handler[m].paused /\ handler[m].turn = 0
        BY <1>3 DEF Invoke, OverlapInv
  <2>2. [checkpoint EXCEPT !.next = "memory_manager"]
            = [turn_count |-> checkpoint.turn_count, next |-> "memory_manager"]
        BY <1>1 DEF State
  <2>3. Store(m, [turn_count |-> checkpoint.turn_count, next |-> "memory_manager"],
              "memory_manager", 0)
        BY <2>1, <2>2
  <2>4. handler'[m].at = "memory_manager"
        BY <1>1, <2>3 DEF Store, Handler
  <2>5. \A n \in Messages \ {m} : ~Invoked(n)'
        BY <2>4 DEF OneInvocation, Invoked
  <2> QED BY <1>1, <1>2, <2>1, <2>3, <2>5 DEF Scheduled, Places
\* A step of the invocation at work has the stored number, and the others rest.
<1>4. ASSUME Invoked(m)
      PROVE  handler[m].state.turn_count = checkpoint.turn_count
      BY <1>4 DEF OverlapInv
<1>5. ASSUME Invoked(m), NEW state, NEW place, NEW turn, Store(m, state, place, turn)
      PROVE  \A n \in Messages \ {m} : ~Invoked(n)'
  <2>1. \A n \in Messages \ {m} : handler'[n] = handler[n]
        BY <1>1, <1>5 DEF Store
  <2> QED BY <1>5, <2>1 DEF OneInvocation, Invoked
<1>6. CASE MemoryManager(m)
  <2> DEFINE number == checkpoint.turn_count + 1
  <2>1. Invoked(m) /\ ~handler[m].paused
        BY <1>6 DEF MemoryManager, Invoked, OverlapInv
  <2>2. Store(m, [turn_count |-> number, next |-> "graph"], "graph", number)
        BY <1>4, <1>6, <2>1 DEF MemoryManager
  <2>3. \A n \in Messages \ {m} : ~Invoked(n)'
        BY <1>5, <2>1, <2>2
  <2>4. number \in Nat
        BY <1>1
  <2> QED BY <1>2, <2>1, <2>2, <2>3, <2>4 DEF Scheduled, Places
<1>7. CASE Graph(m)
  <2>1. PICK next \in {"graph", "paused", "none"} :
            Store(m, [handler[m].state EXCEPT !.next = next],
                  IF next = "graph" THEN "graph" ELSE "handled", handler[m].turn)
        BY <1>7 DEF Graph
  <2> DEFINE place == IF next = "graph" THEN "graph" ELSE "handled"
  <2>2. Invoked(m)
        BY <1>7 DEF Graph, Invoked
  <2>3. [handler[m].state EXCEPT !.next = next]
            = [turn_count |-> checkpoint.turn_count, next |-> next]
        BY <1>1, <1>4, <2>2 DEF State
  <2>4. Store(m, [turn_count |-> checkpoint.turn_count, next |-> next], place, handler[m].turn)
        BY <2>1, <2>3
  <2>5. \A n \in Messages \ {m} : ~Invoked(n)'
        BY <1>5, <2>2, <2>4
  <2>6. place \in {"graph", "handled"}
        OBVIOUS
  <2> HIDE DEF place
  <2> QED BY <1>1, <1>2, <2>4, <2>5, <2>6 DEF Scheduled, Places
<1> QED BY <1>3, <1>6, <1>7

LEMMA NextKeepsOverlapInv ==
    OverlapInv /\ OneInvocation /\ OneInvocation' /\ [Next]_vars => OverlapInv'
<1> SUFFICES ASSUME OverlapInv, OneInvocation, OneInvocation', [Next]_vars PROVE OverlapInv'
    OBVIOUS
<1>1. CASE UNCHANGED vars
      BY <1>1 DEF vars, OverlapInv, TurnsNumberedOnce, Invoked
<1>2. CASE Next
      BY <1>2, ReadingKeepsOverlapInv, StoringKeepsOverlapInv DEF Next
<1> QED BY <1>1, <1>2

\* A turn gets a number of its own and an answer begins none, as state/state.py:160
\* says, as long as one invocation of a thread's graph has ended before the next
\* one begins: for the numbers a lock around the invocation alone (chat.py:187-198)
\* would do. get_state, which comes before it, may overlap, and an answer that has
\* become stale meanwhile runs whatever is scheduled by then.
THEOREM NumberedOnceOneByOne == Spec /\ []OneInvocation => []TurnsNumberedOnce
<1>1. Init => OverlapInv
      BY DEF Init, OverlapInv, State, Scheduled, Handler, Places, Invoked, TurnsNumberedOnce
<1>2. OverlapInv => TurnsNumberedOnce
      BY DEF OverlapInv
<1> QED BY <1>1, <1>2, NextKeepsOverlapInv, PTL DEF Spec
=============================================================================
