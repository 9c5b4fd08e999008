------------------------------- MODULE Overlap -------------------------------
(***************************************************************************)
(* Several messages of one conversation thread handled at once (chat.py):  *)
(* each runs main in a coroutine of its own and the graph in a worker      *)
(* thread, nothing orders them.  A browser that is reloaded while a turn   *)
(* is at work resumes the thread, and can send the next message.           *)
(*                                                                         *)
(* Turn has what one invocation does.  Here an invocation reads the        *)
(* checkpoint once, works on its own copy of the state and stores all of   *)
(* it after every node; of the state only the turn's number is kept, and   *)
(* the node that is scheduled next.                                        *)
(***************************************************************************)
EXTENDS Naturals

CONSTANT Messages   \* the user's messages on this thread

VARIABLES
    checkpoint,   \* the state stored last
    handler       \* what main knows while it handles a message

vars == <<checkpoint, handler>>

\* The node the checkpoint schedules next: "graph" is any after memory_manager,
\* "paused" the one that waits for an answer, "none" the end.
Scheduled == {"memory_manager", "graph", "paused", "none"}

State == [turn_count: Nat, next: Scheduled]

Places == {"unsent", "get_state", "invoke", "memory_manager", "graph", "handled"}

\* turn is the number of the turn a message has begun, 0 if it begins none.
Handler == [at: Places, paused: BOOLEAN, state: State, turn: Nat]

Init ==
    /\ checkpoint = [turn_count |-> 0, next |-> "none"]
    /\ handler = [m \in Messages |->
                    [at |-> "unsent", paused |-> FALSE, state |-> checkpoint, turn |-> 0]]

Go(m, place) == handler' = [handler EXCEPT ![m].at = place]

OnMessage(m) == handler[m].at = "unsent" /\ Go(m, "get_state") /\ UNCHANGED checkpoint

\* A get_state that fails counts as nothing pending.
GetState(m) ==
    /\ handler[m].at = "get_state"
    /\ \E paused \in {checkpoint.next = "paused", FALSE} :
          handler' = [handler EXCEPT ![m].at = "invoke", ![m].paused = paused]
    /\ UNCHANGED checkpoint

\* The state after a node is the invocation's and is stored whole.
Store(m, state, place, turn) ==
    /\ checkpoint' = state
    /\ handler' = [handler EXCEPT ![m].state = state, ![m].at = place, ![m].turn = turn]

\* A new message is stored as the input of a run from START, whatever was
\* scheduled before.
Invoke(m) ==
    /\ handler[m].at = "invoke" /\ ~handler[m].paused
    /\ Store(m, [checkpoint EXCEPT !.next = "memory_manager"], "memory_manager", 0)

\* The answer to a question runs whatever node the checkpoint schedules by now:
\* the one that waits, or, when another message has moved the thread on, one that
\* an invocation at work is running too, or none.
Resume(m) ==
    /\ handler[m].at = "invoke" /\ handler[m].paused
    /\ \E place \in {"memory_manager", "graph", "handled"} :
          /\ place = "memory_manager" <=> checkpoint.next = "memory_manager"
          /\ place = "handled" <=> checkpoint.next = "none"
          /\ handler' = [handler EXCEPT ![m].state = checkpoint, ![m].at = place]
    /\ UNCHANGED checkpoint

MemoryManager(m) ==
    /\ handler[m].at = "memory_manager"
    /\ LET number == handler[m].state.turn_count + 1
       IN  Store(m, [turn_count |-> number, next |-> "graph"], "graph", number)

\* The nodes after it end in an answer or a question, or go on.
Graph(m) ==
    /\ handler[m].at = "graph"
    /\ \E next \in {"graph", "paused", "none"} :
          Store(m, [handler[m].state EXCEPT !.next = next],
                IF next = "graph" THEN "graph" ELSE "handled", handler[m].turn)

\* A node that raises stores nothing; memory_manager catches what its LLM raises.
Raise(m) == handler[m].at = "graph" /\ Go(m, "handled") /\ UNCHANGED checkpoint

Next ==
    \E m \in Messages :
        \/ OnMessage(m) \/ GetState(m) \/ Invoke(m) \/ Resume(m)
        \/ MemoryManager(m) \/ Graph(m) \/ Raise(m)

Spec == Init /\ [][Next]_vars

-----------------------------------------------------------------------------
\* A statement of the repository that the code does not keep.
\* state/state.py:160, turn_count: "Incremented once per new user turn by
\* memory_manager (not on interrupt resumes).": no two messages begin a turn of the
\* same number, and one that was sent on as an answer begins none.
TurnsNumberedOnce ==
    \A m, n \in Messages :
        /\ m # n /\ handler[m].turn # 0 => handler[m].turn # handler[n].turn
        /\ handler[m].paused => handler[m].turn = 0

\* An invocation that has read the checkpoint and may still store a state.
Invoked(m) == handler[m].at \in {"memory_manager", "graph"}

\* What nothing in the code sees to: one invocation of the thread at a time.
OneInvocation == \A m, n \in Messages : Invoked(m) /\ Invoked(n) => m = n
=============================================================================
