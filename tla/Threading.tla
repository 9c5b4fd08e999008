------------------------------ MODULE Threading ------------------------------
(***************************************************************************)
(* The threads of the process and its locks: a threading.Lock is held by   *)
(* one of them or by Nobody.  Every message is handled by a worker thread  *)
(* (chat.py runs each in its own), and they share the globals of a module. *)
(***************************************************************************)
CONSTANTS
    Threads,   \* the worker threads that handle messages
    Nobody     \* a lock that is free

ASSUME ThreadsAssumption == Nobody \notin Threads
=============================================================================
