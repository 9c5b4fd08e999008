----------------------------- MODULE PinnedFetch -----------------------------
(***************************************************************************)
(* fetch_page (tools/web_search.py).  The address of each hop is validated *)
(* first; so that the connection goes to that address, create_connection   *)
(* of urllib3, one function for the whole process, is replaced for the     *)
(* length of one requests.get and put back, under a lock.                  *)
(*                                                                         *)
(* An address stands for the validation that returned it: the thread and   *)
(* the hop.  What a server answers is a choice.                            *)
(***************************************************************************)
EXTENDS Naturals, Threading

CONSTANT MAX_REDIRECTS

ASSUME FetchAssumption == MAX_REDIRECTS \in Nat

VARIABLES
    create_connection,  \* the function installed in urllib3: Original or a pin
    pinLock,            \* who holds _PIN_LOCK
    fetch               \* a thread's fetch_page, see Fetch

fetchVars == <<create_connection, pinLock, fetch>>

Original == [by |-> Nobody, hop |-> 0]

\* _pin_connection: the function that connects to one validated address.
PinOf(t, hop) == [by |-> t, hop |-> hop]
Functions == [by: Threads \cup {Nobody}, hop: 0..MAX_REDIRECTS]

FetchPlaces == {"out", "validate", "wait", "request", "redirected", "answered", "failed"}

\* reached is the function the request of this hop connected through.
Fetch == [at: FetchPlaces, hop: 0..MAX_REDIRECTS, pinned: Functions,
          previous: Functions, reached: Functions]

\* A thread at the start of a hop, or in no fetch_page at all.
Fresh(place, hop) ==
    [at |-> place, hop |-> hop, pinned |-> Original,
     previous |-> Original, reached |-> Original]

FetchInit ==
    /\ create_connection = Original
    /\ pinLock = Nobody
    /\ fetch = [t \in Threads |-> Fresh("out", 0)]

StartHop(t, hop) == fetch' = [fetch EXCEPT ![t] = Fresh("validate", hop)]
EndFetch(t) == fetch' = [fetch EXCEPT ![t] = Fresh("out", 0)]

FetchPage(t) ==
    /\ fetch[t].at = "out"
    /\ StartHop(t, 0)
    /\ UNCHANGED <<create_connection, pinLock>>

\* Mutant: only the first URL is resolved and validated.
Validate_FirstHopOnly(t) ==
    /\ fetch[t].at = "validate"
    /\ fetch' = [fetch EXCEPT ![t].at = "wait", ![t].pinned = PinOf(t, 0)]
    /\ UNCHANGED <<create_connection, pinLock>>

\* _resolve_and_validate raises, or returns an address for this hop's URL.
Validate(t) ==
    /\ fetch[t].at = "validate"
    /\ \/ EndFetch(t)
       \/ fetch' = [fetch EXCEPT ![t].at = "wait", ![t].pinned = PinOf(t, fetch[t].hop)]
    /\ UNCHANGED <<create_connection, pinLock>>

\* Mutant: the function is replaced without the lock.
Pin_Unlocked(t) ==
    /\ fetch[t].at = "wait"
    /\ fetch' = [fetch EXCEPT ![t].at = "request", ![t].previous = create_connection]
    /\ create_connection' = fetch[t].pinned
    /\ UNCHANGED pinLock

Pin(t) ==
    /\ fetch[t].at = "wait"
    /\ pinLock = Nobody
    /\ pinLock' = t
    /\ fetch' = [fetch EXCEPT ![t].at = "request", ![t].previous = create_connection]
    /\ create_connection' = fetch[t].pinned

\* requests.get: a redirect, another answer, or an exception.
Request(t) ==
    /\ fetch[t].at = "request"
    /\ \E how \in {"redirected", "answered", "failed"} :
          fetch' = [fetch EXCEPT ![t].at = how, ![t].reached = create_connection]
    /\ UNCHANGED <<create_connection, pinLock>>

\* Mutant: the function is put back only when the request succeeded.
Unpin_OnSuccess(t) ==
    /\ fetch[t].at \in {"redirected", "answered", "failed"}
    /\ pinLock' = Nobody
    /\ create_connection' = IF fetch[t].at = "failed" THEN create_connection
                            ELSE fetch[t].previous
    /\ EndFetch(t)

\* Mutant: one redirect too many is followed.
Unpin_OneMore(t) ==
    /\ fetch[t].at \in {"redirected", "answered", "failed"}
    /\ pinLock' = Nobody
    /\ create_connection' = fetch[t].previous
    /\ \/ EndFetch(t)
       \/ /\ fetch[t].at = "redirected"
          /\ fetch[t].hop <= MAX_REDIRECTS
          /\ StartHop(t, fetch[t].hop + 1)

\* finally, and the end of the hop: a redirect is followed unless it is one too
\* many or has no Location; then the page is read, or its snippet is returned,
\* or an exception is raised, none of which touches what is shared.
Unpin(t) ==
    /\ fetch[t].at \in {"redirected", "answered", "failed"}
    /\ pinLock' = Nobody
    /\ create_connection' = fetch[t].previous
    /\ \/ EndFetch(t)
       \/ /\ fetch[t].at = "redirected"
          /\ fetch[t].hop < MAX_REDIRECTS
          /\ StartHop(t, fetch[t].hop + 1)

FetchStep(t) == Validate(t) \/ Pin(t) \/ Request(t) \/ Unpin(t)

-----------------------------------------------------------------------------
FetchTypeOK ==
    /\ create_connection \in Functions
    /\ pinLock \in Threads \cup {Nobody}
    /\ fetch \in [Threads -> Fetch]

\* Every request connects to the address that was validated for the very URL
\* it asks for, whatever other threads fetch at the same time and however often
\* it is redirected ("which the caller then pins the actual TCP connection to").
ReachesValidated ==
    \A t \in Threads :
        fetch[t].at \in {"redirected", "answered", "failed"}
            => fetch[t].reached = PinOf(t, fetch[t].hop)

\* When no request is under way the process connects as it always did: no pin
\* of a finished fetch, failed or not, stays behind for other connections.
PinIsTemporary == pinLock = Nobody => create_connection = Original
=============================================================================
