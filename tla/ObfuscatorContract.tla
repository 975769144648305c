------------------------- MODULE ObfuscatorContract -------------------------
(***************************************************************************)
(* What ObfuscatorAPI promises a client that waits for each callback       *)
(* before its next call: start and stop take effect atomically, at most    *)
(* one started process is tracked at a time, a failed call leaves what was *)
(* tracked alone, and each call ends once.                                 *)
(***************************************************************************)
CONSTANTS Calls, None

VARIABLES
    running,   \* the start whose process is tracked, or None
    outcome    \* outcome[c]: "pending" until the call has ended

contractVars == <<running, outcome>>

Init ==
    /\ running = None
    /\ outcome = [c \in Calls |-> "pending"]

\* The call ends with r and leaves the tracked process as given.
Ends(c, r, tracked) ==
    /\ outcome[c] = "pending"
    /\ outcome' = [outcome EXCEPT ![c] = r]
    /\ running' = tracked

\* A start tracks its process only if none is tracked.
Start(c) ==
    \/ running = None /\ Ends(c, "ok", c)
    \/ running = None /\ Ends(c, "PROCESS_COULD_NOT_START", None)
    \/ running = None /\ Ends(c, "PROCESS_DEFERRABLE_TIMED_OUT", None)
    \/ running # None /\ Ends(c, "PROCESS_RUNNING_ALREADY", running)

\* A stop that succeeds ends the tracking.
Stop(c) ==
    \/ running # None /\ Ends(c, "ok", None)
    \/ running # None /\ Ends(c, "PROCESS_COULD_NOT_STOP", running)
    \/ running = None /\ Ends(c, "PROCESS_UNKNOWN", None)

Next == \E c \in Calls : Start(c) \/ Stop(c)

Spec == Init /\ [][Next]_contractVars

=============================================================================
