---------------------------- MODULE ReplayFilter ----------------------------
(***************************************************************************)
(* The value of a replay filter and its two operations: the pair of the    *)
(* highest packet id accepted and of all the ids accepted.                 *)
(***************************************************************************)
LOCAL INSTANCE Naturals

CONSTANTS
    Limit,       \* ids from here on are rejected, u64::MAX at the callers
    WindowSize   \* how far behind the highest id a packet may come

EmptyWindow == [last |-> 0, accepted |-> {}]

Accepts(window, id) ==
    /\ id < Limit
    /\ id \notin window.accepted
    /\ window.last <= id + WindowSize

Remember(window, id) ==
    [last     |-> IF id > window.last THEN id ELSE window.last,
     accepted |-> window.accepted \union {id}]
=============================================================================
