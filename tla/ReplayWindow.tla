---------------------------- MODULE ReplayWindow ----------------------------
(***************************************************************************)
(* What a replay filter promises, without the ring of bit blocks: a        *)
(* packet id is accepted once, and only while it is no more than           *)
(* WindowSize behind the highest id accepted.                              *)
(***************************************************************************)
EXTENDS ReplayFilter

CONSTANT Ids     \* the packet ids that may arrive

VARIABLES
    last,        \* the highest packet id accepted
    accepted,    \* the packet ids accepted since the last reset
    answer       \* what the last call returned

Window == [last |-> last, accepted |-> accepted]

Validate(id) ==
    /\ answer' = Accepts(Window, id)
    /\ LET after == IF answer' THEN Remember(Window, id) ELSE Window
       IN  /\ last' = after.last
           /\ accepted' = after.accepted

Reset ==
    /\ last' = 0
    /\ accepted' = {}
    /\ UNCHANGED answer

Init == last = 0 /\ accepted = {} /\ answer = FALSE
Next == Reset \/ \E id \in Ids : Validate(id)
Spec == Init /\ [][Next]_<<last, accepted, answer>>
=============================================================================
