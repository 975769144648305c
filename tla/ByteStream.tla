----------------------------- MODULE ByteStream -----------------------------
(***************************************************************************)
(* What one direction of a relayed TCP connection promises its user: the   *)
(* bytes 1, 2, 3, ... taken from the sending side come out in that order,  *)
(* none missing and none twice.  A clean end says that everything taken    *)
(* was delivered, unless the connection was cut on the way; an error may   *)
(* end the stream at any time.                                             *)
(***************************************************************************)
EXTENDS Naturals, Sequences

VARIABLES
    accepted,   \* how many bytes the sending side has taken
    received,   \* the bytes handed out at the receiving side
    status,     \* "running", "eof" or "error" at the receiving side
    cut         \* the connection ended before the sender closed it

streamVars == <<accepted, received, status, cut>>

StreamInit ==
    /\ accepted = 0
    /\ received = <<>>
    /\ status = "running"
    /\ cut = FALSE

Accept ==
    /\ accepted' >= accepted
    /\ UNCHANGED <<received, status, cut>>

Receive ==
    /\ status = "running"
    /\ \E n \in 1..(accepted - Len(received)) :
          received' = received \o [i \in 1..n |-> Len(received) + i]
    /\ UNCHANGED <<accepted, status, cut>>

Finish ==
    /\ status = "running"
    /\ cut \/ Len(received) = accepted
    /\ status' = "eof"
    /\ UNCHANGED <<accepted, received, cut>>

Fail ==
    /\ status = "running"
    /\ status' = "error"
    /\ UNCHANGED <<accepted, received, cut>>

Break ==
    /\ cut' = TRUE
    /\ UNCHANGED <<accepted, received, status>>

StreamNext == Accept \/ Receive \/ Finish \/ Fail \/ Break

StreamSpec == StreamInit /\ [][StreamNext]_streamVars
=============================================================================
