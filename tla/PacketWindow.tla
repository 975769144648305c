---------------------------- MODULE PacketWindow ----------------------------
(***************************************************************************)
(* PacketWindowFilter (shadowsocks-service, net/packet_window.rs): the     *)
(* sliding window that rejects replayed UDP packet ids.  The window is a   *)
(* ring of RING_BLOCKS blocks of BLOCK_BITS bits.  A block is the set of   *)
(* the bits that are set in it.                                            *)
(***************************************************************************)
EXTENDS Naturals

CONSTANTS
    BLOCK_BITS,   \* bits of a block: 64 in the code, a power of two
    RING_BLOCKS,  \* blocks of the ring: 128 in the code, a power of two
    Limit,        \* the limit argument of validate_packet_id
    Ids           \* the packet ids that may arrive

ASSUME BlockBitsAssumption  == BLOCK_BITS \in Nat \ {0}
ASSUME RingBlocksAssumption == RING_BLOCKS \in Nat \ {0}
ASSUME LimitAssumption      == Limit \in Nat
ASSUME IdsAssumption        == Ids \subseteq Nat

VARIABLES
    last_packet_id,
    packet_ring,
    answer,      \* what the last call returned
    accepted     \* history: the ids accepted since the last reset

vars == <<last_packet_id, packet_ring, answer, accepted>>

\* Shifts and masks of powers of two are divisions and remainders.
WholeRing   == RING_BLOCKS * BLOCK_BITS   \* mutant: the block being filled counted in
WINDOW_SIZE == (RING_BLOCKS - 1) * BLOCK_BITS
Slots == 0 .. RING_BLOCKS - 1
Bits  == 0 .. BLOCK_BITS - 1

Block(id)   == id \div BLOCK_BITS
Slot(block) == block % RING_BLOCKS
Bit(id)     == id % BLOCK_BITS

TypeOK ==
    /\ last_packet_id \in Nat
    /\ packet_ring \in [Slots -> SUBSET Bits]
    /\ answer \in BOOLEAN
    /\ accepted \in SUBSET Nat

Init ==
    /\ last_packet_id = 0
    /\ packet_ring = [s \in Slots |-> {}]
    /\ answer = FALSE
    /\ accepted = {}

\* The reset only empties the first block of the ring.
Reset ==
    /\ last_packet_id' = 0
    /\ packet_ring' = [packet_ring EXCEPT ![0] = {}]
    /\ accepted' = {}
    /\ UNCHANGED answer

\* Mutant of Passed: the cap on the number of emptied blocks is one short.
PassedShort(id) ==
    LET current == Block(last_packet_id)
        ahead   == Block(id) - current
        diff    == IF ahead >= RING_BLOCKS THEN RING_BLOCKS - 1 ELSE ahead
    IN  {Slot(current + d) : d \in 1 .. diff}

\* The blocks between the highest one and the new one, at most a whole ring
\* of them: they are emptied when the window moves forward.
Passed(id) ==
    LET current == Block(last_packet_id)
        ahead   == Block(id) - current
        diff    == IF ahead > RING_BLOCKS THEN RING_BLOCKS ELSE ahead
    IN  {Slot(current + d) : d \in 1 .. diff}

Moved(id) ==
    [s \in Slots |-> IF s \in Passed(id) THEN {} ELSE packet_ring[s]]

\* Check and set the bit of id in ring.
CheckAndSet(ring, id) ==
    LET slot == Slot(Block(id))
    IN  /\ answer' = (Bit(id) \notin ring[slot])
        /\ packet_ring' = [ring EXCEPT ![slot] = @ \union {Bit(id)}]
        /\ accepted' = IF answer' THEN accepted \union {id} ELSE accepted

Reject ==
    /\ answer' = FALSE
    /\ UNCHANGED <<last_packet_id, packet_ring, accepted>>

OverLimit(id) == id >= Limit /\ Reject

Behind(id) ==
    /\ id < Limit
    /\ id <= last_packet_id
    /\ last_packet_id - id > WINDOW_SIZE
    /\ Reject

MovesForward(id) ==
    /\ id < Limit
    /\ id > last_packet_id
    /\ last_packet_id' = id
    /\ CheckAndSet(Moved(id), id)

InWindow(id) ==
    /\ id < Limit
    /\ id <= last_packet_id
    /\ last_packet_id - id <= WINDOW_SIZE
    /\ CheckAndSet(packet_ring, id)
    /\ UNCHANGED last_packet_id

validate_packet_id(id) ==
    OverLimit(id) \/ Behind(id) \/ MovesForward(id) \/ InWindow(id)

Next == Reset \/ \E id \in Ids : validate_packet_id(id)

Spec == Init /\ [][Next]_vars

-----------------------------------------------------------------------------
(***************************************************************************)
(* Properties.                                                             *)
(***************************************************************************)

\* Every id that could still be checked against the ring: its block is one of
\* the RING_BLOCKS blocks up to the highest.
InRing(id) ==
    /\ Block(id) <= Block(last_packet_id)
    /\ Block(last_packet_id) < Block(id) + RING_BLOCKS

\* The ring of packet_window.rs never forgets and never invents: as long as
\* the block of an id has not been recycled, its bit is set exactly when the
\* id was accepted.  Recycled blocks, jumps over more than a whole ring and a
\* reset that empties one block only must all preserve it.
RingRemembers ==
    \A id \in Ids : InRing(id) =>
        (Bit(id) \in packet_ring[Slot(Block(id))] <=> id \in accepted)

\* The accepted ids never lie ahead of last_packet_id.
NoneAhead == \A id \in accepted : id <= last_packet_id

Abstract == INSTANCE ReplayWindow WITH
                WindowSize <- WINDOW_SIZE, last <- last_packet_id

\* validate_packet_id answers as the abstract filter does: an id is accepted
\* exactly once, and only while it is at most WINDOW_SIZE behind.
IsReplayWindow == Abstract!Spec

=============================================================================
