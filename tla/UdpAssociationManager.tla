----------------------- MODULE UdpAssociationManager -----------------------
(***************************************************************************)
(* UdpAssociationManager (local/net/udp/association.rs) and the loop of    *)
(* the UDP servers that drive it: one association, a task of its own, per  *)
(* peer address, kept in a least-recently-used map whose entries expire    *)
(* after the time to live.  Answers from the remote side keep an           *)
(* association alive through a flag, an interval timer of one second and   *)
(* a bounded channel to the manager.                                       *)
(*                                                                         *)
(* Time is discrete, in seconds.  The runtime is faster than the clock:    *)
(* time passes only when every task that could run has run, unless it is   *)
(* awaiting something (a busy association, the manager's error sleep).     *)
(* Interval timers that were missed fire in a burst.                       *)
(***************************************************************************)
EXTENDS Integers, Sequences, SequencesExt

CONSTANTS
    Peers,                \* client addresses
    NoTask,               \* the task of a peer that has none
    Capacity,             \* capacity of the map
    TimeToLive,           \* time to live of an entry, and the cleanup interval
    SendChannelSize,      \* UDP_ASSOCIATION_SEND_CHANNEL_SIZE
    KeepAliveChannelSize, \* UDP_ASSOCIATION_KEEP_ALIVE_CHANNEL_SIZE
    MaxErrors             \* bound: how often recv_from of the listener fails

ASSUME SizesAssumption ==
    /\ Capacity \in Nat \ {0} /\ TimeToLive \in Nat \ {0}
    /\ SendChannelSize \in Nat \ {0} /\ KeepAliveChannelSize \in Nat \ {0}
    /\ MaxErrors \in Nat

VARIABLES
    assoc_map,   \* the keys of the map, least recently used first
    age,         \* age[p]: seconds since the entry of p was last touched
    task,        \* task[p]: the dispatch_packet task of p's association
    keepalive,   \* the keep-alive channel
    cleanup,     \* seconds until cleanup_timer elapses, negative when it is late
    sleeping,    \* is the loop in the sleep after a failed recv_from?
    errors       \* how often recv_from has failed

vars == <<assoc_map, age, task, keepalive, cleanup, sleeping, errors>>

Tracked == Range(assoc_map)
Running == {p \in Peers : task[p] # NoTask}

\* Beyond these bounds, the age of an entry and the history of a task are not
\* told apart.
MaxAge == 2 * TimeToLive + MaxErrors + 1
Capped(n, bound) == IF n < bound THEN n + 1 ELSE n
Later(n) == Capped(n, TimeToLive)

\* An association task is in its select or busy in a handler that awaits
\* (name resolution, connecting, sending).  answered, silent and missed are
\* history since its entry was last touched: was a packet relayed to the peer,
\* after how many seconds, and how many keep-alives could not be sent since.
Task == [at : {"select", "busy"}, received : 0 .. SendChannelSize,
         keepalive_flag : BOOLEAN, due : 0 .. TimeToLive,
         answered : BOOLEAN, silent : 0 .. TimeToLive, missed : 0 .. TimeToLive]

ASSUME NoTaskAssumption == NoTask \notin Task

\* A fresh association, whose interval timer fires at once.
NewTask == [at |-> "select", received |-> 0, keepalive_flag |-> FALSE, due |-> 1,
            answered |-> FALSE, silent |-> 0, missed |-> 0]

\* The history restarts when the entry is touched.
Restarted(t) == [t EXCEPT !.answered = FALSE, !.silent = 0, !.missed = 0]

TypeOK ==
    /\ assoc_map \in Seq(Peers) /\ IsInjective(assoc_map)
    /\ age \in [Peers -> 0 .. MaxAge]
    /\ task \in [Peers -> Task \union {NoTask}]
    /\ keepalive \in Seq(Peers) /\ Len(keepalive) <= KeepAliveChannelSize
    /\ cleanup \in -MaxErrors .. TimeToLive
    /\ sleeping \in BOOLEAN
    /\ errors \in 0 .. MaxErrors

Init ==
    /\ assoc_map = <<>>
    /\ age = [p \in Peers |-> 0]
    /\ task = [p \in Peers |-> NoTask]
    /\ keepalive = <<>>
    /\ cleanup = 0
    /\ sleeping = FALSE
    /\ errors = 0

-----------------------------------------------------------------------------
(***************************************************************************)
(* The map.  Every operation of the LruCache first removes the expired     *)
(* entries; get touches the entry it finds; insert removes the least       *)
(* recently used entries beyond the capacity.                              *)
(***************************************************************************)

Expired(p) == age[p] > TimeToLive

\* remove_expired takes entries from the least recently used one on, up to the
\* first that has not expired.
Live  == {k \in DOMAIN assoc_map : ~Expired(assoc_map[k])}
Fresh == IF Live = {} THEN <<>> ELSE SubSeq(assoc_map, Min(Live), Len(assoc_map))

\* Mutant of Abort: dropping an association leaves its task running.
Detach(dropped) == task

\* Dropping an association aborts its task.
Abort(dropped) == [p \in Peers |-> IF p \in dropped THEN NoTask ELSE task[p]]

\* The map is now entries: what fell out of it is dropped.
Keep(entries) == Abort(Tracked \ Range(entries))

\* Mutant of Touched: an entry that is found stays where it was.
TouchedInPlace(p) == Fresh

\* The result of get for an entry that is there: it becomes the most recent.
Touched(p) ==
    LET i == CHOOSE i \in DOMAIN Fresh : Fresh[i] = p
    IN  Append(RemoveAt(Fresh, i), p)

\* Mutant of Enqueue: a full channel takes the packet all the same.
EnqueueUnbounded(t) == [Restarted(t) EXCEPT !.received = @ + 1]

\* try_send into the association's channel; a full channel drops the packet.
Enqueue(t) ==
    [Restarted(t) EXCEPT !.received = IF @ < SendChannelSize THEN @ + 1 ELSE @]

-----------------------------------------------------------------------------
(***************************************************************************)
(* The loop of the server: the three arms of its select.                   *)
(***************************************************************************)

SendToKnown(p) ==
    /\ ~sleeping
    /\ p \in Range(Fresh)
    /\ assoc_map' = Touched(p)
    /\ age' = [age EXCEPT ![p] = 0]
    /\ task' = [Keep(assoc_map') EXCEPT ![p] = Enqueue(@)]
    /\ UNCHANGED <<keepalive, cleanup, sleeping, errors>>

SendToNew(p) ==
    /\ ~sleeping
    /\ p \notin Range(Fresh)
    /\ LET kept == IF Len(Fresh) < Capacity THEN Fresh
                   ELSE SubSeq(Fresh, Len(Fresh) - Capacity + 2, Len(Fresh))
       IN  /\ assoc_map' = Append(kept, p)
           /\ task' = [Keep(kept) EXCEPT ![p] = Enqueue(NewTask)]
    /\ age' = [age EXCEPT ![p] = 0]
    /\ UNCHANGED <<keepalive, cleanup, sleeping, errors>>

send_to(p) == SendToKnown(p) \/ SendToNew(p)

\* A keep-alive may name an association that is gone, or a later one.
keep_alive ==
    /\ ~sleeping
    /\ keepalive # <<>>
    /\ keepalive' = Tail(keepalive)
    /\ LET p == Head(keepalive)
           found == p \in Range(Fresh)
       IN  /\ assoc_map' = IF found THEN Touched(p) ELSE Fresh
           /\ age' = IF found THEN [age EXCEPT ![p] = 0] ELSE age
           /\ task' = IF found THEN [Keep(assoc_map') EXCEPT ![p] = Restarted(@)]
                      ELSE Keep(assoc_map')
    /\ UNCHANGED <<cleanup, sleeping, errors>>

\* Mutant of cleanup_expired: the lazy iterator is taken not to remove anything.
CleanupNothing ==
    /\ ~sleeping
    /\ cleanup <= 0
    /\ cleanup' = cleanup + TimeToLive
    /\ UNCHANGED <<assoc_map, age, task, keepalive, sleeping, errors>>

cleanup_expired ==
    /\ ~sleeping
    /\ cleanup <= 0
    /\ cleanup' = cleanup + TimeToLive
    /\ assoc_map' = Fresh
    /\ task' = Keep(assoc_map')
    /\ UNCHANGED <<age, keepalive, sleeping, errors>>

\* recv_from of the listener fails: the whole loop sleeps for a second.
RecvFails ==
    /\ ~sleeping
    /\ errors < MaxErrors
    /\ sleeping' = TRUE
    /\ errors' = errors + 1
    /\ UNCHANGED <<assoc_map, age, task, keepalive, cleanup>>

-----------------------------------------------------------------------------
(***************************************************************************)
(* The association tasks, as far as the manager sees them.                 *)
(***************************************************************************)

InSelect(p) == p \in Running /\ task[p].at = "select"

\* A packet is taken from the channel and handled.
Taken(t) == [t EXCEPT !.received = @ - 1, !.at = "busy"]

Dispatch(p) ==
    /\ InSelect(p)
    /\ task[p].received > 0
    /\ task' = [task EXCEPT ![p] = Taken(@)]
    /\ UNCHANGED <<assoc_map, age, keepalive, cleanup, sleeping, errors>>

Dispatched(p) ==
    /\ p \in Running
    /\ task[p].at = "busy"
    /\ task' = [task EXCEPT ![p] = [@ EXCEPT !.at = "select"]]
    /\ UNCHANGED <<assoc_map, age, keepalive, cleanup, sleeping, errors>>

\* send_received_respond_packet.
Respond(p) ==
    /\ InSelect(p)
    /\ task' = [task EXCEPT ![p] = [@ EXCEPT !.keepalive_flag = TRUE, !.answered = TRUE]]
    /\ UNCHANGED <<assoc_map, age, keepalive, cleanup, sleeping, errors>>

\* A tick of the interval timer is taken.
Ticked(t) == [t EXCEPT !.due = @ - 1]

\* A tick that sent nothing: the second is missed with its last tick.
Missed(t) == [Ticked(t) EXCEPT !.missed = IF t.due = 1 THEN Later(@) ELSE @]

\* Mutant of KeepAliveFull: the flag is cleared although nothing was sent.
KeepAliveLost(p) ==
    /\ InSelect(p)
    /\ task[p].due > 0
    /\ task[p].keepalive_flag
    /\ Len(keepalive) = KeepAliveChannelSize
    /\ task' = [task EXCEPT ![p] = [Missed(@) EXCEPT !.keepalive_flag = FALSE]]
    /\ UNCHANGED <<assoc_map, age, keepalive, cleanup, sleeping, errors>>

KeepAliveFull(p) ==
    /\ InSelect(p)
    /\ task[p].due > 0
    /\ task[p].keepalive_flag
    /\ Len(keepalive) = KeepAliveChannelSize
    /\ task' = [task EXCEPT ![p] = Missed(@)]
    /\ UNCHANGED <<assoc_map, age, keepalive, cleanup, sleeping, errors>>

KeepAliveSent(p) ==
    /\ InSelect(p)
    /\ task[p].due > 0
    /\ task[p].keepalive_flag
    /\ Len(keepalive) < KeepAliveChannelSize
    /\ keepalive' = Append(keepalive, p)
    /\ task' = [task EXCEPT ![p] = [Ticked(@) EXCEPT !.keepalive_flag = FALSE]]
    /\ UNCHANGED <<assoc_map, age, cleanup, sleeping, errors>>

KeepAliveIdle(p) ==
    /\ InSelect(p)
    /\ task[p].due > 0
    /\ ~task[p].keepalive_flag
    /\ task' = [task EXCEPT ![p] = Ticked(@)]
    /\ UNCHANGED <<assoc_map, age, keepalive, cleanup, sleeping, errors>>

Association(p) ==
    \/ Dispatch(p) \/ Dispatched(p) \/ Respond(p)
    \/ KeepAliveFull(p) \/ KeepAliveSent(p) \/ KeepAliveIdle(p)

\* A task, a second later: its interval timer is due once more.
Aged(t) ==
    [t EXCEPT !.due = Later(@),
              !.silent = IF t.answered THEN @ ELSE Later(@),
              !.missed = IF t.answered /\ t.at = "busy" THEN Later(@) ELSE @]

\* A second passes once nothing is left to do now.
Tick ==
    /\ sleeping \/ (keepalive = <<>> /\ cleanup > 0)
    /\ \A p \in Peers : InSelect(p) => task[p].due = 0
    /\ age' = [p \in Peers |-> IF p \in Tracked THEN Capped(age[p], MaxAge) ELSE 0]
    /\ task' = [p \in Peers |-> IF task[p] = NoTask THEN NoTask ELSE Aged(task[p])]
    /\ cleanup' = cleanup - 1
    /\ sleeping' = FALSE
    /\ UNCHANGED <<assoc_map, keepalive, errors>>

Manager ==
    \/ \E p \in Peers : send_to(p)
    \/ keep_alive \/ cleanup_expired \/ RecvFails

Next == Manager \/ (\E p \in Peers : Association(p)) \/ Tick

Spec == Init /\ [][Next]_vars

-----------------------------------------------------------------------------
(***************************************************************************)
(* Properties.                                                             *)
(***************************************************************************)

\* No association task is lost: the running tasks are exactly those of the
\* map, whatever removed an entry (expiry, eviction, replacement), and there
\* are never more of them than the capacity.
TasksAreTracked == Running = Tracked /\ Len(assoc_map) <= Capacity

\* An entry expires only if its association was silent for the time to live,
\* less the seconds in which its keep-alive could not get out: association.rs
\* keeps the flag when the channel is full and retries a second later, so a
\* relayed answer is always followed by a touch of the map.
ExpiredWasSilent ==
    \A p \in Tracked : Expired(p) =>
        task[p].silent + task[p].missed + errors >= TimeToLive

\* An expired association, with its sockets, is collected no later than a
\* cleanup interval after it expired.
ExpiredIsCollected == \A p \in Tracked : age[p] <= 2 * TimeToLive + errors

\* The inductive invariant behind them.  The map is in the order of the ages,
\* so that the first entry that has not expired ends what has.
InOrder(ages, entries) ==
    \A i, j \in DOMAIN entries : i <= j => ages[entries[j]] <= ages[entries[i]]
AgesInOrder == InOrder(age, assoc_map)

\* The cleanup timer is late only by the seconds the loop has slept, and an
\* entry is no older than its last cleanup allows.
Slept == errors - (IF sleeping THEN 1 ELSE 0)
CleanupInTime ==
    /\ Slept >= 0 /\ cleanup + Slept >= 0
    /\ \A p \in Tracked : age[p] + cleanup <= 2 * TimeToLive

\* A flag that was cleared after an answer has put the peer into the channel.
KeptAlive == \A p \in Running :
    task[p].answered /\ ~task[p].keepalive_flag => p \in Range(keepalive)

\* Every second of an entry's age is accounted for: silent, missed or slept,
\* but for the one in which the answer came, until the next interval or, once
\* the keep-alive is in the channel, until the manager takes it.
Owed(p) ==
    IF task[p].answered /\ (task[p].due > 0 \/ p \in Range(keepalive)) THEN 1 ELSE 0
SecondsAccounted == \A p \in Tracked :
    \/ task[p].silent = TimeToLive \/ task[p].missed = TimeToLive
    \/ age[p] <= task[p].silent + task[p].missed + Slept + Owed(p)

\* The inductive invariant: what send_to, keep_alive and cleanup_expired keep
\* between the map, its tasks and the seconds that passed.
ManagerInv ==
    TypeOK /\ TasksAreTracked /\ AgesInOrder /\ CleanupInTime /\ KeptAlive /\ SecondsAccounted
=============================================================================
