------------------------ MODULE UdpAssociationProofs ------------------------
(***************************************************************************)
(* Packet ids are never reused in a session, for any width of the counter, *)
(* any number of packets and any behaviour of the network.                 *)
(***************************************************************************)
EXTENDS UdpAssociation, TLAPS

\* The variables SendOrder is about, but for the task's position.
counted == <<client_session_id, client_packet_id, drawn, wire>>

LEMMA MaxPacketIdIsNat == MaxPacketId \in Nat \ {0}
BY BoundsAssumption

LEMMA InitInv == Init => SendOrder
BY MaxPacketIdIsNat
   DEF Init, SendOrder, SendTypes, SessionIsDrawn, OnlyDrawnOnWire, WireBehindCounter,
       PacketIdsIncrease

\* Steps that neither draw a session nor number nor send a packet, and do not
\* start to send the packet numbered last.
LEMMA Frame ==
    ASSUME SendOrder, UNCHANGED counted,
           at' \in {"connect", "send"} => at \in {"connect", "send"},
           at' \in {"none", "panicked"} \/ at \notin {"none", "panicked"}
    PROVE  SendOrder'
BY DEF counted, SendOrder, SendTypes, SessionIsDrawn, OnlyDrawnOnWire, WireBehindCounter,
       PacketIdsIncrease

\* A new session has nothing on the wire.
LEMMA Draw ==
    ASSUME SendOrder, NEW s \in Sessions, generate_client_session_id(s), UNCHANGED wire,
           client_packet_id' \in 0 .. MaxPacketId
    PROVE  SendOrder'
<1>1. SendTypes' /\ SessionIsDrawn' /\ OnlyDrawnOnWire'
    BY DEF generate_client_session_id, SendOrder, SendTypes, SessionIsDrawn, OnlyDrawnOnWire
<1>2. WireBehindCounter'
    <2>1. wire'[client_session_id'] = <<>>
        BY DEF generate_client_session_id, SendOrder, OnlyDrawnOnWire
    <2> QED
        BY <2>1 DEF WireBehindCounter
<1>3. PacketIdsIncrease'
    BY DEF SendOrder, PacketIdsIncrease
<1> QED
    BY <1>1, <1>2, <1>3 DEF SendOrder

LEMMA NumberInv == SendOrder /\ TargetProxied => SendOrder'
<1> SUFFICES ASSUME SendOrder, TargetProxied PROVE SendOrder'
    OBVIOUS
<1>1. CASE RenewSession
    BY <1>1, Draw, MaxPacketIdIsNat DEF RenewSession, TargetProxied
<1>2. CASE NextId
    <2>1. SendTypes' /\ OnlyDrawnOnWire' /\ PacketIdsIncrease'
        BY <1>2, MaxPacketIdIsNat
           DEF NextId, TargetProxied, SendOrder, SendTypes, OnlyDrawnOnWire, PacketIdsIncrease
    <2>2. SessionIsDrawn'
        BY <1>2 DEF NextId, TargetProxied, SendOrder, SessionIsDrawn
    <2>3. WireBehindCounter'
        BY <1>2, MaxPacketIdIsNat
           DEF NextId, TargetProxied, SendOrder, SendTypes, WireBehindCounter
    <2> QED
        BY <2>1, <2>2, <2>3 DEF SendOrder
<1> QED
    BY <1>1, <1>2 DEF TargetProxied

LEMMA SentInv == SendOrder /\ Sent => SendOrder'
<1> SUFFICES ASSUME SendOrder, Sent PROVE SendOrder'
    OBVIOUS
<1> DEFINE s == client_session_id
<1>1. s \in drawn /\ s \in Sessions /\ wire[s] \in Seq(Nat) /\ client_packet_id \in Nat
    BY MaxPacketIdIsNat DEF SendOrder, SendTypes, SessionIsDrawn, Sent
<1>2. wire' = [wire EXCEPT ![s] = Append(@, client_packet_id)] /\ wire \in [Sessions -> Seq(Nat)]
    BY DEF Sent, SendOrder, SendTypes
<1>3. wire'[s] = Append(wire[s], client_packet_id)
    BY <1>1, <1>2
<1>4. \A i \in DOMAIN wire[s] : wire[s][i] < client_packet_id
    BY <1>1 DEF SendOrder, WireBehindCounter, Sent
<1>5. SendTypes' /\ SessionIsDrawn' /\ OnlyDrawnOnWire'
    BY <1>1, <1>2 DEF Sent, SendOrder, SendTypes, SessionIsDrawn, OnlyDrawnOnWire
<1>6. WireBehindCounter'
    BY <1>1, <1>3, <1>4 DEF Sent, WireBehindCounter
<1>7. PacketIdsIncrease'
    <2> SUFFICES ASSUME NEW t \in Sessions, NEW i \in DOMAIN wire'[t], NEW j \in DOMAIN wire'[t],
                        i < j
                 PROVE  wire'[t][i] < wire'[t][j]
        BY DEF PacketIdsIncrease
    <2>1. CASE t # s
        BY <1>2, <2>1 DEF SendOrder, PacketIdsIncrease
    <2>2. CASE t = s
        <3>1. \A k, l \in DOMAIN wire[s] : k < l => wire[s][k] < wire[s][l]
            BY <1>1 DEF SendOrder, PacketIdsIncrease
        <3>2. /\ DOMAIN wire'[s] = 1 .. Len(wire[s]) + 1 /\ DOMAIN wire[s] = 1 .. Len(wire[s])
              /\ Len(wire[s]) \in Nat
              /\ \A k \in DOMAIN wire[s] : wire'[s][k] = wire[s][k]
              /\ wire'[s][Len(wire[s]) + 1] = client_packet_id
            BY <1>1, <1>3
        <3>3. i \in DOMAIN wire[s]
            BY <2>2, <3>2
        <3>4. CASE j \in DOMAIN wire[s]
            BY <2>2, <3>1, <3>2, <3>3, <3>4
        <3>5. CASE j = Len(wire[s]) + 1
            BY <1>4, <2>2, <3>2, <3>3, <3>5
        <3> QED
            BY <2>2, <3>2, <3>4, <3>5
    <2> QED
        BY <2>1, <2>2
<1> QED
    BY <1>5, <1>6, <1>7 DEF SendOrder

LEMMA NextInv == SendOrder /\ [Next]_vars => SendOrder'
<1> SUFFICES ASSUME SendOrder, [Next]_vars PROVE SendOrder'
    OBVIOUS
<1>1. CASE Create
    BY <1>1, Draw, MaxPacketIdIsNat DEF Create
<1>2. CASE TrySend \/ Abort \/ Reload
    BY <1>2, Frame DEF TrySend, Abort, Reload, counted, sendVars
<1>3. CASE Receive \/ TargetBypassed \/ Bypass
    BY <1>3, Frame DEF Receive, TargetBypassed, Bypass, counted, sendVars
<1>4. CASE TargetProxied
    BY <1>4, NumberInv
<1>5. CASE Connected \/ ConnectFails \/ SendFails
    BY <1>5, Frame DEF Connected, ConnectFails, SendFails, counted, sendVars
<1>6. CASE Sent
    BY <1>6, SentInv
<1>7. CASE Downstream
    BY <1>7, Frame
       DEF Downstream, ServerSends, Deliver, OutOfWindow, ProxiedFails, BypassedFails, Tick,
           counted, sendVars
<1>8. CASE UNCHANGED vars
    BY <1>8, Frame DEF vars, counted, sendVars
<1> QED
    BY <1>1, <1>2, <1>3, <1>4, <1>5, <1>6, <1>7, <1>8 DEF Next, Upstream

-----------------------------------------------------------------------------
(***************************************************************************)
(* Types, and packets of the server that are delivered at most once.       *)
(***************************************************************************)

LEMMA Bounds ==
    /\ MaxPacketId \in Nat \ {0} /\ MaxDiff \in Nat \ {0} /\ ExpireDuration \in Nat \ {0}
    /\ MaxPackets \in Nat /\ WindowSize \in Nat /\ ClockSkews \subseteq Int
BY BoundsAssumption

\* A session's entry, and the record kept for it after a step.
LEMMA EntryType ==
    ASSUME TypeOK, NEW s \in ServerSessions, Entry(s) # None
    PROVE  /\ Entry(s) \in Entries
           /\ Entry(s).last \in Nat /\ Entry(s).age \in 0 .. ExpireDuration + 1
           /\ Entry(s).accepted \subseteq {p.id : p \in ServerPackets}
BY DEF TypeOK, Entry, Entries

LEMMA WindowType ==
    ASSUME TypeOK, NEW s \in ServerSessions
    PROVE  /\ OpenWindow(s).last \in Nat
           /\ OpenWindow(s).accepted \subseteq {p.id : p \in ServerPackets}
BY EntryType DEF OpenWindow, Filter!EmptyWindow

LEMMA StoreType ==
    ASSUME TypeOK, NEW s \in ServerSessions, NEW window,
           window.last \in Nat, window.accepted \subseteq {p.id : p \in ServerPackets},
           Store(s, window)
    PROVE  server_session_map' \in [ServerSessions -> Entries \union {None}]
BY Bounds DEF Store, Entries, TypeOK

LEMMA RememberType ==
    ASSUME TypeOK, NEW p \in ServerPackets
    PROVE  LET w == Filter!Remember(OpenWindow(p.session), p.id)
           IN  w.last \in Nat /\ w.accepted \subseteq {q.id : q \in ServerPackets}
<1>1. p.session \in ServerSessions
    BY DEF ServerSessions
<1> QED
    BY <1>1, WindowType, PacketsAssumption DEF Filter!Remember

LEMMA AgedType ==
    ASSUME TypeOK, NEW s \in ServerSessions
    PROVE  Aged(s) \in Entries \union {None}
<1>1. CASE Entry(s) = None \/ Entry(s).age > ExpireDuration
    BY <1>1 DEF Aged, TypeOK, Entry
<1>2. CASE ~(Entry(s) = None \/ Entry(s).age > ExpireDuration)
    BY <1>2, EntryType, Bounds DEF Aged, Entries
<1> QED
    BY <1>1, <1>2

LEMMA TypeInit == Init => TypeInv
<1> SUFFICES ASSUME Init PROVE TypeInv
    OBVIOUS
<1>1. wire \in [Sessions -> Seq(1 .. MaxPacketId)]
    BY DEF Init
<1>2. server_session_map \in [ServerSessions -> Entries \union {None}]
    BY DEF Init
<1>3. stamp \in [ServerPackets -> Int \union {None}] /\ delivered \in [ServerPackets -> Nat]
    BY DEF Init
<1>4. no_servers \in BOOLEAN /\ proxied_socket \in BOOLEAN /\ bypassed_socket \in BOOLEAN
    BY DEF Init
<1> QED
    BY <1>1, <1>2, <1>3, <1>4, Bounds DEF Init, TypeInv, TypeOK, PacketInHand

\* What only moves the sending side's position keeps the types.
LEMMA TypeUpstream == TypeInv /\ Upstream => TypeInv'
<1> SUFFICES ASSUME TypeInv, Upstream PROVE TypeInv'
    OBVIOUS
<1> USE Bounds DEF TypeInv, TypeOK, PacketInHand, sendVars, recvVars
<1>1. CASE Receive
    BY <1>1 DEF Receive
<1>2. CASE TargetBypassed \/ ConnectFails
    BY <1>2 DEF TargetBypassed, ConnectFails
<1>3. CASE Bypass
    BY <1>3 DEF Bypass
<1>4. CASE TargetProxied
    <2>1. CASE NextId
        BY <1>4, <2>1 DEF TargetProxied, NextId
    <2>2. CASE RenewSession
        <3>1. at' \in {"connect", "panicked"}
            BY <1>4, <2>2 DEF TargetProxied, RenewSession
        <3>2. client_session_id' \in Sessions /\ drawn' \subseteq Sessions /\ client_packet_id' = 1
            BY <2>2 DEF RenewSession, generate_client_session_id
        <3>3. proxied_socket' \in BOOLEAN
            BY <2>2 DEF RenewSession
        <3> QED
            BY <1>4, <3>1, <3>2, <3>3 DEF TargetProxied
    <2> QED
        BY <1>4, <2>1, <2>2 DEF TargetProxied
<1>5. CASE Connected \/ SendFails
    BY <1>5 DEF Connected, SendFails
<1>6. CASE Sent
    <2>1. wire' \in [Sessions -> Seq(1 .. MaxPacketId)]
        BY <1>6 DEF Sent
    <2> QED
        BY <1>6, <2>1 DEF Sent
<1> QED
    BY <1>1, <1>2, <1>3, <1>4, <1>5, <1>6 DEF Upstream

LEMMA TypeDownstream == TypeInv /\ Downstream => TypeInv'
<1> SUFFICES ASSUME TypeInv, Downstream PROVE TypeInv'
    OBVIOUS
<1> USE Bounds DEF TypeInv, PacketInHand, sendVars, recvVars
<1>1. ASSUME NEW p \in ServerPackets, ServerSends(p) PROVE TypeInv'
    <2>1. stamp' \in [ServerPackets -> Int \union {None}]
        BY <1>1 DEF ServerSends, TypeOK
    <2> QED
        BY <1>1, <2>1 DEF ServerSends, TypeOK
<1>2. ASSUME NEW p \in ServerPackets, Deliver(p) \/ OutOfWindow(p) PROVE TypeInv'
    <2>1. p.session \in ServerSessions
        BY DEF ServerSessions
    <2>2. server_session_map' \in [ServerSessions -> Entries \union {None}]
        BY <1>2, <2>1, StoreType, RememberType, WindowType DEF Deliver, OutOfWindow
    <2>3. delivered' \in [ServerPackets -> Nat]
        BY <1>2 DEF Deliver, OutOfWindow, TypeOK
    <2> QED
        BY <1>2, <2>2, <2>3 DEF Deliver, OutOfWindow, TypeOK
<1>3. CASE ProxiedFails \/ BypassedFails
    BY <1>3 DEF ProxiedFails, BypassedFails, TypeOK
<1>4. CASE Tick
    <2>1. server_session_map' \in [ServerSessions -> Entries \union {None}]
        BY <1>4, AgedType DEF Tick
    <2>2. stamp' \in [ServerPackets -> Int \union {None}]
        BY <1>4 DEF Tick, TypeOK
    <2> QED
        BY <1>4, <2>1, <2>2 DEF Tick, TypeOK
<1> QED
    BY <1>1, <1>2, <1>3, <1>4 DEF Downstream

LEMMA TypeNext == TypeInv /\ [Next]_vars => TypeInv'
<1> SUFFICES ASSUME TypeInv, [Next]_vars PROVE TypeInv'
    OBVIOUS
<1>1. CASE Create
    BY <1>1, Bounds
       DEF Create, generate_client_session_id, TypeInv, TypeOK, PacketInHand, recvVars
<1>2. CASE TrySend \/ Reload
    <2>1. no_servers' \in BOOLEAN
        BY <1>2 DEF TrySend, Reload, TypeInv, TypeOK
    <2>2. receiver' \in 0 .. MaxPackets /\ packets' \in 0 .. MaxPackets /\ receiver' <= packets'
        BY <1>2, Bounds DEF TrySend, Reload, TypeInv, TypeOK, PacketInHand
    <2> QED
        BY <1>2, <2>1, <2>2
           DEF TrySend, Reload, TypeInv, TypeOK, PacketInHand, sendVars, recvVars
<1>3. CASE Abort
    <2>1. server_session_map' \in [ServerSessions -> Entries \union {None}]
        BY <1>3 DEF Abort
    <2>2. stamp' \in [ServerPackets -> Int \union {None}] /\ delivered' \in [ServerPackets -> Nat]
        BY <1>3 DEF Abort
    <2>3. /\ at' = "none" /\ receiver' = 0
          /\ proxied_socket' \in BOOLEAN /\ bypassed_socket' \in BOOLEAN
          /\ UNCHANGED <<packets, no_servers, client_session_id, client_packet_id, drawn, wire>>
        BY <1>3 DEF Abort
    <2> QED
        BY <2>1, <2>2, <2>3, Bounds DEF TypeInv, TypeOK, PacketInHand
<1>4. CASE UNCHANGED vars
    BY <1>4 DEF vars, sendVars, recvVars, TypeInv, TypeOK, PacketInHand
<1> QED
    BY <1>1, <1>2, <1>3, <1>4, TypeUpstream, TypeDownstream DEF Next

\* The variables of an association keep their types, for every bound.
THEOREM TypeCorrect == Spec => []TypeOK
<1>1. TypeInv => TypeOK
    BY DEF TypeInv
<1> QED
    BY <1>1, TypeInit, TypeNext, PTL DEF Spec

\* The inductive invariant of the sending side of an association.
THEOREM SendInvariant == Spec => []SendInv
<1>1. Init => SendInv
    BY InitInv, TypeInit DEF SendInv
<1>2. SendInv /\ [Next]_vars => SendInv'
    BY NextInv, TypeNext DEF SendInv
<1> QED
    BY <1>1, <1>2, PTL DEF Spec

\* A UDP association never sends two packets with the same id in a session,
\* and never one with a smaller id than before.
THEOREM IdsIncrease == Spec => []PacketIdsIncrease
<1>1. SendInv => PacketIdsIncrease
    BY DEF SendInv, SendOrder
<1> QED
    BY <1>1, SendInvariant, PTL

\* A packet once delivered and still accepted by its timestamp is in a filter
\* that is open: the entry is younger than twice the tolerance.
LEMMA StillOpen ==
    ASSUME TypeOK, DeliveredIsRemembered, FilterOutlivesPackets,
           NEW p \in ServerPackets, delivered[p] # 0, stamp[p] <= MaxDiff
    PROVE  p.id \in OpenWindow(p.session).accepted
<1>1. p.session \in ServerSessions
    BY DEF ServerSessions
<1>2. /\ stamp[p] \in Int /\ Entry(p.session) # None
      /\ p.id \in Entry(p.session).accepted
      /\ Entry(p.session).age <= stamp[p] + MaxDiff
    BY DEF DeliveredIsRemembered
<1>3. Entry(p.session).age <= ExpireDuration
    BY <1>1, <1>2, EntryType, Bounds DEF FilterOutlivesPackets
<1> QED
    BY <1>1, <1>2, <1>3, EntryType, Bounds DEF OpenWindow

\* Storing a window that forgets nothing keeps what was delivered before.
LEMMA StoreRemembers ==
    ASSUME TypeOK, DeliveredIsRemembered, FilterOutlivesPackets,
           NEW s \in ServerSessions, NEW window, Store(s, window),
           window.last \in Nat, window.accepted \subseteq {p.id : p \in ServerPackets},
           OpenWindow(s).accepted \subseteq window.accepted,
           UNCHANGED stamp, NEW q \in ServerPackets, delivered[q] # 0, stamp[q] <= MaxDiff
    PROVE  /\ Entry(q.session)' # None
           /\ q.id \in Entry(q.session)'.accepted
           /\ Entry(q.session)'.age <= stamp'[q] + MaxDiff
<1> DEFINE entry == [last |-> window.last, accepted |-> window.accepted, age |-> 0]
<1>1. q.session \in ServerSessions
    BY DEF ServerSessions
<1>2. CASE q.session # s
    <2>1. Entry(q.session)' = Entry(q.session)
        BY <1>1, <1>2 DEF Store, Entry, TypeOK
    <2> QED
        BY <2>1 DEF DeliveredIsRemembered
<1>3. CASE q.session = s
    <2>1. Entry(q.session)' = entry
        BY <1>3 DEF Store, Entry, TypeOK
    <2>2. entry \in Entries
        BY Bounds DEF Entries
    <2>3. entry # None
        BY <2>2, NoneAssumption
    <2>4. q.id \in entry.accepted
        BY <1>3, StillOpen
    <2>5. entry.age <= stamp'[q] + MaxDiff
        BY Bounds DEF DeliveredIsRemembered
    <2> QED
        BY <2>1, <2>3, <2>4, <2>5
<1> QED
    BY <1>2, <1>3

LEMMA DeliverRemembers ==
    ASSUME TypeOK, DeliveredIsRemembered, FilterOutlivesPackets,
           NEW p \in ServerPackets, Deliver(p)
    PROVE  DeliveredIsRemembered'
<1> DEFINE window == Filter!Remember(OpenWindow(p.session), p.id)
<1>1. p.session \in ServerSessions
    BY DEF ServerSessions
<1>2. /\ window.last \in Nat /\ window.accepted \subseteq {q.id : q \in ServerPackets}
      /\ OpenWindow(p.session).accepted \subseteq window.accepted /\ p.id \in window.accepted
    BY <1>1, RememberType DEF Filter!Remember
<1>3. stamp[p] \in Int /\ stamp[p] <= MaxDiff /\ -MaxDiff <= stamp[p]
    BY Bounds DEF Deliver, Timely, TypeOK
<1>4. delivered[p] = 0
    BY <1>3, StillOpen DEF Deliver, Filter!Accepts
<1>5. Store(p.session, window) /\ UNCHANGED stamp
    BY DEF Deliver
<1> SUFFICES ASSUME NEW q \in ServerPackets, delivered'[q] # 0
             PROVE  /\ delivered'[q] = 1
                    /\ stamp'[q] \in Int /\ -MaxDiff <= stamp'[q]
                    /\ stamp'[q] <= MaxDiff =>
                          /\ Entry(q.session)' # None
                          /\ q.id \in Entry(q.session)'.accepted
                          /\ Entry(q.session)'.age <= stamp'[q] + MaxDiff
    BY DEF DeliveredIsRemembered
<1>6. CASE q # p
    <2>1. delivered'[q] = delivered[q]
        BY <1>6 DEF Deliver, TypeOK
    <2>2. delivered[q] = 1 /\ stamp[q] \in Int /\ -MaxDiff <= stamp[q]
        BY <2>1 DEF DeliveredIsRemembered
    <2> HIDE DEF window
    <2> QED
        BY <1>1, <1>2, <1>5, <2>1, <2>2, StoreRemembers
<1>7. CASE q = p
    <2> DEFINE entry == [last |-> window.last, accepted |-> window.accepted, age |-> 0]
    <2>1. delivered'[q] = 1
        BY <1>4, <1>7 DEF Deliver, TypeOK
    <2> HIDE DEF window
    <2>2. Entry(q.session)' = entry
        BY <1>1, <1>5, <1>7 DEF Store, Entry, TypeOK
    <2>3. entry \in Entries
        BY <1>2, Bounds DEF Entries
    <2>4. entry # None
        BY <2>3, NoneAssumption
    <2> QED
        BY <1>2, <1>3, <1>5, <1>7, <2>1, <2>2, <2>4, Bounds
<1> QED
    BY <1>6, <1>7

LEMMA RefuseRemembers ==
    ASSUME TypeOK, DeliveredIsRemembered, FilterOutlivesPackets,
           NEW p \in ServerPackets, OutOfWindow(p)
    PROVE  DeliveredIsRemembered'
<1>1. p.session \in ServerSessions
    BY DEF ServerSessions
<1>2. /\ Store(p.session, OpenWindow(p.session)) /\ UNCHANGED <<stamp, delivered>>
    BY DEF OutOfWindow
<1>3. /\ OpenWindow(p.session).last \in Nat
      /\ OpenWindow(p.session).accepted \subseteq {q.id : q \in ServerPackets}
    BY <1>1, WindowType
<1> QED
    BY <1>1, <1>2, <1>3, StoreRemembers DEF DeliveredIsRemembered

\* Time passes alike for a packet and for the entry that remembers it.
LEMMA TickRemembers ==
    ASSUME TypeOK, DeliveredIsRemembered, Tick
    PROVE  DeliveredIsRemembered'
<1> SUFFICES ASSUME NEW q \in ServerPackets, delivered[q] # 0
             PROVE  /\ delivered[q] = 1
                    /\ stamp'[q] \in Int /\ -MaxDiff <= stamp'[q]
                    /\ stamp'[q] <= MaxDiff =>
                          /\ Entry(q.session)' # None
                          /\ q.id \in Entry(q.session)'.accepted
                          /\ Entry(q.session)'.age <= stamp'[q] + MaxDiff
    BY DEF DeliveredIsRemembered, Tick
<1>1. q.session \in ServerSessions
    BY DEF ServerSessions
<1>2. delivered[q] = 1 /\ stamp[q] \in Int /\ -MaxDiff <= stamp[q] /\ stamp[q] # None
    BY NoneAssumption DEF DeliveredIsRemembered
<1>3. stamp'[q] = IF stamp[q] <= MaxDiff THEN stamp[q] + 1 ELSE stamp[q]
    BY <1>2 DEF Tick
<1>4. CASE stamp[q] <= MaxDiff
    <2>1. /\ Entry(q.session) # None
          /\ q.id \in Entry(q.session).accepted
          /\ Entry(q.session).age <= stamp[q] + MaxDiff
        BY <1>4 DEF DeliveredIsRemembered
    <2>2. Entry(q.session)' = Aged(q.session)
        BY <1>1 DEF Tick, Entry
    <2>3. CASE Entry(q.session).age > ExpireDuration
        BY <1>1, <1>2, <1>3, <1>4, <2>1, <2>2, <2>3, EntryType, Bounds DEF Aged
    <2>4. CASE ~(Entry(q.session).age > ExpireDuration)
        <3>1. /\ Aged(q.session).age = Entry(q.session).age + 1
              /\ Aged(q.session).accepted = Entry(q.session).accepted
              /\ Aged(q.session) \in Entries
            BY <1>1, <2>1, <2>4, EntryType, Bounds DEF Aged, Entries
        <3> QED
            BY <1>1, <1>2, <1>3, <1>4, <2>1, <2>2, <3>1, EntryType, Bounds, NoneAssumption
    <2> QED
        BY <2>3, <2>4
<1>5. CASE ~(stamp[q] <= MaxDiff)
    BY <1>2, <1>3, <1>5, Bounds
<1> QED
    BY <1>4, <1>5

LEMMA DeliveredNext ==
    ASSUME TypeInv, DeliveredIsRemembered, FilterOutlivesPackets, [Next]_vars
    PROVE  DeliveredIsRemembered'
<1> USE DEF TypeInv
<1>1. ASSUME NEW p \in ServerPackets, ServerSends(p) PROVE DeliveredIsRemembered'
    <2> SUFFICES ASSUME NEW q \in ServerPackets, delivered[q] # 0 PROVE stamp'[q] = stamp[q]
        BY <1>1 DEF DeliveredIsRemembered, ServerSends, recvVars, Entry
    <2>1. q # p
        BY <1>1, NoneAssumption DEF DeliveredIsRemembered, ServerSends
    <2> QED
        BY <1>1, <2>1 DEF ServerSends, TypeOK
<1>2. ASSUME NEW p \in ServerPackets, Deliver(p) \/ OutOfWindow(p) PROVE DeliveredIsRemembered'
    BY <1>2, DeliverRemembers, RefuseRemembers
<1>3. CASE Tick
    BY <1>3, TickRemembers
<1>4. CASE Abort
    BY <1>4 DEF Abort, DeliveredIsRemembered
<1>5. CASE UNCHANGED <<recvVars, stamp>>
    BY <1>5 DEF recvVars, DeliveredIsRemembered, Entry
<1>6. CASE Create \/ TrySend \/ Reload \/ Upstream
    BY <1>5, <1>6
       DEF Create, TrySend, Reload, Upstream, Receive, TargetBypassed, Bypass, TargetProxied,
           Connected, ConnectFails, Sent, SendFails
<1>7. CASE ProxiedFails \/ BypassedFails \/ UNCHANGED vars
    BY <1>5, <1>7 DEF ProxiedFails, BypassedFails, vars
<1> QED
    BY <1>1, <1>2, <1>3, <1>4, <1>6, <1>7 DEF Next, Downstream

\* While an association lives no packet of the server reaches the peer twice,
\* whatever the network repeats, as long as the replay filter of a session
\* outlives the timestamps it has seen.
THEOREM NothingTwice == FilterOutlivesPackets => (Spec => []DeliveredOnce)
<1> SUFFICES ASSUME FilterOutlivesPackets PROVE Spec => []DeliveredOnce
    OBVIOUS
<1>1. Init => DeliveredIsRemembered
    BY DEF Init, DeliveredIsRemembered
<1>2. TypeInv /\ DeliveredIsRemembered /\ [Next]_vars => DeliveredIsRemembered'
    BY DeliveredNext
<1>3. TypeInv /\ DeliveredIsRemembered => DeliveredOnce
    BY DEF TypeInv, TypeOK, DeliveredIsRemembered, DeliveredOnce
<1> QED
    BY <1>1, <1>2, <1>3, TypeInit, TypeNext, PTL DEF Spec
=============================================================================
