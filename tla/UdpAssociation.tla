--------------------------- MODULE UdpAssociation ---------------------------
(***************************************************************************)
(* UdpAssociationContext (local/net/udp/association.rs): the task behind   *)
(* one UDP association.  It numbers the packets it sends to the            *)
(* shadowsocks server, reopens its sockets when they fail, and passes the  *)
(* packets of the server through a replay filter per server session.       *)
(*                                                                         *)
(* The task is one loop: while it awaits the access-control list, a        *)
(* connection or a send it receives nothing, but the balancer's servers    *)
(* can be reloaded and the task can be aborted.  Time is discrete.  The    *)
(* keep-alive flag is modelled in UdpAssociationManager.                   *)
(***************************************************************************)
EXTENDS Integers, Sequences

CONSTANTS
    Sessions,        \* the ids generate_client_session_id may draw
    MaxPacketId,     \* u64::MAX, of client_packet_id and of the filter's limit
    MaxPackets,      \* bound: packets the peer sends
    ServerPackets,   \* packets of the server, as [session, id]
    ClockSkews,      \* how old a server packet may seem when it is sent
    WindowSize,      \* WINDOW_SIZE of the replay filter
    MaxDiff,         \* SERVER_PACKET_TIMESTAMP_MAX_DIFF
    ExpireDuration,  \* server_session_expire_duration
    None             \* no entry in a map, no packet sent

ASSUME BoundsAssumption ==
    /\ {MaxPacketId, MaxDiff, ExpireDuration} \subseteq Nat \ {0}
    /\ MaxPackets \in Nat /\ WindowSize \in Nat
    /\ ClockSkews \subseteq Int

ASSUME PacketsAssumption == \A p \in ServerPackets : p.id \in Nat

Filter == INSTANCE ReplayFilter WITH Limit <- MaxPacketId

ServerSessions == {p.session : p \in ServerPackets}

VARIABLES
    at,                  \* where the task is
    receiver,            \* packets of the peer that wait in the channel
    packets,             \* how many packets the peer has sent
    no_servers,          \* does the balancer have no servers?
    proxied_socket,      \* is the socket to the server open?
    bypassed_socket,     \* is the socket for bypassed targets open?
    client_session_id,
    client_packet_id,
    drawn,               \* the session ids that were drawn
    wire,                \* wire[s]: packet ids sent to servers in session s
    server_session_map,  \* server session -> its filter and the entry's age
    stamp,               \* stamp[p]: how old server packet p seems
    delivered            \* delivered[p]: how often p was passed to the peer

sendVars == <<proxied_socket, bypassed_socket, client_session_id, client_packet_id,
              drawn, wire>>
recvVars == <<server_session_map, delivered>>
vars == <<at, receiver, packets, no_servers, sendVars, recvVars, stamp>>

Entries == [last : Nat, accepted : SUBSET {p.id : p \in ServerPackets},
            age : 0 .. ExpireDuration + 1]

ASSUME NoneAssumption == None \notin Entries /\ None \notin Int

TypeOK ==
    /\ at \in {"none", "select", "acl", "bypass", "connect", "send", "panicked"}
    /\ receiver \in 0 .. MaxPackets
    /\ packets \in 0 .. MaxPackets
    /\ no_servers \in BOOLEAN /\ proxied_socket \in BOOLEAN /\ bypassed_socket \in BOOLEAN
    /\ client_session_id \in Sessions \union {None}
    /\ client_packet_id \in 0 .. MaxPacketId
    /\ drawn \subseteq Sessions
    /\ wire \in [Sessions -> Seq(1 .. MaxPacketId)]
    /\ server_session_map \in [ServerSessions -> Entries \union {None}]
    /\ stamp \in [ServerPackets -> Int \union {None}]
    /\ delivered \in [ServerPackets -> Nat]

Init ==
    /\ at = "none"
    /\ receiver = 0
    /\ packets = 0
    /\ no_servers \in BOOLEAN
    /\ proxied_socket = FALSE
    /\ bypassed_socket = FALSE
    /\ client_session_id = None
    /\ client_packet_id = 0
    /\ drawn = {}
    /\ wire = [s \in Sessions |-> <<>>]
    /\ server_session_map = [s \in ServerSessions |-> None]
    /\ stamp = [p \in ServerPackets |-> None]
    /\ delivered = [p \in ServerPackets |-> 0]

-----------------------------------------------------------------------------
(***************************************************************************)
(* Life of the association.  Session ids are drawn at random from 2^64:    *)
(* they are taken to be distinct.                                          *)
(***************************************************************************)

generate_client_session_id(s) ==
    /\ s \notin drawn
    /\ client_session_id' = s
    /\ drawn' = drawn \union {s}

Create ==
    /\ at = "none"
    /\ packets < MaxPackets
    /\ \E s \in Sessions : generate_client_session_id(s)
    /\ client_packet_id' = 0
    /\ receiver' = 1
    /\ packets' = packets + 1
    /\ at' = "select"
    /\ UNCHANGED <<no_servers, proxied_socket, bypassed_socket, wire, recvVars, stamp>>

\* The manager queues another packet of the peer.
TrySend ==
    /\ at \notin {"none", "panicked"}
    /\ packets < MaxPackets
    /\ receiver' = receiver + 1
    /\ packets' = packets + 1
    /\ UNCHANGED <<at, no_servers, sendVars, recvVars, stamp>>

\* The manager drops the association, at whatever await the task is.  Packets
\* on their way to its sockets no longer find anyone.
Abort ==
    /\ at \notin {"none", "panicked"}
    /\ at' = "none"
    /\ receiver' = 0
    /\ proxied_socket' = FALSE
    /\ bypassed_socket' = FALSE
    /\ server_session_map' = [s \in ServerSessions |-> None]
    /\ stamp' = [p \in ServerPackets |-> None]
    /\ delivered' = [p \in ServerPackets |-> 0]
    /\ UNCHANGED <<packets, no_servers, client_session_id, client_packet_id, drawn, wire>>

\* SIGUSR1 reloads the configuration: its list of servers may be empty.
Reload ==
    /\ at # "panicked"
    /\ no_servers' = ~no_servers
    /\ UNCHANGED <<at, receiver, packets, sendVars, recvVars, stamp>>

-----------------------------------------------------------------------------
(***************************************************************************)
(* From the peer to the server: dispatch_received_packet.                  *)
(***************************************************************************)

Receive ==
    /\ at = "select"
    /\ receiver > 0
    /\ receiver' = receiver - 1
    /\ at' = IF no_servers THEN "bypass" ELSE "acl"
    /\ UNCHANGED <<packets, no_servers, sendVars, recvVars, stamp>>

TargetBypassed ==
    /\ at = "acl"
    /\ at' = "bypass"
    /\ UNCHANGED <<receiver, packets, no_servers, sendVars, recvVars, stamp>>

\* dispatch_received_bypassed_packet: resolving, opening the socket or sending
\* may fail; only opening it changes anything.
Bypass ==
    /\ at = "bypass"
    /\ at' = "select"
    /\ bypassed_socket' \in {bypassed_socket, TRUE}
    /\ UNCHANGED <<receiver, packets, no_servers, proxied_socket, client_session_id,
                   client_packet_id, drawn, wire, recvVars, stamp>>

\* Mutant of NextId: the counter is not checked for its overflow.
UncheckedAdd ==
    /\ client_packet_id' = client_packet_id + 1
    /\ UNCHANGED <<client_session_id, drawn, proxied_socket>>

\* The next packet id; an overflow renews the session and takes the socket.
NextId ==
    /\ client_packet_id < MaxPacketId
    /\ client_packet_id' = client_packet_id + 1
    /\ UNCHANGED <<client_session_id, drawn, proxied_socket>>

\* Mutant of RenewSession: the packet id restarts in the same session.
RestartIds ==
    /\ client_packet_id = MaxPacketId
    /\ proxied_socket' = FALSE
    /\ client_packet_id' = 1
    /\ UNCHANGED <<client_session_id, drawn>>

RenewSession ==
    /\ client_packet_id = MaxPacketId
    /\ proxied_socket' = FALSE
    /\ client_packet_id' = 1
    /\ \E s \in Sessions : generate_client_session_id(s)

\* best_udp_server asserts that there is a server; the release build aborts.
\* Up to the next await nothing else runs.
TargetProxied ==
    /\ at = "acl"
    /\ NextId \/ RenewSession
    /\ at' = IF proxied_socket' THEN "send"
             ELSE IF no_servers THEN "panicked" ELSE "connect"
    /\ UNCHANGED <<receiver, packets, no_servers, bypassed_socket, wire, recvVars, stamp>>

Connected ==
    /\ at = "connect"
    /\ proxied_socket' = TRUE
    /\ at' = "send"
    /\ UNCHANGED <<receiver, packets, no_servers, bypassed_socket, client_session_id,
                   client_packet_id, drawn, wire, recvVars, stamp>>

ConnectFails ==
    /\ at = "connect"
    /\ at' = "select"
    /\ UNCHANGED <<receiver, packets, no_servers, sendVars, recvVars, stamp>>

Sent ==
    /\ at = "send"
    /\ wire' = [wire EXCEPT ![client_session_id] = Append(@, client_packet_id)]
    /\ at' = "select"
    /\ UNCHANGED <<receiver, packets, no_servers, proxied_socket, bypassed_socket,
                   client_session_id, client_packet_id, drawn, recvVars, stamp>>

SendFails ==
    /\ at = "send"
    /\ proxied_socket' = FALSE
    /\ at' = "select"
    /\ UNCHANGED <<receiver, packets, no_servers, bypassed_socket, client_session_id,
                   client_packet_id, drawn, wire, recvVars, stamp>>

-----------------------------------------------------------------------------
(***************************************************************************)
(* From the server to the peer.  The network may delay and repeat packets. *)
(***************************************************************************)

ServerSends(p) ==
    /\ at \notin {"none", "panicked"}
    /\ stamp[p] = None
    /\ \E skew \in ClockSkews : stamp' = [stamp EXCEPT ![p] = skew]
    /\ UNCHANGED <<at, receiver, packets, no_servers, sendVars, recvVars>>

\* Mutant of Timely: any timestamp is accepted.
AnyTime(p) == stamp[p] # None

\* decrypt_server_payload_aead_2022 checks the timestamp both ways.
Timely(p) == stamp[p] # None /\ stamp[p] \in -MaxDiff .. MaxDiff

Entry(s) == server_session_map[s]

\* The entry of a server session: an expired or missing one starts empty.
OpenWindow(s) ==
    IF Entry(s) = None \/ Entry(s).age > ExpireDuration THEN Filter!EmptyWindow
    ELSE [last |-> Entry(s).last, accepted |-> Entry(s).accepted]

Store(s, window) ==
    server_session_map' = [server_session_map EXCEPT ![s] =
        [last |-> window.last, accepted |-> window.accepted, age |-> 0]]

Deliver(p) ==
    /\ at = "select" /\ proxied_socket
    /\ Timely(p)
    /\ Filter!Accepts(OpenWindow(p.session), p.id)
    /\ Store(p.session, Filter!Remember(OpenWindow(p.session), p.id))
    /\ delivered' = [delivered EXCEPT ![p] = @ + 1]
    /\ UNCHANGED <<at, receiver, packets, no_servers, sendVars, stamp>>

OutOfWindow(p) ==
    /\ at = "select" /\ proxied_socket
    /\ Timely(p)
    /\ ~Filter!Accepts(OpenWindow(p.session), p.id)
    /\ Store(p.session, OpenWindow(p.session))
    /\ UNCHANGED <<at, receiver, packets, no_servers, sendVars, delivered, stamp>>

\* A packet that cannot be decrypted, a stale one included, or a failing
\* socket: the socket is dropped and reopened by the next packet sent.
ProxiedFails ==
    /\ at = "select" /\ proxied_socket
    /\ proxied_socket' = FALSE
    /\ UNCHANGED <<at, receiver, packets, no_servers, bypassed_socket, client_session_id,
                   client_packet_id, drawn, wire, recvVars, stamp>>

BypassedFails ==
    /\ at = "select" /\ bypassed_socket
    /\ bypassed_socket' = FALSE
    /\ UNCHANGED <<at, receiver, packets, no_servers, proxied_socket, client_session_id,
                   client_packet_id, drawn, wire, recvVars, stamp>>

Aged(s) ==
    IF Entry(s) = None \/ Entry(s).age > ExpireDuration THEN Entry(s)
    ELSE [Entry(s) EXCEPT !.age = @ + 1]

\* A packet that is too old stays too old.
Tick ==
    /\ at # "panicked"
    /\ \E p \in ServerPackets : stamp[p] # None /\ stamp[p] <= MaxDiff
    /\ server_session_map' = [s \in ServerSessions |-> Aged(s)]
    /\ stamp' = [p \in ServerPackets |->
           IF stamp[p] # None /\ stamp[p] <= MaxDiff THEN stamp[p] + 1 ELSE stamp[p]]
    /\ UNCHANGED <<at, receiver, packets, no_servers, sendVars, delivered>>

Upstream ==
    \/ Receive \/ TargetBypassed \/ Bypass \/ TargetProxied
    \/ Connected \/ ConnectFails \/ Sent \/ SendFails

Downstream ==
    \/ \E p \in ServerPackets : ServerSends(p) \/ Deliver(p) \/ OutOfWindow(p)
    \/ ProxiedFails \/ BypassedFails \/ Tick

Next == Create \/ TrySend \/ Abort \/ Reload \/ Upstream \/ Downstream

Spec == Init /\ [][Next]_vars

-----------------------------------------------------------------------------
(***************************************************************************)
(* Properties.                                                             *)
(***************************************************************************)

\* In a session, packet ids go out in strictly increasing order, through
\* failed connections and sends, reopened sockets, aborts and the overflow of
\* client_packet_id: no id, which is part of the cipher's nonce, is used twice.
PacketIdsIncrease ==
    \A s \in Sessions : \A i, j \in DOMAIN wire[s] : i < j => wire[s][i] < wire[s][j]

\* The inductive invariant behind it: only drawn sessions are on the wire, and
\* in the current session no id is ahead of the counter, nor equal to it while
\* the packet that has this id is not sent yet.
SendTypes ==
    /\ client_packet_id \in 0 .. MaxPacketId
    /\ drawn \subseteq Sessions
    /\ wire \in [Sessions -> Seq(Nat)]

SessionIsDrawn == at \notin {"none", "panicked"} => client_session_id \in drawn

OnlyDrawnOnWire == \A s \in Sessions \ drawn : wire[s] = <<>>

WireBehindCounter ==
    client_session_id \in Sessions =>
        \A i \in DOMAIN wire[client_session_id] :
            /\ wire[client_session_id][i] <= client_packet_id
            /\ at \in {"connect", "send"} => wire[client_session_id][i] < client_packet_id

SendOrder ==
    SendTypes /\ SessionIsDrawn /\ OnlyDrawnOnWire /\ WireBehindCounter /\ PacketIdsIncrease

\* The type invariant's own strengthening: the queue holds sent packets only,
\* and a packet about to go out has its session and its id.
PacketInHand ==
    /\ receiver <= packets
    /\ at \notin {"none", "panicked"} => client_session_id \in Sessions
    /\ at \in {"connect", "send"} => client_packet_id > 0

TypeInv == TypeOK /\ PacketInHand

\* The sending side as a whole: what dispatch_received_proxied_packet puts on
\* the wire is behind the counter.
SendInv == TypeInv /\ SendOrder

\* The configured time to live, five minutes unless udp_timeout says otherwise,
\* against 30 seconds by which a timestamp may be off in either direction.
FilterOutlivesPackets == 2 * MaxDiff <= ExpireDuration

\* As long as an association lives, a packet of the server reaches the peer at
\* most once, whatever the network repeats and however the sockets come and go:
\* the filter outlives every timestamp that is still accepted.
DeliveredOnce == \A p \in ServerPackets : delivered[p] <= 1

\* The inductive invariant behind it: a packet that was delivered is too old to
\* come again, or its id is in a filter whose entry is not older than it can be.
DeliveredIsRemembered ==
    \A p \in ServerPackets : delivered[p] # 0 =>
        /\ delivered[p] = 1
        /\ stamp[p] \in Int /\ -MaxDiff <= stamp[p]
        /\ stamp[p] <= MaxDiff =>
              /\ Entry(p.session) # None
              /\ p.id \in Entry(p.session).accepted
              /\ Entry(p.session).age <= stamp[p] + MaxDiff

\* assert!(!self.is_empty(), "no available server") in best_udp_server.
ServerAvailable == at # "panicked"
=============================================================================
