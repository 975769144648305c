----------------------------- MODULE UdpServer ------------------------------
(***************************************************************************)
(* The UDP side of ssserver: receivers that decrypt packets from clients,  *)
(* a map from clients (or AEAD-2022 sessions) to associations, and an      *)
(* association's task, which sends packets on to their targets and the     *)
(* targets' answers back.  The map forgets what was not used for Ttl and,  *)
(* over its capacity, what was not used for longest; with the entry goes   *)
(* the association's task, and with that its replay filter.                *)
(***************************************************************************)
EXTENDS Naturals, Sequences, SequencesExt, FiniteSets, Functions, UdpPacket

CONSTANTS
    Configs,      \* the servers' settings and their clients: see cfg
    Ttl,          \* time_to_live of an association, in ticks
    QueueMax,     \* UDP_ASSOCIATION_SEND_CHANNEL_SIZE
    ChanMax,      \* room in the channel of the extra receivers
    KeepMax,      \* UDP_ASSOCIATION_KEEP_ALIVE_CHANNEL_SIZE
    MaxPid,       \* u64::MAX, the last server packet id
    MaxSent, MaxReceived, MaxAnswers, MaxTime    \* bounds

ASSUME LimitsAssumption ==
    /\ MaxDiff \in Nat /\ Ttl \in Nat /\ QueueMax \in Nat \ {0} /\ ChanMax \in Nat /\ KeepMax \in Nat
    /\ MaxPid \in Nat /\ MaxSent \in Nat

(* No user or peer has a name that stands for the lack of one, and no      *)
(* client asks for an IPv4 address in the shape of an IPv6 one, nor does a *)
(* name resolve to one: it would come back as IPv4.                        *)
ASSUME ConfigsAssumption ==
    \A c \in Configs :
        /\ c.method \in {"none", "stream", "aead", "aes2022", "chacha2022"}
        /\ c.second \in {"user", "stranger", "unnamed"}
        /\ c.capacity \in Nat /\ c.skew \in Nat /\ c.hasV6 \in BOOLEAN
        /\ c.users \cap {"other", "nobody", NoUser} = {} /\ "none" \notin c.peers
        /\ \A send \in c.sends : send.addr # "mapped"

VARIABLES
    cfg,        \* method, users, capacity and hasV6 of the server; second: who owns
                \* session 2; sends: what clients send; peers: where from; skew: how
                \* far their clocks are ahead
    now,
    packets,    \* what clients have sent; any may arrive, repeated by anybody, from any peer
    recv,       \* the packet each receiver awaits the access control check of
    chan,       \* what the extra receivers pass to the main loop
    assoc,      \* assoc_map, with each entry's task
    keepalive,  \* the keep-alive channel, and the static UDP_SOCKET_SUPPORT_DUAL_STACK
    history     \* packets received and where from, dispatched, dispatched again; evictions; answers

serverVars == <<cfg, now, packets, recv, chan, assoc, keepalive, history>>

Window == INSTANCE ReplayFilter WITH Limit <- MaxSent + 1, WindowSize <- MaxSent

Sessions  == {1, 2}
Receivers == {"main", "extra"}
Psk       == "psk"
Idle      == [peer |-> "none", addr |-> "none", control |-> NoControl]

ServerInit ==
    /\ cfg \in Configs
    /\ now = 0
    /\ packets = {}
    /\ recv = [r \in Receivers |-> Idle]
    /\ chan = <<>>
    /\ assoc = <<>>
    /\ keepalive = [queue |-> <<>>, dual |-> TRUE]
    /\ history = [received |-> 0, sources |-> {}, dispatched |-> {}, again |-> {}, evicted |-> {},
              sids |-> 0, answers |-> <<>>]

----------------------------------------------------------------------------
(* Clients.                                                                *)

(* The keys of a session's client: a user of the server's, somebody who    *)
(* knows no key of the server's, or one who does not name himself.         *)
Owner(s) == IF s = 1 THEN "user" ELSE cfg.second

Credential(s) ==
    LET named == cfg.users # {} /\ Owner(s) # "unnamed"
    IN  [ids |-> IF named THEN <<Psk>> ELSE <<>>,
         key |-> IF Owner(s) = "stranger" THEN "other"
                 ELSE IF ~named THEN Psk
                 ELSE IF s = 1 THEN "u1" ELSE "u2"]

Sends(s) ==
    /\ Cardinality(packets) < MaxSent
    /\ \E send \in cfg.sends :
          LET control == [NoControl EXCEPT !.session = s, !.id = Cardinality({p \in packets : p.session = s}) + 1]
          IN  packets' = packets \cup {[session |-> s, id |-> control.id, addr |-> send.addr,
                                packet |-> EncryptClientPayload(cfg.method, Credential(s).key, Credential(s).ids,
                                                                send.addr, send.len, control, now + cfg.skew)]}
    /\ UNCHANGED <<cfg, now, recv, chan, assoc, keepalive, history>>

----------------------------------------------------------------------------
(* Receiving and the association map.                                      *)

(* recv_one_packet up to the check of the target: what does not decrypt    *)
(* and what is empty is dropped.                                           *)
RecvOnePacket(r) ==
    /\ recv[r] = Idle
    /\ history.received < MaxReceived
    /\ \E p \in packets, peer \in cfg.peers :
          LET result == DecryptClientPayload(cfg.method, Psk, cfg.users, p.packet, now)
          IN  /\ ~Failed(result) /\ result.len # 0
              /\ recv' = [recv EXCEPT ![r] = [peer |-> peer, addr |-> result.addr, control |-> result.control]]
              /\ history' = [history EXCEPT !.received = @ + 1, !.sources = @ \cup {<<p.session, peer>>}]
    /\ UNCHANGED <<cfg, now, packets, chan, assoc, keepalive>>

Key(m) == IF Is2022(cfg.method) THEN m.control.session ELSE m.peer

(* lru_time_cache: get, insert and iter first drop what has expired.       *)
Live == Restrict(assoc, {k \in DOMAIN assoc : now - assoc[k].last <= Ttl})

(* Dropping the least recently used entries over the capacity.             *)
Oldest(map) == CHOOSE k \in DOMAIN map : \A l \in DOMAIN map : map[k].last <= map[l].last

(* Mutant: the map grows past its capacity. *)
KeepAll(map) == map

Kept(map) == IF cfg.capacity > 0 /\ Cardinality(DOMAIN map) >= cfg.capacity
             THEN Restrict(map, DOMAIN map \ {Oldest(map)}) ELSE map

(* Mutant: the session of the answers is that of the client. *)
ClientSessionAsServerId(m) == m.control.session

generate_server_session_id(m) == history.sids + 1

(* UdpAssociationContext::create                                           *)
Create(m) == [last |-> now, peer |-> m.peer, queue |-> <<m>>, filter |-> Window!EmptyWindow, user |-> NoUser,
              sid |-> generate_server_session_id(m), pid |-> 0, flag |-> FALSE, sockets |-> {}, flows |-> {}]

TrySend(a, m) == [a EXCEPT !.queue = IF Len(@) < QueueMax THEN Append(@, m) ELSE @, !.last = now]

Inserted(map, k, a) == [l \in DOMAIN map \cup {k} |-> IF l = k THEN a ELSE map[l]]

(* send_packet: to the association of the packet's key, which is new if    *)
(* there is none.                                                          *)
SendPacket(m) ==
    LET k == Key(m)
    IN  IF k \in DOMAIN Live
        THEN assoc' = [Live EXCEPT ![k] = TrySend(@, m)] /\ UNCHANGED history
        ELSE /\ assoc' = Inserted(Kept(Live), k, Create(m))
             /\ history' = [history EXCEPT !.sids = @ + 1, !.evicted = @ \cup (DOMAIN Live \ DOMAIN Kept(Live))]

(* The verdicts of check_outbound_blocked: that on a name goes by what it  *)
(* resolves to at the time, and may be another when it is asked again.     *)
CheckOutboundBlocked(addr) == IF addr = "domain" THEN BOOLEAN ELSE {addr = "blocked"}

(* check_outbound_blocked is back: the main loop dispatches the packet,    *)
(* an extra receiver sends it to the main loop, waiting for room.          *)
MainReceived ==
    /\ recv["main"] # Idle
    /\ \E blocked \in CheckOutboundBlocked(recv["main"].addr) :
          IF blocked THEN UNCHANGED <<assoc, history>> ELSE SendPacket(recv["main"])
    /\ recv' = [recv EXCEPT !["main"] = Idle]
    /\ UNCHANGED <<cfg, now, packets, chan, keepalive>>

ExtraReceived ==
    /\ recv["extra"] # Idle
    /\ \E blocked \in CheckOutboundBlocked(recv["extra"].addr) :
          IF blocked THEN UNCHANGED chan ELSE Len(chan) < ChanMax /\ chan' = Append(chan, recv["extra"])
    /\ recv' = [recv EXCEPT !["extra"] = Idle]
    /\ UNCHANGED <<cfg, now, packets, assoc, keepalive, history>>

(* Any other branch of the main loop's select! drops its recv_one_packet,  *)
(* and with it a packet that awaits its check.                             *)
Cancelled == recv' = [recv EXCEPT !["main"] = Idle]

MulticoreRecv ==
    /\ chan # <<>>
    /\ SendPacket(Head(chan))
    /\ chan' = Tail(chan)
    /\ Cancelled
    /\ UNCHANGED <<cfg, now, packets, keepalive>>

CleanupExpired ==
    /\ DOMAIN Live # DOMAIN assoc
    /\ assoc' = Live
    /\ Cancelled
    /\ UNCHANGED <<cfg, now, packets, chan, keepalive, history>>

KeepAlive ==
    /\ keepalive.queue # <<>>
    /\ LET k == Head(keepalive.queue)
       IN  assoc' = IF k \in DOMAIN Live THEN [Live EXCEPT ![k].last = now] ELSE Live
    /\ keepalive' = [keepalive EXCEPT !.queue = Tail(@)]
    /\ Cancelled
    /\ UNCHANGED <<cfg, now, packets, chan, history>>

----------------------------------------------------------------------------
(* An association's task.                                                  *)

(* send_received_outbound_packet: one IPv6 socket serves both families     *)
(* where the system has IPv6; the first EAFNOSUPPORT ends that for all     *)
(* associations.                                                           *)
DualStack == keepalive.dual /\ cfg.hasV6
SocketFor(addr) == IF ~DualStack /\ addr = "v4" THEN "v4" ELSE "v6"
WireAddr(addr)  == IF DualStack /\ addr = "v4" THEN "mapped" ELSE addr

(* What a target is sent to as: a name as the addresses it resolves to.    *)
Resolved(addr) == IF addr = "domain" THEN {"v4", "v6"} ELSE {addr}

(* The sockets that can be had and what they send to: a flow.              *)
Flows(addrs) == {<<SocketFor(x), WireAddr(x)>> : x \in {y \in addrs : SocketFor(y) = "v4" \/ cfg.hasV6}}

Sockets(flows) == {f[1] : f \in flows}
Using(a, sockets, flows) == [a EXCEPT !.sockets = @ \cup sockets, !.flows = @ \cup flows]

(* dispatch_received_outbound_packet: the addresses, or those of them that *)
(* the lookup returned, are tried in turn until the packet is sent.  A     *)
(* socket that is not there is made, which may fail, and stays when its    *)
(* send_to fails.                                                          *)
Outbound(k, a, addrs) ==
    \E made \in SUBSET Flows(addrs), sent \in {{}} \cup {{f} : f \in Flows(addrs)} :
        assoc' = [assoc EXCEPT ![k] = Using(a, Sockets(made \cup sent), sent)]

(* validate_packet_id of the session's PacketWindowFilter.                 *)
Validated(a, m) == Is2022(cfg.method) => Window!Accepts(a.filter, m.control.id)

(* dispatch_received_packet: a session follows the address the packet came *)
(* from, whoever sent it and before anything about it is known; then the   *)
(* access control list again, the window, the user, and the packet goes    *)
(* out, unless the lookup of its target's name fails.                      *)
DispatchReceived(k) ==
    /\ assoc[k].queue # <<>>
    /\ LET m == Head(assoc[k].queue)
           a == [assoc[k] EXCEPT !.queue = Tail(@), !.peer = IF Is2022(cfg.method) THEN m.peer ELSE @]
           seen == IF Is2022(cfg.method)
                   THEN [a EXCEPT !.filter = Window!Remember(@, m.control.id), !.user = m.control.user] ELSE a
           sent == <<m.control.session, m.control.id>>
       IN  \E blocked \in CheckOutboundBlocked(m.addr) :
              IF blocked \/ ~Validated(a, m)
              THEN assoc' = [assoc EXCEPT ![k] = a] /\ UNCHANGED <<keepalive, history>>
              ELSE /\ \/ /\ Outbound(k, seen, Resolved(m.addr))
                         /\ keepalive' = [keepalive EXCEPT !.dual = DualStack]
                      \/ m.addr = "domain" /\ assoc' = [assoc EXCEPT ![k] = seen] /\ UNCHANGED keepalive
                   /\ history' = [history EXCEPT !.dispatched = @ \cup {sent},
                                         !.again = @ \cup (history.dispatched \cap {sent})]
    /\ UNCHANGED <<cfg, now, packets, recv, chan>>

(* checked_add: 0 stands for None.                                         *)
NextPid(pid) == IF pid = MaxPid THEN 0 ELSE pid + 1

(* Mutant: a mapped address is passed on as it is. *)
AsReceived(addr) == addr

(* to_ipv4_mapped                                                          *)
ToV4(addr) == IF addr = "mapped" THEN "v4" ELSE addr

(* send_received_respond_packet: a target answered.                        *)
Respond(k) ==
    /\ Len(history.answers) < MaxAnswers
    /\ \E flow \in assoc[k].flows :
          LET a   == [assoc[k] EXCEPT !.flag = TRUE]
              pid == NextPid(a.pid)
              control == [session |-> k, server |-> a.sid, id |-> pid, user |-> a.user]
              key == IF a.user = NoUser THEN Psk ELSE a.user
              packet == EncryptServerPayload(cfg.method, key, ToV4(flow[2]), 1, control, now)
              answer == [to |-> a.peer, k |-> k, sid |-> a.sid, pid |-> pid, packet |-> packet]
          IN  IF Is2022(cfg.method) /\ pid = 0
              THEN assoc' = [assoc EXCEPT ![k] = a] /\ UNCHANGED history
              ELSE /\ assoc' = [assoc EXCEPT ![k] = [a EXCEPT !.pid = IF Is2022(cfg.method) THEN pid ELSE @]]
                   /\ \/ UNCHANGED history
                      \/ history' = [history EXCEPT !.answers = Append(@, answer)]
    /\ UNCHANGED <<cfg, now, packets, recv, chan, keepalive>>

(* recv_from failed: the socket goes and is made again when needed.        *)
OutboundFails(k) ==
    /\ \E s \in assoc[k].sockets :
          assoc' = [assoc EXCEPT ![k].sockets = @ \ {s}, ![k].flows = {f \in @ : f[1] # s}]
    /\ UNCHANGED <<cfg, now, packets, recv, chan, keepalive, history>>

(* The keep-alive timer; the flag stays if the channel is full.            *)
KeepAliveTick(k) ==
    /\ assoc[k].flag
    /\ Len(keepalive.queue) < KeepMax
    /\ keepalive' = [keepalive EXCEPT !.queue = Append(@, k)]
    /\ assoc' = [assoc EXCEPT ![k].flag = FALSE]
    /\ UNCHANGED <<cfg, now, packets, recv, chan, history>>

(* A tick stands for the half minute of MaxDiff = 1: a received packet     *)
(* does not take that long to get to its association.                      *)
Tick ==
    /\ now < MaxTime
    /\ chan = <<>> /\ \A r \in Receivers : recv[r] = Idle
    /\ now' = now + 1
    /\ UNCHANGED <<cfg, packets, recv, chan, assoc, keepalive, history>>

ServerNext ==
    \/ \E s \in Sessions : Sends(s)
    \/ \E r \in Receivers : RecvOnePacket(r)
    \/ MainReceived \/ ExtraReceived \/ MulticoreRecv \/ CleanupExpired \/ KeepAlive
    \/ \E k \in DOMAIN assoc : DispatchReceived(k) \/ Respond(k) \/ OutboundFails(k) \/ KeepAliveTick(k)
    \/ Tick

ServerSpec == ServerInit /\ [][ServerNext]_serverVars

----------------------------------------------------------------------------
(* Properties.                                                             *)

ServerTypeOK ==
    /\ Len(chan) <= ChanMax /\ Len(keepalive.queue) <= KeepMax
    /\ keepalive.dual \in BOOLEAN
    /\ cfg.capacity > 0 => Cardinality(DOMAIN assoc) <= cfg.capacity
    /\ \A k \in DOMAIN assoc :
          /\ Len(assoc[k].queue) <= QueueMax
          /\ assoc[k].last <= now
          /\ Sockets(assoc[k].flows) \subseteq assoc[k].sockets

(* No AEAD-2022 packet goes out to its target twice, however often and     *)
(* through whichever receiver it arrives, unless its session was evicted   *)
(* for want of room: what an expired session no longer remembers has a     *)
(* timestamp that is too old.                                              *)
DispatchedOnce ==
    Is2022(cfg.method) => \A sent \in history.again : sent[1] \in history.evicted

(* Only packets of those who hold a key of the server's, and name it the   *)
(* way the server expects, are sent on.                                    *)
OnlyKeyHolders ==
    \A sent \in history.dispatched :
        sent[1] = 2 => \/ cfg.second = "user"
                       \/ cfg.second = "unnamed" /\ (cfg.users = {} \/ ~SupportsEih(cfg.method))

(* An answer goes where a packet of its session arrived from, which is the *)
(* client or whoever last repeated one of its packets: the session follows *)
(* every arrival, even one the window then refuses.  Wherever it goes, the *)
(* client can read it and nobody with another key can, it is for the       *)
(* client's session, and it names an address the client asked for or one   *)
(* the name it asked for resolves to, whichever socket it came through.    *)
OnlyTheClientReads ==
    Is2022(cfg.method) =>
        \A i \in DOMAIN history.answers :
            LET a == history.answers[i]
                Read(s) == DecryptServerPayload(cfg.method, Credential(s).key, a.packet, a.packet.body.ts)
            IN  /\ <<a.k, a.to>> \in history.sources
                /\ ~Failed(Read(a.k))
                /\ Read(a.k).control.session = a.k
                /\ \E p \in packets : p.session = a.k /\ Read(a.k).addr \in Resolved(p.addr)
                /\ \A s \in Sessions : Credential(s).key # Credential(a.k).key => Failed(Read(s))

(* Two answers never share server session and packet id, the nonce they    *)
(* are encrypted with.                                                     *)
NonceUsedOnce ==
    Is2022(cfg.method) =>
        \A i, j \in DOMAIN history.answers :
            i # j => <<history.answers[i].sid, history.answers[i].pid>> # <<history.answers[j].sid, history.answers[j].pid>>

(* What the server sends on is a key holder's packet, once, within the     *)
(* room of its queues and its association map (dispatch_received_packet).  *)
PacketsServedOnce == ServerTypeOK /\ DispatchedOnce /\ OnlyKeyHolders

(* What the server sends back is for those with the client's key alone to  *)
(* read, names what it asked for and has a nonce of its own                *)
(* (send_received_respond_packet).                                         *)
AnswersAreRight == OnlyTheClientReads /\ NonceUsedOnce
=============================================================================
