-------------------------- MODULE UdpServerProofs ---------------------------
(***************************************************************************)
(* Theorems about the UDP side of ssserver, for any settings, clients and  *)
(* sizes: no packet of an AEAD-2022 session goes out twice, and no nonce   *)
(* is used for two answers.  And about the replay window its sessions      *)
(* keep: the ring of packet_window.rs implements the abstract window.      *)
(***************************************************************************)
EXTENDS UdpServer, PacketWindow, Integers, FiniteSetTheorems, SequenceTheorems, WellFoundedInduction, TLAPS

-----------------------------------------------------------------------------
(***************************************************************************)
(* The clients' packets.                                                   *)
(***************************************************************************)

PacketIds(p) == <<p.session, p.id>>
Ts(p)  == p.packet.body.ts

\* The packet is one its client has made, at some time.
IsPacket(p) ==
    /\ p.session \in Sessions /\ p.id \in Nat
    /\ \E send \in cfg.sends, ts \in Nat :
          p = [session |-> p.session, id |-> p.id, addr |-> send.addr,
               packet |-> EncryptClientPayload(cfg.method, Credential(p.session).key, Credential(p.session).ids,
                                               send.addr, send.len,
                                               [NoControl EXCEPT !.session = p.session, !.id = p.id], ts)]

OfSession(s) == {p \in packets : p.session = s}

\* Session and packet id name one packet.
PacketsInv ==
    /\ cfg \in Configs /\ now \in Nat
    /\ IsFiniteSet(packets)
    /\ \A p \in packets : IsPacket(p) /\ p.id <= Cardinality(OfSession(p.session))
    /\ \A p, q \in packets : PacketIds(p) = PacketIds(q) => p = q

LEMMA Limits ==
    /\ MaxDiff \in Nat /\ Ttl \in Nat /\ QueueMax \in Nat \ {0} /\ ChanMax \in Nat /\ KeepMax \in Nat
    /\ MaxPid \in Nat /\ MaxSent \in Nat
BY LimitsAssumption

LEMMA ConfigFacts ==
    ASSUME cfg \in Configs
    PROVE  /\ cfg.method \in {"none", "stream", "aead", "aes2022", "chacha2022"}
           /\ cfg.second \in {"user", "stranger", "unnamed"}
           /\ cfg.capacity \in Nat /\ cfg.skew \in Nat /\ cfg.hasV6 \in BOOLEAN
           /\ "other" \notin cfg.users /\ "nobody" \notin cfg.users /\ NoUser \notin cfg.users
           /\ "none" \notin cfg.peers
           /\ \A send \in cfg.sends : send.addr # "mapped"
BY ConfigsAssumption

\* A client counts its packets: the next id is new.
LEMMA SendsStep ==
    ASSUME PacketsInv, NEW s \in Sessions, Sends(s)
    PROVE  /\ PacketsInv' /\ packets \subseteq packets'
           /\ \A p \in packets' \ packets : \A q \in packets : PacketIds(p) # PacketIds(q)
<1> DEFINE n == Cardinality(OfSession(s))
           c == [NoControl EXCEPT !.session = s, !.id = n + 1]
<1>1. IsFiniteSet(OfSession(s)) /\ n \in Nat
    BY FS_Subset, FS_CardinalityType DEF PacketsInv, OfSession
<1>2. PICK send \in cfg.sends :
        packets' = packets \cup {[session |-> s, id |-> c.id, addr |-> send.addr,
                                  packet |-> EncryptClientPayload(cfg.method, Credential(s).key, Credential(s).ids,
                                                                  send.addr, send.len, c, now + cfg.skew)]}
    BY Zenon DEF Sends, OfSession
<1> DEFINE new == [session |-> s, id |-> c.id, addr |-> send.addr,
                   packet |-> EncryptClientPayload(cfg.method, Credential(s).key, Credential(s).ids,
                                                   send.addr, send.len, c, now + cfg.skew)]
<1>3. c.id = n + 1 /\ now + cfg.skew \in Nat
    BY ConfigFacts DEF NoControl, PacketsInv
<1>4. new.session = s /\ new.id = n + 1
    BY <1>3
<1>5. UNCHANGED <<cfg, now>>
    BY DEF Sends
<1>6. IsPacket(new)
    BY <1>1, <1>3, <1>4 DEF IsPacket
<1> HIDE DEF new
<1>7. packets' = packets \cup {new}
    BY <1>2 DEF new
<1>8. \A q \in packets : PacketIds(new) # PacketIds(q)
    <2> SUFFICES ASSUME NEW q \in packets, PacketIds(new) = PacketIds(q) PROVE FALSE
        OBVIOUS
    <2>1. q.session = s /\ q.id = n + 1
        BY <1>4 DEF PacketIds
    <2>2. q.id <= n
        BY <2>1 DEF PacketsInv
    <2> HIDE DEF n
    <2> QED
        BY <1>1, <2>1, <2>2
<1>9. new \notin packets
    BY <1>8
<1>10. IsFiniteSet(packets')
    BY <1>7, FS_AddElement DEF PacketsInv
<1>11. \A t : OfSession(t)' = IF t = s THEN OfSession(t) \cup {new} ELSE OfSession(t)
    BY <1>4, <1>7 DEF OfSession
<1>12. Cardinality(OfSession(s))' = n + 1
    <2>1. new \notin OfSession(s)
        BY <1>9 DEF OfSession
    <2> QED
        BY <1>1, <1>11, <2>1, FS_AddElement
<1>13. ASSUME NEW p \in packets' PROVE IsPacket(p)' /\ p.id <= Cardinality(OfSession(p.session))'
    <2>1. IsPacket(p) /\ p.id \in Nat
        BY <1>6, <1>7 DEF PacketsInv, IsPacket
    <2>2. IsPacket(p)'
        BY <1>5, <2>1 DEF IsPacket, Credential, Owner
    <2>3. CASE p.session = s
        <3>1. p.id <= n + 1
            <4> HIDE DEF n
            <4>1. p \in packets => p.id <= n
                BY <2>3 DEF PacketsInv, n
            <4> QED
                BY <1>1, <1>4, <1>7, <2>1, <4>1
        <3> QED
            BY <1>12, <2>2, <2>3, <3>1
    <2>4. CASE p.session # s
        <3>1. p \in packets /\ OfSession(p.session)' = OfSession(p.session)
            BY <1>4, <1>7, <1>11, <2>4
        <3> QED
            BY <2>2, <3>1 DEF PacketsInv
    <2> QED
        BY <2>3, <2>4
<1>14. \A p, q \in packets' : PacketIds(p) = PacketIds(q) => p = q
    BY <1>7, <1>8 DEF PacketsInv
<1> QED
    BY <1>5, <1>7, <1>8, <1>10, <1>13, <1>14 DEF PacketsInv

-----------------------------------------------------------------------------
(***************************************************************************)
(* What the server reads.                                                  *)
(***************************************************************************)

Readable(p) == Is2022(cfg.method) => ~Failed(DecryptMessage(cfg.method, Psk, cfg.users, p.packet))
UserOf(p)   == EihUser(cfg.method, cfg.users, p.packet)
KeyOf(user) == IF user = NoUser THEN Psk ELSE user

ControlOf(p) == IF Is2022(cfg.method)
                THEN [session |-> p.session, server |-> 0, id |-> p.id, user |-> UserOf(p)]
                ELSE NoControl
MessageOf(p, peer) == [peer |-> peer, addr |-> p.addr, control |-> ControlOf(p)]

\* A client the server may serve: see OnlyKeyHolders.
MayBeServed(s) ==
    s = 2 => \/ cfg.second = "user"
             \/ cfg.second = "unnamed" /\ (cfg.users = {} \/ ~SupportsEih(cfg.method))

LEMMA FailFacts == \A e : Failed(Fail(e))
BY DEF Failed, Fail

LEMMA GoodFacts == \A a, l, c : ~Failed(Good(a, l, c)) /\ Good(a, l, c).addr = a /\ Good(a, l, c).control = c
BY DEF Failed, Good

\* The fields of an AEAD-2022 packet.
LEMMA PacketFields ==
    ASSUME cfg \in Configs, Is2022(cfg.method), NEW p, IsPacket(p)
    PROVE  \E send \in cfg.sends, ts \in Nat :
             /\ p.addr = send.addr
             /\ p.packet.key = Credential(p.session).key
             /\ p.packet.eih = IdentityHeaders(cfg.method, Credential(p.session).ids, Credential(p.session).key)
             /\ p.packet.body = [session |-> p.session, id |-> p.id, type |-> "client", ts |-> ts,
                                 client |-> p.session, addr |-> send.addr, len |-> send.len]
<1> DEFINE control == [NoControl EXCEPT !.session = p.session, !.id = p.id]
           cred == Credential(p.session)
<1>1. control.session = p.session /\ control.id = p.id
    BY DEF NoControl
<1>2. PICK send \in cfg.sends, ts \in Nat :
        p.addr = send.addr
        /\ p.packet = EncryptClientPayload(cfg.method, cred.key, cred.ids, send.addr, send.len, control, ts)
    BY DEF IsPacket
<1> HIDE DEF control, cred
<1>3. p.packet = EncryptClient2022(cfg.method, cred.key, cred.ids, send.addr, send.len, control, ts)
    BY <1>2, ConfigFacts DEF EncryptClientPayload, Is2022
<1> QED
    BY <1>1, <1>2, <1>3 DEF EncryptClient2022, EncryptMessage, cred

LEMMA TimestampType ==
    ASSUME PacketsInv, Is2022(cfg.method), NEW p \in packets PROVE Ts(p) \in Nat
<1>1. cfg \in Configs /\ IsPacket(p)
    BY DEF PacketsInv
<1>2. PICK send \in cfg.sends, ts \in Nat :
        p.packet.body = [session |-> p.session, id |-> p.id, type |-> "client", ts |-> ts,
                         client |-> p.session, addr |-> send.addr, len |-> send.len]
    BY <1>1, PacketFields, Zenon
<1> QED
    BY <1>2 DEF Ts

\* Who can be read holds a key of the server's, and the one he is known by.
LEMMA ReadableFacts ==
    ASSUME cfg \in Configs, Is2022(cfg.method), NEW p, IsPacket(p), Readable(p)
    PROVE  Credential(p.session).key = KeyOf(UserOf(p)) /\ MayBeServed(p.session)
<1> DEFINE user == UserOf(p)
           cred == Credential(p.session)
<1>1. /\ p.packet.key = cred.key /\ p.session \in Sessions
      /\ p.packet.eih = IdentityHeaders(cfg.method, cred.ids, cred.key)
    BY PacketFields, Zenon DEF IsPacket
<1>2. /\ p.packet.key = IF user = NoUser THEN Psk ELSE user
      /\ user # NoUser => user \in cfg.users
    BY FailFacts DEF Readable, DecryptMessage, UserOf
<1>3. cred.key = KeyOf(user)
    BY <1>1, <1>2 DEF KeyOf
<1>4. ASSUME p.session = 2, cfg.second # "user" PROVE MayBeServed(2)
    <2>1. CASE cfg.second = "stranger"
        <3>1. cred.key = "other"
            BY <1>4, <2>1 DEF Credential, Owner
        <3> QED
            BY <1>2, <1>3, <3>1, ConfigFacts DEF KeyOf, Psk
    <2>2. CASE cfg.second = "unnamed"
        <3>1. cred.ids = <<>>
            BY <1>4, <2>2 DEF Credential, Owner
        <3>2. p.packet.eih = <<>>
            BY <1>1, <3>1 DEF IdentityHeaders
        <3>3. SupportsEih(cfg.method) /\ cfg.users # {} => user = "nobody"
            BY <3>2 DEF UserOf, EihUser
        <3> QED
            BY <1>2, <2>2, <3>3, ConfigFacts DEF MayBeServed, NoUser
    <2> QED
        BY <1>4, <2>1, <2>2, ConfigFacts
<1> QED
    BY <1>3, <1>4 DEF MayBeServed

\* What decrypts is what a client sent, and not long ago.
LEMMA DecryptFacts ==
    ASSUME PacketsInv, NEW p \in packets,
           ~Failed(DecryptClientPayload(cfg.method, Psk, cfg.users, p.packet, now))
    PROVE  LET result == DecryptClientPayload(cfg.method, Psk, cfg.users, p.packet, now) IN
           /\ result.addr = p.addr /\ result.control = ControlOf(p)
           /\ Readable(p)
           /\ Is2022(cfg.method) => AbsDiff(now, Ts(p)) <= MaxDiff
<1>0. cfg \in Configs /\ IsPacket(p)
    BY DEF PacketsInv
<1> DEFINE result == DecryptClientPayload(cfg.method, Psk, cfg.users, p.packet, now)
<1>1. CASE Is2022(cfg.method)
    <2> DEFINE read == DecryptMessage(cfg.method, Psk, cfg.users, p.packet)
               control == [session |-> p.packet.body.session, server |-> 0, id |-> p.packet.body.id,
                           user |-> IF Failed(read) THEN NoUser ELSE read.user]
    <2>1. result = ReadBody(read, p.packet, "client", control, now)
        BY <1>1 DEF DecryptClientPayload, Is2022, DecryptClient2022
    <2>2. ~Failed(read) /\ AbsDiff(now, Ts(p)) <= MaxDiff /\ result = Good(p.packet.body.addr, p.packet.body.len, control)
        <3> HIDE DEF read, control
        <3>1. ~Failed(ReadBody(read, p.packet, "client", control, now))
            BY <2>1
        <3>2. ~(AbsDiff(now, p.packet.body.ts) > MaxDiff) /\ ~Failed(read)
              /\ ReadBody(read, p.packet, "client", control, now) = Good(p.packet.body.addr, p.packet.body.len, control)
            BY <3>1, FailFacts DEF ReadBody
        <3>3. AbsDiff(now, Ts(p)) \in Nat
            BY <1>1, TimestampType DEF PacketsInv, AbsDiff
        <3> QED
            BY <2>1, <3>2, <3>3, Limits DEF Ts
    <2>3. read = [user |-> UserOf(p)]
        BY <2>2, FailFacts DEF DecryptMessage, UserOf
    <2>4. p.packet.body.session = p.session /\ p.packet.body.id = p.id /\ p.packet.body.addr = p.addr
        <3>1. PICK send \in cfg.sends, ts \in Nat :
                /\ p.addr = send.addr
                /\ p.packet.body = [session |-> p.session, id |-> p.id, type |-> "client", ts |-> ts,
                                    client |-> p.session, addr |-> send.addr, len |-> send.len]
            BY <1>0, <1>1, PacketFields, Zenon
        <3> QED
            BY <3>1
    <2>5. control = ControlOf(p)
        BY <1>1, <2>2, <2>3, <2>4 DEF ControlOf
    <2> HIDE DEF read, control, result
    <2> QED
        BY <1>1, <2>2, <2>4, <2>5, GoodFacts DEF Readable, read, result
<1>2. CASE ~Is2022(cfg.method)
    <2>1. PICK send \in cfg.sends : \E key, key2 :
            /\ p.addr = send.addr
            /\ \/ cfg.method = "none" /\ p.packet = EncryptNone(send.addr, send.len) /\ result = DecryptNone(p.packet)
               \/ cfg.method = "stream" /\ p.packet = EncryptStream(key, send.addr, send.len)
                  /\ result = DecryptStream(key2, p.packet)
               \/ cfg.method = "aead" /\ p.packet = EncryptAead(key, send.addr, send.len)
                  /\ result = DecryptAead(key2, p.packet)
        BY <1>0, <1>2, ConfigFacts DEF IsPacket, Is2022, EncryptClientPayload, DecryptClientPayload
    <2>2. p.packet.addr = p.addr
        BY <2>1 DEF EncryptNone, EncryptStream, EncryptAead
    <2>3. result = Good(p.packet.addr, p.packet.len, NoControl)
        <3> HIDE DEF result
        <3>1. ~Failed(result)
            BY DEF result
        <3> QED
            BY <2>1, <3>1, FailFacts DEF DecryptNone, DecryptStream, DecryptAead
    <2> HIDE DEF result
    <2> QED
        BY <1>2, <2>2, <2>3, GoodFacts DEF Readable, ControlOf, result
<1> QED
    BY <1>1, <1>2

-----------------------------------------------------------------------------
(***************************************************************************)
(* What is under way, for a table M of associations and a history h.       *)
(***************************************************************************)

Messages(h) ==
    {m \in {MessageOf(p, peer) : p \in {q \in packets : Readable(q)}, peer \in cfg.peers} :
        Is2022(cfg.method) => <<m.control.session, m.peer>> \in h.sources}

MessageIds(m) == <<m.control.session, m.control.id>>
Keys == IF Is2022(cfg.method) THEN Sessions ELSE cfg.peers

\* An association is the record of its fields.
IsRecord(a) ==
    a = [last |-> a.last, peer |-> a.peer, queue |-> a.queue, filter |-> a.filter, user |-> a.user,
         sid |-> a.sid, pid |-> a.pid, flag |-> a.flag, sockets |-> a.sockets, flows |-> a.flows]

\* The association a of key k: its queue holds messages of its client, and
\* what it knows of its client is enough to answer.
Entry(h, k, a) ==
    /\ k \in Keys /\ IsRecord(a)
    /\ a.last \in Nat /\ a.last <= now
    /\ a.queue \in Seq(Messages(h)) /\ Len(a.queue) <= QueueMax
    /\ {f[1] : f \in a.flows} \subseteq a.sockets
    /\ a.sid \in Nat /\ a.sid <= h.sids /\ a.pid \in Nat
    /\ Is2022(cfg.method) =>
          /\ <<k, a.peer>> \in h.sources
          /\ \A i \in DOMAIN a.queue : a.queue[i].control.session = k
          /\ \A f \in a.flows : /\ Credential(k).key = KeyOf(a.user)
                                /\ \E p \in packets : p.session = k /\ ToV4(f[2]) \in Resolved(p.addr)

Table(M, h) ==
    /\ IsFiniteSet(DOMAIN M)
    /\ cfg.capacity > 0 => Cardinality(DOMAIN M) <= cfg.capacity
    /\ \A k \in DOMAIN M : Entry(h, k, M[k])

\* A server session id belongs to one association, which counts its answers.
Nonces(M, h) ==
    /\ \A k, l \in DOMAIN M : M[k].sid = M[l].sid => k = l
    /\ Is2022(cfg.method) =>
          /\ \A i \in DOMAIN h.answers :
                /\ h.answers[i].sid \in Nat /\ h.answers[i].pid \in Nat /\ h.answers[i].sid <= h.sids
                /\ \A k \in DOMAIN M : M[k].sid = h.answers[i].sid => h.answers[i].pid <= M[k].pid
          /\ \A i, j \in DOMAIN h.answers :
                i # j => <<h.answers[i].sid, h.answers[i].pid>> # <<h.answers[j].sid, h.answers[j].pid>>

Reaches(h, a) ==
    LET Read(s) == DecryptServerPayload(cfg.method, Credential(s).key, a.packet, a.packet.body.ts)
    IN  /\ <<a.k, a.to>> \in h.sources
        /\ ~Failed(Read(a.k))
        /\ Read(a.k).control.session = a.k
        /\ \E p \in packets : p.session = a.k /\ Read(a.k).addr \in Resolved(p.addr)
        /\ \A s \in Sessions : Credential(s).key # Credential(a.k).key => Failed(Read(s))

IsSeq(s) == \E S : s \in Seq(S)

History(h) ==
    /\ h = [received |-> h.received, sources |-> h.sources, dispatched |-> h.dispatched, again |-> h.again,
            evicted |-> h.evicted, sids |-> h.sids, answers |-> h.answers]
    /\ h.sids \in Nat /\ IsSeq(h.answers)
    /\ \A sent \in h.dispatched : MayBeServed(sent[1])
    /\ Is2022(cfg.method) => \A i \in DOMAIN h.answers : Reaches(h, h.answers[i])

MapInv(M, h) == Table(M, h) /\ Nonces(M, h) /\ History(h)

Flight(h) ==
    /\ recv \in [Receivers -> Messages(h) \cup {Idle}]
    /\ chan \in Seq(Messages(h)) /\ Len(chan) <= ChanMax
    /\ keepalive = [queue |-> keepalive.queue, dual |-> keepalive.dual]
    /\ keepalive.queue \in Seq(Keys) /\ Len(keepalive.queue) <= KeepMax
    /\ keepalive.dual \in BOOLEAN

ServerInv == PacketsInv /\ Flight(history) /\ MapInv(assoc, history)

-----------------------------------------------------------------------------
(***************************************************************************)
(* Time passes, packets are sent, clients become known: nothing is lost.   *)
(***************************************************************************)

LEMMA SeqGrows == ASSUME NEW S, NEW T, S \subseteq T PROVE Seq(S) \subseteq Seq(T)
<1> SUFFICES ASSUME NEW s \in Seq(S) PROVE s \in Seq(T)
    OBVIOUS
<1>1. s \in [1 .. Len(s) -> S] /\ Len(s) \in Nat
    OBVIOUS
<1>2. s \in [1 .. Len(s) -> T]
    BY <1>1
<1> QED
    BY <1>1, <1>2

LEMMA SameReading ==
    ASSUME UNCHANGED cfg
    PROVE  /\ \A p : (Readable(p)' <=> Readable(p)) /\ ControlOf(p)' = ControlOf(p)
           /\ \A p, peer : MessageOf(p, peer)' = MessageOf(p, peer)
           /\ \A s : Credential(s)' = Credential(s) /\ (MayBeServed(s)' <=> MayBeServed(s))
           /\ Keys' = Keys
<1>1. \A p : (Readable(p)' <=> Readable(p)) /\ ControlOf(p)' = ControlOf(p)
    BY DEF Readable, ControlOf, UserOf
<1>2. \A p, peer : MessageOf(p, peer)' = MessageOf(p, peer)
    BY <1>1 DEF MessageOf
<1>3. \A s : Credential(s)' = Credential(s) /\ (MayBeServed(s)' <=> MayBeServed(s))
    BY DEF Credential, Owner, MayBeServed
<1> QED
    BY <1>1, <1>2, <1>3 DEF Keys

LEMMA MessagesGrow ==
    ASSUME UNCHANGED cfg, packets \subseteq packets' PROVE \A h : Messages(h) \subseteq Messages(h)'
BY SameReading DEF Messages

LEMMA EntriesGrow ==
    ASSUME UNCHANGED cfg, packets \subseteq packets', now \in Nat, now' \in Nat, now <= now',
           NEW h, NEW k, NEW a, Entry(h, k, a)
    PROVE  Entry(h, k, a)'
<1>1. a.queue \in Seq(Messages(h)')
    BY MessagesGrow, SeqGrows DEF Entry
<1> QED
    BY <1>1, SameReading DEF Entry, IsRecord

LEMMA MapGrows ==
    ASSUME UNCHANGED cfg, packets \subseteq packets', now \in Nat, now' \in Nat, now <= now',
           NEW M, NEW h, MapInv(M, h)
    PROVE  MapInv(M, h)'
<1>1. Table(M, h)'
    BY EntriesGrow DEF MapInv, Table
<1>2. Nonces(M, h)'
    BY DEF MapInv, Nonces
<1>3. ASSUME NEW a, Reaches(h, a) PROVE Reaches(h, a)'
    BY <1>3, SameReading DEF Reaches
<1>4. History(h)'
    BY <1>3, SameReading DEF MapInv, History
<1> QED
    BY <1>1, <1>2, <1>4 DEF MapInv

LEMMA MapKept ==
    ASSUME UNCHANGED <<cfg, packets, now>>, now \in Nat, MapInv(assoc', history')
    PROVE  MapInv(assoc, history)'
<1>1. PICK M, h : M = assoc' /\ h = history'
    OBVIOUS
<1>2. MapInv(M, h)
    BY <1>1
<1>3. MapInv(M, h)'
    BY <1>2, MapGrows
<1> QED
    BY <1>1, <1>3

-----------------------------------------------------------------------------
(***************************************************************************)
(* What is done to the table and to the history.                           *)
(***************************************************************************)

LEMMA SeqAppend ==
    ASSUME NEW s, IsSeq(s), NEW e
    PROVE  /\ IsSeq(Append(s, e)) /\ DOMAIN s \subseteq 1 .. Len(s) /\ Len(s) \in Nat
           /\ DOMAIN Append(s, e) = 1 .. Len(s) + 1 /\ DOMAIN s = 1 .. Len(s)
           /\ \A i \in DOMAIN s : Append(s, e)[i] = s[i]
           /\ Append(s, e)[Len(s) + 1] = e
<1>1. PICK S : s \in Seq(S)
    BY DEF IsSeq
<1>2. s \in Seq(S \cup {e})
    BY <1>1, SeqGrows
<1>3. Append(s, e) \in Seq(S \cup {e})
    BY <1>2
<1> QED
    BY <1>2, <1>3 DEF IsSeq

\* A message is what one packet reads as.
LEMMA MessageFacts ==
    ASSUME PacketsInv, NEW h, NEW m \in Messages(h)
    PROVE  /\ m.peer \in cfg.peers
           /\ m # Idle
           /\ \E p \in packets :
                /\ Readable(p) /\ m = MessageOf(p, m.peer)
                /\ m.addr = p.addr /\ m.control = ControlOf(p)
                /\ Is2022(cfg.method) =>
                      /\ <<m.control.session, m.peer>> \in h.sources
                      /\ m.control.session = p.session /\ m.control.id = p.id
                      /\ m.control.user = UserOf(p)
                      /\ PacketIds(p) = MessageIds(m)
<1>1. PICK p \in packets, peer \in cfg.peers :
        Readable(p) /\ m = MessageOf(p, peer) /\ (Is2022(cfg.method) => <<m.control.session, m.peer>> \in h.sources)
    BY DEF Messages
<1>2. m.peer = peer /\ m.addr = p.addr /\ m.control = ControlOf(p)
    BY <1>1 DEF MessageOf
<1>3. Is2022(cfg.method) => /\ m.control.session = p.session /\ m.control.id = p.id
                            /\ m.control.user = UserOf(p)
    BY <1>2 DEF ControlOf
<1> QED
    BY <1>1, <1>2, <1>3, ConfigFacts DEF PacketIds, MessageIds, Idle, PacketsInv

LEMMA Forget ==
    ASSUME cfg \in Configs, NEW M, NEW h, MapInv(M, h), NEW D \in SUBSET DOMAIN M
    PROVE  MapInv(Restrict(M, D), h)
<1> DEFINE N == Restrict(M, D)
<1>1. DOMAIN N = D /\ \A k \in D : N[k] = M[k] /\ k \in DOMAIN M
    BY DEF Restrict
<1> HIDE DEF N
<1>2. IsFiniteSet(DOMAIN N) /\ (cfg.capacity > 0 => Cardinality(DOMAIN N) <= cfg.capacity)
    <2>1. IsFiniteSet(DOMAIN M) /\ (cfg.capacity > 0 => Cardinality(DOMAIN M) <= cfg.capacity)
        BY DEF MapInv, Table
    <2>2. IsFiniteSet(D) /\ Cardinality(D) <= Cardinality(DOMAIN M)
        BY <2>1, FS_Subset
    <2> QED
        BY <1>1, <2>1, <2>2, FS_CardinalityType, ConfigFacts
<1>3. Table(N, h)
    BY <1>1, <1>2 DEF MapInv, Table
<1>4. Nonces(N, h)
    BY <1>1 DEF MapInv, Nonces
<1> QED
    BY <1>3, <1>4 DEF MapInv, N

LEMMA Update ==
    ASSUME NEW M, NEW h, MapInv(M, h), NEW k \in DOMAIN M, NEW a,
           Entry(h, k, a), a.sid = M[k].sid, M[k].pid <= a.pid
    PROVE  MapInv([M EXCEPT ![k] = a], h)
<1> DEFINE N == [M EXCEPT ![k] = a]
<1>1. DOMAIN N = DOMAIN M /\ \A l \in DOMAIN M : N[l] = IF l = k THEN a ELSE M[l]
    OBVIOUS
<1> HIDE DEF N
<1>2. Table(N, h)
    BY <1>1 DEF MapInv, Table
<1>3. M[k].pid \in Nat /\ a.pid \in Nat
    BY DEF MapInv, Table, Entry
<1>4. \A l \in DOMAIN M : N[l].sid = M[l].sid /\ (N[l].pid = M[l].pid \/ l = k)
    BY <1>1
<1>5. ASSUME Is2022(cfg.method), NEW i \in DOMAIN h.answers, NEW l \in DOMAIN N, N[l].sid = h.answers[i].sid
      PROVE  h.answers[i].pid <= N[l].pid
    <2>1. h.answers[i].pid \in Nat /\ h.answers[i].pid <= M[l].pid
        BY <1>1, <1>4, <1>5 DEF MapInv, Nonces
    <2> QED
        BY <1>1, <1>3, <2>1
<1>6. Nonces(N, h)
    BY <1>1, <1>4, <1>5 DEF MapInv, Nonces
<1> QED
    BY <1>2, <1>6 DEF MapInv, N

\* What is true for a history is true for one that knows more sources.
LEMMA SourcesGrow ==
    ASSUME NEW M, NEW h, NEW g, MapInv(M, h), h.sources \subseteq g.sources,
           g = [h EXCEPT !.received = g.received, !.sources = g.sources]
    PROVE  MapInv(M, g) /\ Messages(h) \subseteq Messages(g)
<1>1. /\ g.dispatched = h.dispatched /\ g.again = h.again /\ g.evicted = h.evicted
      /\ g.sids = h.sids /\ g.answers = h.answers
      /\ g = [received |-> g.received, sources |-> g.sources, dispatched |-> g.dispatched, again |-> g.again,
              evicted |-> g.evicted, sids |-> g.sids, answers |-> g.answers]
    BY DEF MapInv, History
<1>2. Messages(h) \subseteq Messages(g)
    BY DEF Messages
<1>3. ASSUME NEW k, NEW a, Entry(h, k, a) PROVE Entry(g, k, a)
    <2>1. a.queue \in Seq(Messages(g))
        BY <1>2, <1>3, SeqGrows DEF Entry
    <2> QED
        BY <1>1, <1>3, <2>1 DEF Entry
<1>4. Table(M, g)
    BY <1>3 DEF MapInv, Table
<1>5. Nonces(M, g)
    BY <1>1 DEF MapInv, Nonces
<1>6. \A a : Reaches(h, a) => Reaches(g, a)
    BY DEF Reaches
<1>7. History(g)
    BY <1>1, <1>6 DEF MapInv, History
<1> QED
    BY <1>2, <1>4, <1>5, <1>7 DEF MapInv

\* The clock of the least recently used entry is a least one.
LEMMA OldestFacts ==
    ASSUME NEW M, DOMAIN M # {}, \A k \in DOMAIN M : M[k].last \in Nat
    PROVE  Oldest(M) \in DOMAIN M
<1> DEFINE T == {M[k].last : k \in DOMAIN M}
<1>1. T \subseteq Nat /\ T # {}
    OBVIOUS
<1>2. PICK x \in T : \A y \in T : ~(<<y, x>> \in OpToRel(<, Nat))
    BY <1>1, WFMin, NatLessThanWellFounded, Zenon
<1>3. \A y \in T : x <= y
    <2> HIDE DEF T
    <2> SUFFICES ASSUME NEW y \in T PROVE x <= y
        OBVIOUS
    <2>1. x \in Nat /\ y \in Nat
        BY <1>1
    <2>2. ~(y < x)
        BY <1>2, <2>1 DEF OpToRel
    <2> QED
        BY <2>1, <2>2
<1>4. \E k \in DOMAIN M : \A l \in DOMAIN M : M[k].last <= M[l].last
    BY <1>3
<1> QED
    BY <1>4 DEF Oldest

LEMMA KeptFacts ==
    ASSUME cfg \in Configs, NEW M, NEW h, MapInv(M, h)
    PROVE  /\ MapInv(Kept(M), h) /\ DOMAIN Kept(M) \subseteq DOMAIN M
           /\ \A k \in DOMAIN Kept(M) : Kept(M)[k] = M[k]
           /\ cfg.capacity > 0 => Cardinality(DOMAIN Kept(M)) < cfg.capacity
<1>1. cfg.capacity \in Nat /\ IsFiniteSet(DOMAIN M) /\ Cardinality(DOMAIN M) \in Nat
    BY ConfigFacts, FS_CardinalityType DEF MapInv, Table
<1>2. CASE cfg.capacity > 0 /\ Cardinality(DOMAIN M) >= cfg.capacity
    <2> DEFINE D == DOMAIN M \ {Oldest(M)}
    <2>1. DOMAIN M # {}
        BY <1>1, <1>2, FS_EmptySet
    <2>2. Oldest(M) \in DOMAIN M
        BY <2>1, OldestFacts DEF MapInv, Table, Entry
    <2>3. Cardinality(D) = Cardinality(DOMAIN M) - 1
        BY <1>1, <2>2, FS_RemoveElement
    <2>4. Kept(M) = Restrict(M, D)
        BY <1>2 DEF Kept
    <2>5. DOMAIN Kept(M) = D /\ \A k \in D : Kept(M)[k] = M[k]
        BY <2>4 DEF Restrict
    <2>6. Cardinality(D) < cfg.capacity
        BY <1>1, <1>2, <2>3 DEF MapInv, Table
    <2>7. MapInv(Kept(M), h)
        BY <2>4, Forget
    <2> QED
        BY <2>5, <2>6, <2>7
<1>3. CASE ~(cfg.capacity > 0 /\ Cardinality(DOMAIN M) >= cfg.capacity)
    <2>1. Kept(M) = M
        BY <1>3 DEF Kept
    <2> QED
        BY <1>1, <1>3, <2>1
<1> QED
    BY <1>2, <1>3

LEMMA Insert ==
    ASSUME cfg \in Configs, NEW M, NEW h, MapInv(M, h), cfg.capacity > 0 => Cardinality(DOMAIN M) < cfg.capacity,
           NEW k, k \notin DOMAIN M, NEW g, NEW a, Entry(g, k, a), a.sid = h.sids + 1,
           g = [h EXCEPT !.sids = @ + 1, !.evicted = g.evicted]
    PROVE  MapInv(Inserted(M, k, a), g)
<1> DEFINE N == Inserted(M, k, a)
<1>1. DOMAIN N = DOMAIN M \cup {k} /\ N[k] = a /\ \A l \in DOMAIN M : N[l] = M[l]
    BY DEF Inserted
<1>2. /\ g.received = h.received /\ g.sources = h.sources /\ g.dispatched = h.dispatched /\ g.again = h.again
      /\ g.sids = h.sids + 1 /\ h.sids \in Nat /\ g.answers = h.answers
      /\ g = [received |-> g.received, sources |-> g.sources, dispatched |-> g.dispatched, again |-> g.again,
              evicted |-> g.evicted, sids |-> g.sids, answers |-> g.answers]
    BY DEF MapInv, History
<1> HIDE DEF N
<1>3. /\ IsFiniteSet(DOMAIN N)
      /\ cfg.capacity > 0 => Cardinality(DOMAIN N) <= cfg.capacity
    <2>1. IsFiniteSet(DOMAIN M)
        BY DEF MapInv, Table
    <2>2. IsFiniteSet(DOMAIN N) /\ Cardinality(DOMAIN N) = Cardinality(DOMAIN M) + 1 /\ Cardinality(DOMAIN M) \in Nat
        BY <1>1, <2>1, FS_AddElement, FS_CardinalityType
    <2> QED
        BY <2>2, ConfigFacts
<1>4. Messages(g) = Messages(h)
    BY <1>2 DEF Messages
<1>5. ASSUME NEW l \in DOMAIN M PROVE Entry(g, l, N[l]) /\ M[l].sid \in Nat /\ M[l].sid <= h.sids
    <2> DEFINE b == M[l]
    <2>1. Entry(h, l, b) /\ N[l] = b
        BY <1>1 DEF MapInv, Table
    <2> HIDE DEF b
    <2>2. b.sid \in Nat /\ b.sid <= h.sids /\ b.sid <= g.sids
        BY <1>2, <2>1 DEF Entry
    <2>3. Entry(g, l, b)
        BY <1>2, <1>4, <2>1, <2>2 DEF Entry
    <2> QED
        BY <2>1, <2>2, <2>3 DEF b
<1>6. Table(N, g)
    BY <1>1, <1>3, <1>5 DEF Table
<1>7. \A l \in DOMAIN M : M[l].sid # a.sid
    BY <1>2, <1>5
<1>8. \A i \in DOMAIN h.answers : Is2022(cfg.method) =>
        h.answers[i].sid \in Nat /\ h.answers[i].sid <= h.sids /\ h.answers[i].sid # a.sid
    BY <1>2 DEF MapInv, Nonces
<1>9. Nonces(N, g)
    <2>1. \A l, j \in DOMAIN N : N[l].sid = N[j].sid => l = j
        BY <1>1, <1>7 DEF MapInv, Nonces
    <2>2. \A i \in DOMAIN h.answers : Is2022(cfg.method) => h.answers[i].sid <= g.sids
        BY <1>2, <1>8
    <2>3. \A i \in DOMAIN h.answers, l \in DOMAIN N :
            Is2022(cfg.method) /\ N[l].sid = h.answers[i].sid => h.answers[i].pid <= N[l].pid
        BY <1>1, <1>8 DEF MapInv, Nonces
    <2> QED
        BY <1>2, <2>1, <2>2, <2>3 DEF MapInv, Nonces
<1>10. \A x : Reaches(h, x) => Reaches(g, x)
    BY <1>2 DEF Reaches
<1>11. History(g)
    BY <1>2, <1>10 DEF MapInv, History
<1> QED
    BY <1>6, <1>9, <1>11 DEF MapInv, N

LEMMA SentOn ==
    ASSUME NEW M, NEW h, NEW g, MapInv(M, h), \A sent \in g.dispatched : MayBeServed(sent[1]),
           g = [h EXCEPT !.dispatched = g.dispatched, !.again = g.again]
    PROVE  MapInv(M, g) /\ Messages(g) = Messages(h)
<1>1. /\ g.received = h.received /\ g.sources = h.sources /\ g.evicted = h.evicted
      /\ g.sids = h.sids /\ g.answers = h.answers
      /\ g = [received |-> g.received, sources |-> g.sources, dispatched |-> g.dispatched, again |-> g.again,
              evicted |-> g.evicted, sids |-> g.sids, answers |-> g.answers]
    BY DEF MapInv, History
<1>2. Messages(g) = Messages(h)
    BY <1>1 DEF Messages
<1>3. \A k, a : Entry(h, k, a) => Entry(g, k, a)
    BY <1>1, <1>2 DEF Entry
<1>4. Table(M, g)
    BY <1>3 DEF MapInv, Table
<1>5. Nonces(M, g)
    BY <1>1 DEF MapInv, Nonces
<1>6. \A a : Reaches(h, a) => Reaches(g, a)
    BY <1>1 DEF Reaches
<1>7. History(g)
    BY <1>1, <1>6 DEF MapInv, History
<1> QED
    BY <1>2, <1>4, <1>5, <1>7 DEF MapInv

LEMMA Answered ==
    ASSUME NEW M, NEW h, NEW g, MapInv(M, h), NEW k \in DOMAIN M, NEW reply,
           g = [h EXCEPT !.answers = Append(@, reply)],
           Is2022(cfg.method) =>
              /\ Reaches(h, reply) /\ reply.sid = M[k].sid /\ reply.pid = M[k].pid
              /\ \A i \in DOMAIN h.answers : h.answers[i].sid = reply.sid => h.answers[i].pid # reply.pid
    PROVE  MapInv(M, g) /\ Messages(g) = Messages(h)
<1> DEFINE n == Len(h.answers)
<1>1. /\ g.received = h.received /\ g.sources = h.sources /\ g.dispatched = h.dispatched /\ g.again = h.again
      /\ g.evicted = h.evicted /\ g.sids = h.sids /\ g.answers = Append(h.answers, reply)
      /\ g = [received |-> g.received, sources |-> g.sources, dispatched |-> g.dispatched, again |-> g.again,
              evicted |-> g.evicted, sids |-> g.sids, answers |-> g.answers]
    BY DEF MapInv, History
<1>2. /\ IsSeq(g.answers) /\ DOMAIN h.answers = 1 .. n /\ DOMAIN g.answers = 1 .. n + 1 /\ n \in Nat
      /\ \A i \in DOMAIN h.answers : g.answers[i] = h.answers[i]
      /\ g.answers[n + 1] = reply
    <2>1. IsSeq(h.answers)
        BY DEF MapInv, History
    <2> QED
        BY <1>1, <2>1, SeqAppend
<1> HIDE DEF n
<1>3. \A i \in DOMAIN g.answers : \/ i = n + 1 /\ g.answers[i] = reply
                                  \/ i \in DOMAIN h.answers /\ i # n + 1 /\ g.answers[i] = h.answers[i]
    <2> SUFFICES ASSUME NEW i \in 1 .. n + 1 PROVE i = n + 1 \/ (i \in 1 .. n /\ i # n + 1)
        BY <1>2
    <2> QED
        BY <1>2
<1>4. Messages(g) = Messages(h)
    BY <1>1 DEF Messages
<1>5. \A l, a : Entry(h, l, a) => Entry(g, l, a)
    BY <1>1, <1>4 DEF Entry
<1>6. Table(M, g)
    BY <1>5 DEF MapInv, Table
<1>7. M[k].sid \in Nat /\ M[k].sid <= h.sids /\ M[k].pid \in Nat
    BY DEF MapInv, Table, Entry
<1>8. ASSUME Is2022(cfg.method), NEW i \in DOMAIN g.answers
      PROVE  /\ g.answers[i].sid \in Nat /\ g.answers[i].pid \in Nat /\ g.answers[i].sid <= g.sids
             /\ \A l \in DOMAIN M : M[l].sid = g.answers[i].sid => g.answers[i].pid <= M[l].pid
    <2>1. CASE i \in DOMAIN h.answers /\ g.answers[i] = h.answers[i]
        BY <1>1, <1>8, <2>1 DEF MapInv, Nonces
    <2>2. CASE g.answers[i] = reply
        BY <1>1, <1>7, <1>8, <2>2 DEF MapInv, Nonces
    <2> QED
        BY <1>3, <2>1, <2>2
<1>9. ASSUME Is2022(cfg.method), NEW i \in DOMAIN g.answers, NEW j \in DOMAIN g.answers, i # j
      PROVE  <<g.answers[i].sid, g.answers[i].pid>> # <<g.answers[j].sid, g.answers[j].pid>>
    <2>1. CASE i \in DOMAIN h.answers /\ j \in DOMAIN h.answers
        BY <1>2, <1>9, <2>1 DEF MapInv, Nonces
    <2>2. CASE i = n + 1 \/ j = n + 1
        BY <1>3, <1>9, <2>2
    <2> QED
        BY <1>3, <2>1, <2>2
<1>10. Nonces(M, g)
    BY <1>8, <1>9 DEF MapInv, Nonces
<1>11. \A a : Reaches(h, a) => Reaches(g, a)
    BY <1>1 DEF Reaches
<1>12. History(g)
    <2>1. Is2022(cfg.method) => \A i \in DOMAIN g.answers : Reaches(g, g.answers[i])
        BY <1>3, <1>11 DEF MapInv, History
    <2> QED
        BY <1>1, <1>2, <2>1 DEF MapInv, History
<1> QED
    BY <1>4, <1>6, <1>10, <1>12 DEF MapInv

-----------------------------------------------------------------------------
(***************************************************************************)
(* A packet gets to its association.                                       *)
(***************************************************************************)

LEMMA LiveFacts ==
    ASSUME PacketsInv, MapInv(assoc, history)
    PROVE  /\ MapInv(Live, history) /\ DOMAIN Live \subseteq DOMAIN assoc
           /\ DOMAIN Live = {k \in DOMAIN assoc : now - assoc[k].last <= Ttl}
           /\ \A k \in DOMAIN Live : Live[k] = assoc[k]
<1> DEFINE D == {k \in DOMAIN assoc : now - assoc[k].last <= Ttl}
<1>1. D \in SUBSET DOMAIN assoc /\ Live = Restrict(assoc, D)
    BY DEF Live
<1>2. DOMAIN Live = D /\ \A k \in D : Live[k] = assoc[k]
    BY <1>1 DEF Restrict
<1>3. MapInv(Live, history)
    BY <1>1, Forget DEF PacketsInv
<1> QED
    BY <1>2, <1>3

LEMMA KeyFacts ==
    ASSUME PacketsInv, NEW h, NEW m \in Messages(h)
    PROVE  /\ Key(m) \in Keys
           /\ Is2022(cfg.method) => Key(m) = m.control.session /\ <<Key(m), m.peer>> \in h.sources
<1>1. CASE Is2022(cfg.method)
    <2>1. PICK p \in packets : m.control.session = p.session /\ <<m.control.session, m.peer>> \in h.sources
        BY <1>1, MessageFacts
    <2>2. p.session \in Sessions
        BY DEF PacketsInv, IsPacket
    <2> QED
        BY <1>1, <2>1, <2>2 DEF Key, Keys
<1>2. CASE ~Is2022(cfg.method)
    BY <1>2, MessageFacts DEF Key, Keys
<1> QED
    BY <1>1, <1>2

\* try_send: the queue takes the message or stays as it is.
LEMMA TrySendFacts ==
    ASSUME now \in Nat, NEW h, NEW k, NEW a, Entry(h, k, a), NEW m \in Messages(h),
           Is2022(cfg.method) => m.control.session = k
    PROVE  LET b == TrySend(a, m) IN
           /\ Entry(h, k, b)
           /\ b.sid = a.sid /\ b.pid = a.pid /\ b.filter = a.filter /\ b.last = now
           /\ \A i \in DOMAIN b.queue : (i \in DOMAIN a.queue /\ b.queue[i] = a.queue[i]) \/ b.queue[i] = m
<1> DEFINE b == TrySend(a, m)
           q == IF Len(a.queue) < QueueMax THEN Append(a.queue, m) ELSE a.queue
<1>1. a.queue \in Seq(Messages(h)) /\ Len(a.queue) <= QueueMax
    BY DEF Entry
<1>2. /\ q \in Seq(Messages(h)) /\ Len(q) <= QueueMax
      /\ \A i \in DOMAIN q : (i \in DOMAIN a.queue /\ q[i] = a.queue[i]) \/ q[i] = m
    BY <1>1, Limits
<1> HIDE DEF q
<1>3. b = [last |-> now, peer |-> a.peer, queue |-> q, filter |-> a.filter, user |-> a.user,
           sid |-> a.sid, pid |-> a.pid, flag |-> a.flag, sockets |-> a.sockets, flows |-> a.flows]
    <2>1. IsRecord(a)
        BY DEF Entry
    <2>2. b = [a EXCEPT !.queue = q, !.last = now]
        BY DEF TrySend, q
    <2> QED
        BY <2>1, <2>2 DEF IsRecord
<1> HIDE DEF b
<1>4. /\ b.queue = q /\ b.last = now /\ b.peer = a.peer /\ b.filter = a.filter /\ b.user = a.user
      /\ b.sid = a.sid /\ b.pid = a.pid /\ b.flag = a.flag /\ b.sockets = a.sockets /\ b.flows = a.flows
    BY <1>3
<1>5. Is2022(cfg.method) => \A i \in DOMAIN q : q[i].control.session = k
    BY <1>2 DEF Entry
<1>6. Entry(h, k, b)
    BY <1>2, <1>3, <1>4, <1>5 DEF Entry, IsRecord
<1> QED
    BY <1>2, <1>4, <1>6 DEF b

LEMMA CreateFacts ==
    ASSUME PacketsInv, History(history), NEW m \in Messages(history), NEW g,
           g.sources = history.sources, g.sids = history.sids + 1
    PROVE  /\ Entry(g, Key(m), Create(m))
           /\ Create(m).sid = history.sids + 1 /\ Create(m).queue = <<m>> /\ Create(m).last = now
           /\ Create(m).filter = Window!EmptyWindow
<1> DEFINE b == Create(m)
<1>1. b = [last |-> now, peer |-> m.peer, queue |-> <<m>>, filter |-> Window!EmptyWindow, user |-> NoUser,
           sid |-> history.sids + 1, pid |-> 0, flag |-> FALSE, sockets |-> {}, flows |-> {}]
    BY DEF Create, generate_server_session_id
<1>2. Messages(g) = Messages(history)
    BY DEF Messages
<1> HIDE DEF b
<1>3. /\ b.queue = <<m>> /\ b.last = now /\ b.peer = m.peer /\ b.filter = Window!EmptyWindow /\ b.user = NoUser
      /\ b.sid = history.sids + 1 /\ b.pid = 0 /\ b.flag = FALSE /\ b.sockets = {} /\ b.flows = {}
    BY <1>1
<1>4. history.sids \in Nat /\ now \in Nat
    BY DEF History, PacketsInv
<1>5. b.queue \in Seq(Messages(g)) /\ Len(b.queue) <= QueueMax
      /\ \A i \in DOMAIN b.queue : b.queue[i] = m
    BY <1>2, <1>3, Limits
<1>6. /\ Key(m) \in Keys
      /\ Is2022(cfg.method) => Key(m) = m.control.session /\ <<Key(m), m.peer>> \in history.sources
    BY KeyFacts
<1>7. Entry(g, Key(m), b)
    BY <1>1, <1>3, <1>4, <1>5, <1>6 DEF Entry, IsRecord
<1> QED
    BY <1>3, <1>7 DEF b

\* send_packet keeps the map in order.
LEMMA SendPacketMap ==
    ASSUME PacketsInv, MapInv(assoc, history), NEW m \in Messages(history), SendPacket(m)
    PROVE  MapInv(assoc', history') /\ Messages(history') = Messages(history)
<1> DEFINE k == Key(m)
<1>1. MapInv(Live, history) /\ cfg \in Configs /\ now \in Nat
    BY LiveFacts DEF PacketsInv
<1>2. CASE k \in DOMAIN Live
    <2>1. assoc' = [Live EXCEPT ![k] = TrySend(Live[k], m)] /\ history' = history
        BY <1>2 DEF SendPacket
    <2>2. Entry(history, k, Live[k])
        BY <1>1, <1>2 DEF MapInv, Table
    <2> DEFINE a == Live[k]
    <2> HIDE DEF a
    <2>3. Entry(history, k, TrySend(a, m)) /\ TrySend(a, m).sid = a.sid /\ TrySend(a, m).pid = a.pid
        <3>1. Is2022(cfg.method) => m.control.session = k
            BY KeyFacts
        <3> HIDE DEF k
        <3> QED
            BY <1>1, <2>2, <3>1, TrySendFacts DEF a
    <2>4. a.pid \in Nat
        BY <2>2 DEF Entry, a
    <2>5. MapInv([Live EXCEPT ![k] = TrySend(a, m)], history)
        BY <1>1, <1>2, <2>3, <2>4, Update DEF a
    <2> QED
        BY <2>1, <2>5 DEF a
<1>3. CASE k \notin DOMAIN Live
    <2> DEFINE M == Kept(Live)
               g == [history EXCEPT !.sids = @ + 1, !.evicted = @ \cup (DOMAIN Live \ DOMAIN M)]
    <2>1. assoc' = Inserted(M, k, Create(m)) /\ history' = g
        BY <1>3 DEF SendPacket
    <2>2. /\ MapInv(M, history) /\ k \notin DOMAIN M
          /\ cfg.capacity > 0 => Cardinality(DOMAIN M) < cfg.capacity
        BY <1>1, <1>3, KeptFacts
    <2>3. /\ g.sources = history.sources /\ g.sids = history.sids + 1
          /\ g = [history EXCEPT !.sids = @ + 1, !.evicted = g.evicted]
        BY DEF MapInv, History
    <2> HIDE DEF g, M
    <2>4. Entry(g, k, Create(m)) /\ Create(m).sid = history.sids + 1
        BY <2>3, CreateFacts DEF MapInv
    <2>5. MapInv(Inserted(M, k, Create(m)), g)
        BY <1>1, <2>2, <2>3, <2>4, Insert
    <2>6. Messages(g) = Messages(history)
        BY <2>3 DEF Messages
    <2> QED
        BY <2>1, <2>5, <2>6
<1> QED
    BY <1>2, <1>3

-----------------------------------------------------------------------------
(***************************************************************************)
(* An association's task.                                                  *)
(***************************************************************************)

\* A target's address, or one its name resolves to, comes back as it was.
LEMMA ThereAndBack == ASSUME NEW addr, addr # "mapped" PROVE ToV4(WireAddr(addr)) = addr
BY DEF ToV4, WireAddr

LEMMA NoneMapped == ASSUME NEW addr, addr # "mapped" PROVE "mapped" \notin Resolved(addr)
BY DEF Resolved

\* The association knows its client's key, and the client asked for the target.
Answerable(k, a, addr) ==
    Is2022(cfg.method) => /\ Credential(k).key = KeyOf(a.user)
                          /\ \E p \in packets : p.session = k /\ p.addr = addr

\* Sending to an address leaves association a with sockets more and flows more,
\* each through such a socket and to what the address resolves to, or as it was.
SentOff(a, addr, b) ==
    \/ b = a
    \/ \E made, flows : /\ b = Using(a, made, flows)
                        /\ \A f \in flows : f[1] \in made /\ \E x \in Resolved(addr) : f[2] = WireAddr(x)

LEMMA OutboundParts ==
    ASSUME NEW k, NEW a, NEW addr, Outbound(k, a, Resolved(addr))
    PROVE  \E b : SentOff(a, addr, b) /\ assoc' = [assoc EXCEPT ![k] = b]
<1>1. PICK more \in SUBSET Flows(Resolved(addr)), sent \in {{}} \cup {{f} : f \in Flows(Resolved(addr))} :
          assoc' = [assoc EXCEPT ![k] = Using(a, Sockets(more \cup sent), sent)]
    BY Zenon DEF Outbound
<1> DEFINE made == Sockets(more \cup sent)
           b == Using(a, made, sent)
<1>2. \A f \in sent : f[1] \in made /\ f \in Flows(Resolved(addr))
    BY <1>1 DEF Sockets
<1>3. \A f \in sent : \E x \in Resolved(addr) : f[2] = WireAddr(x)
    BY <1>2 DEF Flows
<1>4. assoc' = [assoc EXCEPT ![k] = b]
    BY <1>1
<1> HIDE DEF made
<1>5. SentOff(a, addr, b)
    BY <1>2, <1>3, Zenon DEF SentOff
<1> HIDE DEF b
<1> QED
    BY <1>4, <1>5

LEMMA OutboundFacts ==
    ASSUME NEW h, NEW k, NEW a, Entry(h, k, a), NEW addr, addr # "mapped", NEW b, SentOff(a, addr, b),
           Answerable(k, a, addr)
    PROVE  /\ Entry(h, k, b) /\ b.sid = a.sid /\ b.pid = a.pid
           /\ b.filter = a.filter /\ b.queue = a.queue /\ b.last = a.last
<1>1. IsRecord(a)
    BY DEF Entry
<1>2. CASE b = a
    BY <1>2
<1>3. CASE b # a
    <2>1. PICK made, flows :
              /\ b = Using(a, made, flows)
              /\ \A f \in flows : f[1] \in made /\ \E x \in Resolved(addr) : f[2] = WireAddr(x)
        BY <1>3 DEF SentOff
    <2>2. \A f \in flows : f[1] \in made /\ ToV4(f[2]) \in Resolved(addr)
        BY <2>1, ThereAndBack, NoneMapped
    <2>3. b = [last |-> a.last, peer |-> a.peer, queue |-> a.queue, filter |-> a.filter, user |-> a.user,
               sid |-> a.sid, pid |-> a.pid, flag |-> a.flag, sockets |-> a.sockets \cup made,
               flows |-> a.flows \cup flows]
        BY <1>1, <2>1 DEF IsRecord, Using
    <2>4. /\ b.queue = a.queue /\ b.last = a.last /\ b.peer = a.peer /\ b.filter = a.filter /\ b.user = a.user
          /\ b.sid = a.sid /\ b.pid = a.pid /\ b.flag = a.flag
          /\ b.sockets = a.sockets \cup made /\ b.flows = a.flows \cup flows /\ IsRecord(b)
        BY <2>3 DEF IsRecord
    <2>5. {e[1] : e \in b.flows} \subseteq b.sockets
        BY <2>2, <2>4 DEF Entry
    <2>6. Is2022(cfg.method) =>
              \A e \in b.flows : /\ Credential(k).key = KeyOf(b.user)
                                  /\ \E p \in packets : p.session = k /\ ToV4(e[2]) \in Resolved(p.addr)
        BY <2>2, <2>4 DEF Entry, Answerable
    <2>7. Entry(h, k, b)
        BY <2>4, <2>5, <2>6 DEF Entry
    <2> QED
        BY <2>4, <2>7
<1> QED
    BY <1>2, <1>3

\* dispatch_received_packet, in its parts.
Taken(e) == [e EXCEPT !.queue = Tail(@), !.peer = IF Is2022(cfg.method) THEN Head(e.queue).peer ELSE @]
Seen(e) == IF Is2022(cfg.method)
           THEN [Taken(e) EXCEPT !.filter = Window!Remember(@, Head(e.queue).control.id),
                                 !.user = Head(e.queue).control.user]
           ELSE Taken(e)

LEMMA TakenFacts ==
    ASSUME PacketsInv, NEW h, NEW k, NEW e, Entry(h, k, e), e.queue # <<>>
    PROVE  /\ MayBeServed(Head(e.queue).control.session)
           /\ Head(e.queue).addr # "mapped"
           /\ Entry(h, k, Taken(e)) /\ Taken(e).sid = e.sid /\ Taken(e).pid = e.pid
           /\ Entry(h, k, Seen(e)) /\ Seen(e).sid = e.sid /\ Seen(e).pid = e.pid
           /\ Answerable(k, Seen(e), Head(e.queue).addr)
<1> DEFINE m == Head(e.queue)
           peer == IF Is2022(cfg.method) THEN m.peer ELSE e.peer
           q == Tail(e.queue)
           a == Taken(e)
           b == Seen(e)
<1>0. IsRecord(e) /\ e.queue \in Seq(Messages(h))
    BY DEF Entry
<1>1. m \in Messages(h) /\ 1 \in DOMAIN e.queue /\ m = e.queue[1]
    BY <1>0
<1>2. Is2022(cfg.method) => m.control.session = k
    BY <1>1 DEF Entry
<1>3. /\ q \in Seq(Messages(h)) /\ Len(q) <= QueueMax
      /\ Is2022(cfg.method) => \A i \in DOMAIN q : q[i].control.session = k
    <2>1. q \in Seq(Messages(h)) /\ Len(q) = Len(e.queue) - 1 /\ Len(e.queue) \in Nat
        BY <1>0
    <2>2. \A i \in DOMAIN q : i + 1 \in DOMAIN e.queue /\ q[i] = e.queue[i + 1]
        BY <1>0
    <2>3. Is2022(cfg.method) => \A i \in DOMAIN q : q[i].control.session = k
        BY <2>2 DEF Entry
    <2> QED
        BY <2>1, <2>3, Limits DEF Entry
<1>4. PICK p \in packets :
        /\ Readable(p) /\ m.addr = p.addr /\ m.control = ControlOf(p)
        /\ Is2022(cfg.method) =>
              /\ <<m.control.session, m.peer>> \in h.sources
              /\ m.control.session = p.session /\ m.control.user = UserOf(p)
    BY <1>1, MessageFacts
<1>5. cfg \in Configs /\ IsPacket(p)
    BY DEF PacketsInv
<1>6. MayBeServed(m.control.session)
    <2>1. CASE Is2022(cfg.method)
        BY <1>4, <1>5, <2>1, ReadableFacts
    <2>2. CASE ~Is2022(cfg.method)
        BY <1>4, <2>2 DEF ControlOf, NoControl, MayBeServed
    <2> QED
        BY <2>1, <2>2
<1>7. m.addr # "mapped"
    <2>1. PICK send \in cfg.sends : p.addr = send.addr
        BY <1>5 DEF IsPacket
    <2> QED
        BY <1>4, <1>5, <2>1, ConfigFacts
<1>8. Is2022(cfg.method) => p.session = k /\ Credential(k).key = KeyOf(m.control.user)
    BY <1>2, <1>4, <1>5, ReadableFacts
<1>9. a = [e EXCEPT !.queue = q, !.peer = peer]
    BY <1>0 DEF Taken, IsRecord
<1>10. Is2022(cfg.method) => b = [a EXCEPT !.filter = Window!Remember(@, m.control.id), !.user = m.control.user]
    BY DEF Seen
<1>11. ~Is2022(cfg.method) => b = a
    BY DEF Seen
<1> HIDE DEF a, b, q, peer
<1>12. /\ a.queue = q /\ a.last = e.last /\ a.peer = peer /\ a.filter = e.filter /\ a.user = e.user
       /\ a.sid = e.sid /\ a.pid = e.pid /\ a.flag = e.flag /\ a.sockets = e.sockets /\ a.flows = e.flows
       /\ IsRecord(a)
    BY <1>0, <1>9 DEF IsRecord
<1>13. Is2022(cfg.method) => <<k, peer>> \in h.sources
    BY <1>2, <1>4 DEF peer
<1>14. Entry(h, k, a)
    BY <1>3, <1>12, <1>13 DEF Entry
<1>15. CASE Is2022(cfg.method)
    <2>1. /\ b.queue = q /\ b.last = e.last /\ b.peer = peer /\ b.user = m.control.user
          /\ b.filter = Window!Remember(e.filter, m.control.id)
          /\ b.sid = e.sid /\ b.pid = e.pid /\ b.flag = e.flag /\ b.sockets = e.sockets /\ b.flows = e.flows
          /\ IsRecord(b)
        BY <1>10, <1>12, <1>15 DEF IsRecord
    <2>2. Entry(h, k, b)
        BY <1>3, <1>8, <1>13, <1>15, <2>1 DEF Entry
    <2> QED
        BY <1>4, <1>6, <1>7, <1>8, <1>12, <1>14, <1>15, <2>1, <2>2 DEF a, b, Answerable
<1>16. CASE ~Is2022(cfg.method)
    BY <1>6, <1>7, <1>11, <1>12, <1>14, <1>16 DEF a, b, Answerable
<1> QED
    BY <1>15, <1>16

LEMMA DispatchParts ==
    ASSUME NEW k \in DOMAIN assoc, DispatchReceived(k)
    PROVE  LET e == assoc[k]
               m == Head(e.queue) IN
           /\ e.queue # <<>>
           /\ UNCHANGED <<cfg, now, packets, recv, chan>>
           /\ \/ assoc' = [assoc EXCEPT ![k] = Taken(e)] /\ UNCHANGED <<keepalive, history>>
              \/ /\ Validated(Taken(e), m)
                 /\ \E b : SentOff(Seen(e), m.addr, b) /\ assoc' = [assoc EXCEPT ![k] = b]
                 /\ (keepalive' = [keepalive EXCEPT !.dual = DualStack]) \/ keepalive' = keepalive
                 /\ history' = [history EXCEPT !.dispatched = @ \cup {MessageIds(m)},
                                               !.again = @ \cup (history.dispatched \cap {MessageIds(m)})]
<1>1. assoc[k].queue # <<>> /\ UNCHANGED <<cfg, now, packets, recv, chan>>
    BY DEF DispatchReceived
<1> DEFINE e == assoc[k]
           m == Head(e.queue)
<1>2. \/ assoc' = [assoc EXCEPT ![k] = Taken(e)] /\ UNCHANGED <<keepalive, history>>
      \/ /\ Validated(Taken(e), m)
         /\ \/ /\ Outbound(k, Seen(e), Resolved(m.addr))
               /\ keepalive' = [keepalive EXCEPT !.dual = DualStack]
            \/ assoc' = [assoc EXCEPT ![k] = Seen(e)] /\ UNCHANGED keepalive
         /\ history' = [history EXCEPT !.dispatched = @ \cup {MessageIds(m)},
                                       !.again = @ \cup (history.dispatched \cap {MessageIds(m)})]
    BY Zenon DEF DispatchReceived, Taken, Seen, MessageIds
<1> HIDE DEF e, m
<1>3. SentOff(Seen(e), m.addr, Seen(e))
    BY DEF SentOff
<1>4. \/ assoc' = [assoc EXCEPT ![k] = Taken(e)] /\ UNCHANGED <<keepalive, history>>
      \/ /\ Validated(Taken(e), m)
         /\ \E b : SentOff(Seen(e), m.addr, b) /\ assoc' = [assoc EXCEPT ![k] = b]
         /\ (keepalive' = [keepalive EXCEPT !.dual = DualStack]) \/ keepalive' = keepalive
         /\ history' = [history EXCEPT !.dispatched = @ \cup {MessageIds(m)},
                                       !.again = @ \cup (history.dispatched \cap {MessageIds(m)})]
    BY <1>2, <1>3, OutboundParts, Zenon
<1> QED
    BY <1>1, <1>4, Zenon DEF e, m

LEMMA DispatchMap ==
    ASSUME PacketsInv, MapInv(assoc, history), NEW k \in DOMAIN assoc, DispatchReceived(k)
    PROVE  MapInv(assoc', history') /\ Messages(history') = Messages(history)
<1> DEFINE e == assoc[k]
           m == Head(e.queue)
<1>0. e = assoc[k] /\ m = Head(e.queue)
    OBVIOUS
<1>5. \/ assoc' = [assoc EXCEPT ![k] = Taken(e)] /\ UNCHANGED <<keepalive, history>>
      \/ /\ \E b : SentOff(Seen(e), m.addr, b) /\ assoc' = [assoc EXCEPT ![k] = b]
         /\ history' = [history EXCEPT !.dispatched = @ \cup {MessageIds(m)},
                                       !.again = @ \cup (history.dispatched \cap {MessageIds(m)})]
    BY DispatchParts, Zenon
<1>2. e.queue # <<>>
    BY DispatchParts, Zenon
<1> HIDE DEF e, m
<1>1. Entry(history, k, e) /\ e.pid \in Nat
    BY <1>0 DEF MapInv, Table, Entry
<1>3. CASE assoc' = [assoc EXCEPT ![k] = Taken(e)] /\ UNCHANGED history
    <2>1. Entry(history, k, Taken(e)) /\ Taken(e).sid = e.sid /\ Taken(e).pid = e.pid
        BY <1>1, <1>2, TakenFacts
    <2>2. MapInv([assoc EXCEPT ![k] = Taken(e)], history)
        BY <1>0, <1>1, <2>1, Update
    <2> QED
        BY <1>3, <2>2
<1>4. CASE /\ \E b : SentOff(Seen(e), m.addr, b) /\ assoc' = [assoc EXCEPT ![k] = b]
           /\ history' = [history EXCEPT !.dispatched = @ \cup {MessageIds(m)},
                                         !.again = @ \cup (history.dispatched \cap {MessageIds(m)})]
    <2>1. PICK b : SentOff(Seen(e), m.addr, b) /\ assoc' = [assoc EXCEPT ![k] = b]
        BY <1>4
    <2>2. /\ Entry(history, k, Seen(e)) /\ Seen(e).sid = e.sid /\ Seen(e).pid = e.pid
          /\ m.addr # "mapped" /\ MayBeServed(m.control.session)
          /\ Answerable(k, Seen(e), m.addr)
        <3>1. /\ Entry(history, k, Seen(e)) /\ Seen(e).sid = e.sid /\ Seen(e).pid = e.pid
            BY <1>1, <1>2, TakenFacts
        <3>2. MayBeServed(m.control.session)
            BY <1>0, <1>1, <1>2, TakenFacts
        <3>3. m.addr # "mapped" /\ Answerable(k, Seen(e), m.addr)
            BY <1>0, <1>1, <1>2, TakenFacts
        <3> QED
            BY <3>1, <3>2, <3>3
    <2>3. Entry(history, k, b) /\ b.sid = e.sid /\ b.pid = e.pid
        BY <2>1, <2>2, OutboundFacts
    <2>4. MapInv([assoc EXCEPT ![k] = b], history)
        BY <1>0, <1>1, <2>3, Update
    <2> DEFINE g == [history EXCEPT !.dispatched = @ \cup {MessageIds(m)},
                                    !.again = @ \cup (history.dispatched \cap {MessageIds(m)})]
    <2>5. /\ g.dispatched = history.dispatched \cup {MessageIds(m)}
          /\ g = [history EXCEPT !.dispatched = g.dispatched, !.again = g.again]
        BY DEF MapInv, History
    <2>6. history' = g
        BY <1>4
    <2> HIDE DEF g
    <2>7. \A sent \in g.dispatched : MayBeServed(sent[1])
        BY <2>2, <2>5 DEF MapInv, History, MessageIds
    <2>8. MapInv([assoc EXCEPT ![k] = b], g) /\ Messages(g) = Messages(history)
        BY <2>4, <2>5, <2>7, SentOn
    <2> QED
        BY <2>1, <2>6, <2>8
<1> QED
    BY <1>3, <1>4, <1>5

\* The answer to a client is under the client's key, which the association knows.
LEMMA AnswerReaches ==
    ASSUME PacketsInv, Is2022(cfg.method), NEW h, NEW k, NEW a, Entry(h, k, a), NEW flow \in a.flows, NEW reply,
           reply.to = a.peer, reply.k = k,
           NEW control, control.session = k,
           reply.packet = EncryptServerPayload(cfg.method, KeyOf(a.user), ToV4(flow[2]), 1, control, now)
    PROVE  Reaches(h, reply)
<1> DEFINE key == KeyOf(a.user)
           packet == reply.packet
           result == DecryptServerPayload(cfg.method, key, packet, packet.body.ts)
           read == DecryptMessage(cfg.method, key, {}, packet)
<1>1. /\ Credential(k).key = key /\ <<k, a.peer>> \in h.sources
      /\ \E p \in packets : p.session = k /\ ToV4(flow[2]) \in Resolved(p.addr)
    BY DEF Entry
<1>2. packet = EncryptServer2022(cfg.method, key, ToV4(flow[2]), 1, control, now)
    BY DEF EncryptServerPayload, Is2022
<1> HIDE DEF key, packet
<1>3. /\ packet.ids = key /\ packet.key = key /\ packet.eih = <<>>
      /\ packet.body.type = "server" /\ packet.body.ts = now /\ packet.body.client = k
      /\ packet.body.addr = ToV4(flow[2])
    BY <1>2 DEF EncryptServer2022, EncryptMessage
<1>4. read = [user |-> NoUser]
    BY <1>3 DEF DecryptMessage, EihUser
<1>5. ~Failed(read)
    BY <1>4 DEF Failed
<1> HIDE DEF read
<1>6. ~(AbsDiff(now, now) > MaxDiff)
    BY Limits DEF AbsDiff, PacketsInv
<1> DEFINE back == [session |-> packet.body.client, server |-> packet.body.session, id |-> packet.body.id,
                    user |-> NoUser]
<1>7. result = ReadBody(read, packet, "server", back, now)
    BY <1>3 DEF DecryptServerPayload, Is2022, DecryptServer2022, read
<1>8. back.session = k
    BY <1>3
<1> HIDE DEF back
<1>9. result = Good(packet.body.addr, packet.body.len, back)
    BY <1>3, <1>5, <1>6, <1>7 DEF ReadBody
<1> HIDE DEF result
<1>10. ~Failed(result) /\ result.control.session = k /\ result.addr = ToV4(flow[2])
    BY <1>3, <1>8, <1>9, GoodFacts
<1>11. ASSUME NEW other, other # key
       PROVE  Failed(DecryptServerPayload(cfg.method, other, packet, packet.body.ts))
    <2>1. DecryptMessage(cfg.method, other, {}, packet) = Fail("decrypt")
        BY <1>3, <1>11 DEF DecryptMessage, EihUser
    <2> QED
        BY <2>1, FailFacts DEF DecryptServerPayload, Is2022, DecryptServer2022, ReadBody
<1> QED
    BY <1>1, <1>10, <1>11 DEF Reaches, result, packet

LEMMA RespondMap ==
    ASSUME PacketsInv, MapInv(assoc, history), NEW k \in DOMAIN assoc, Respond(k)
    PROVE  MapInv(assoc', history') /\ Messages(history') = Messages(history)
<1> DEFINE e == assoc[k]
           a == [e EXCEPT !.flag = TRUE]
           pid == NextPid(a.pid)
           control == [session |-> k, server |-> a.sid, id |-> pid, user |-> a.user]
           b == [a EXCEPT !.pid = IF Is2022(cfg.method) THEN pid ELSE @]
           Packet(flow) == EncryptServerPayload(cfg.method, IF a.user = NoUser THEN Psk ELSE a.user,
                                                ToV4(flow[2]), 1, control, now)
           Answer(flow) == [to |-> a.peer, k |-> k, sid |-> a.sid, pid |-> pid, packet |-> Packet(flow)]
<1>1. PICK flow \in e.flows :
        IF Is2022(cfg.method) /\ pid = 0
        THEN assoc' = [assoc EXCEPT ![k] = a] /\ history' = history
        ELSE /\ assoc' = [assoc EXCEPT ![k] = b]
             /\ \/ history' = history
                \/ history' = [history EXCEPT !.answers = Append(@, Answer(flow))]
    BY Zenon DEF Respond
<1>0. e = assoc[k]
    OBVIOUS
<1> HIDE DEF e
<1>2. Entry(history, k, e) /\ IsRecord(e) /\ e.pid \in Nat
    BY <1>0 DEF MapInv, Table, Entry
<1>3. /\ a.queue = e.queue /\ a.last = e.last /\ a.peer = e.peer /\ a.filter = e.filter /\ a.user = e.user
      /\ a.sid = e.sid /\ a.pid = e.pid /\ a.flag = TRUE /\ a.sockets = e.sockets /\ a.flows = e.flows
      /\ IsRecord(a)
    <2>0. a = [e EXCEPT !.flag = TRUE] /\ IsRecord(e)
        BY <1>2
    <2> HIDE DEF a
    <2>1. a = [last |-> e.last, peer |-> e.peer, queue |-> e.queue, filter |-> e.filter, user |-> e.user,
               sid |-> e.sid, pid |-> e.pid, flag |-> TRUE, sockets |-> e.sockets, flows |-> e.flows]
        BY <2>0 DEF IsRecord
    <2> QED
        BY <2>1 DEF IsRecord
<1>4. pid = 0 \/ pid = e.pid + 1
    BY <1>3 DEF NextPid
<1> DEFINE n == IF Is2022(cfg.method) THEN pid ELSE e.pid
<1>5. b = [a EXCEPT !.pid = n]
    BY <1>3
<1> DEFINE reply == Answer(flow)
<1>6. /\ reply.to = a.peer /\ reply.k = k /\ reply.sid = a.sid /\ reply.pid = pid
      /\ reply.packet = Packet(flow)
    OBVIOUS
<1>7. Packet(flow) = EncryptServerPayload(cfg.method, KeyOf(a.user), ToV4(flow[2]), 1, control, now)
      /\ control.session = k
    BY DEF KeyOf
<1>8. CASE Is2022(cfg.method) /\ pid = 0
    <2>1. Entry(history, k, a)
        <3> HIDE DEF a
        <3> QED
            BY <1>2, <1>3 DEF Entry
    <2>2. MapInv([assoc EXCEPT ![k] = a], history)
        <3> HIDE DEF a
        <3> QED
            BY <1>0, <1>2, <1>3, <2>1, Update
    <2> QED
        BY <1>1, <1>8, <2>2
<1>9. CASE ~(Is2022(cfg.method) /\ pid = 0)
    <2>1. n \in Nat /\ e.pid <= n /\ (Is2022(cfg.method) => n = pid /\ e.pid < n)
        <3> HIDE DEF pid
        <3> QED
            BY <1>2, <1>4, <1>9
    <2>2. /\ b.queue = e.queue /\ b.last = e.last /\ b.peer = e.peer /\ b.filter = e.filter /\ b.user = e.user
          /\ b.sid = e.sid /\ b.pid = n /\ b.flag = TRUE /\ b.sockets = e.sockets /\ b.flows = e.flows
          /\ IsRecord(b)
        <3> HIDE DEF a, b, n
        <3> QED
            BY <1>3, <1>5 DEF IsRecord
    <2> DEFINE M == [assoc EXCEPT ![k] = b]
    <2> HIDE DEF a, b, n, control, pid, reply, Packet
    <2>3. Entry(history, k, b)
        BY <1>2, <2>1, <2>2 DEF Entry
    <2>4. MapInv(M, history) /\ k \in DOMAIN M /\ M[k] = b
        BY <1>0, <1>2, <2>1, <2>2, <2>3, Update
    <2> HIDE DEF M
    <2>5. ASSUME Is2022(cfg.method)
          PROVE  /\ Reaches(history, reply) /\ reply.sid = M[k].sid /\ reply.pid = M[k].pid
                 /\ \A i \in DOMAIN history.answers :
                       history.answers[i].sid = reply.sid => history.answers[i].pid # reply.pid
        <3>1. Reaches(history, reply)
            <4>1. flow \in b.flows /\ reply.to = b.peer
                BY <1>3, <1>6, <2>2
            <4>2. reply.packet = EncryptServerPayload(cfg.method, KeyOf(b.user), ToV4(flow[2]), 1, control, now)
                BY <1>3, <1>6, <1>7, <2>2
            <4> QED
                BY <1>6, <1>7, <2>3, <2>5, <4>1, <4>2, AnswerReaches
        <3>2. reply.sid = M[k].sid /\ reply.pid = M[k].pid
            BY <1>3, <1>6, <2>1, <2>2, <2>4, <2>5
        <3>3. ASSUME NEW i \in DOMAIN history.answers, history.answers[i].sid = reply.sid
              PROVE  history.answers[i].pid # reply.pid
            <4>1. history.answers[i].pid <= e.pid /\ history.answers[i].pid \in Nat
                BY <1>0, <1>3, <1>6, <2>5, <3>3 DEF MapInv, Nonces
            <4> QED
                BY <1>2, <1>6, <2>1, <2>5, <4>1
        <3> QED
            BY <3>1, <3>2, <3>3
    <2> DEFINE g == [history EXCEPT !.answers = Append(@, reply)]
    <2>6. MapInv(M, g) /\ Messages(g) = Messages(history)
        BY <2>4, <2>5, Answered
    <2>7. assoc' = M /\ (history' = history \/ history' = g)
        BY <1>1, <1>9 DEF M, reply
    <2> HIDE DEF g
    <2> QED
        BY <2>4, <2>6, <2>7
<1> QED
    BY <1>8, <1>9

LEMMA OutboundFailsMap ==
    ASSUME PacketsInv, MapInv(assoc, history), NEW k \in DOMAIN assoc, OutboundFails(k)
    PROVE  MapInv(assoc', history')
<1> DEFINE e == assoc[k]
           Without(s) == [e EXCEPT !.sockets = @ \ {s}, !.flows = {f \in @ : f[1] # s}]
<1>1. PICK s \in e.sockets : assoc' = [assoc EXCEPT ![k] = Without(s)]
    BY DEF OutboundFails
<1>0. e = assoc[k] /\ history' = history
    BY DEF OutboundFails
<1>2. Entry(history, k, e) /\ IsRecord(e) /\ e.pid \in Nat
    BY DEF MapInv, Table, Entry
<1> HIDE DEF e
<1> DEFINE a == Without(s)
           F == {f \in e.flows : f[1] # s}
<1>3. a = [e EXCEPT !.sockets = @ \ {s}, !.flows = F]
    BY <1>2 DEF IsRecord
<1> HIDE DEF a, F
<1>4. a = [last |-> e.last, peer |-> e.peer, queue |-> e.queue, filter |-> e.filter, user |-> e.user,
           sid |-> e.sid, pid |-> e.pid, flag |-> e.flag, sockets |-> e.sockets \ {s}, flows |-> F]
    BY <1>2, <1>3 DEF IsRecord
<1>5. /\ a.queue = e.queue /\ a.last = e.last /\ a.peer = e.peer /\ a.filter = e.filter /\ a.user = e.user
      /\ a.sid = e.sid /\ a.pid = e.pid /\ a.flag = e.flag /\ a.sockets = e.sockets \ {s} /\ a.flows = F
      /\ IsRecord(a)
    BY <1>4 DEF IsRecord
<1>6. {f[1] : f \in a.flows} \subseteq a.sockets /\ a.flows \subseteq e.flows
    BY <1>2, <1>5 DEF Entry, F
<1>7. Entry(history, k, a)
    BY <1>2, <1>5, <1>6 DEF Entry
<1>8. MapInv([assoc EXCEPT ![k] = a], history)
    BY <1>0, <1>2, <1>5, <1>7, Update
<1> QED
    BY <1>0, <1>1, <1>8 DEF a

LEMMA KeepAliveTickMap ==
    ASSUME PacketsInv, MapInv(assoc, history), NEW k \in DOMAIN assoc, KeepAliveTick(k)
    PROVE  MapInv(assoc', history') /\ k \in Keys
<1> DEFINE e == assoc[k]
           a == [e EXCEPT !.flag = FALSE]
<1>1. assoc' = [assoc EXCEPT ![k] = a] /\ history' = history
    BY DEF KeepAliveTick
<1>0. e = assoc[k]
    OBVIOUS
<1>7. a = [e EXCEPT !.flag = FALSE]
    OBVIOUS
<1>2. Entry(history, k, e) /\ IsRecord(e) /\ e.pid \in Nat /\ k \in Keys
    BY DEF MapInv, Table, Entry
<1> HIDE DEF e, a
<1>3. a = [last |-> e.last, peer |-> e.peer, queue |-> e.queue, filter |-> e.filter, user |-> e.user,
           sid |-> e.sid, pid |-> e.pid, flag |-> FALSE, sockets |-> e.sockets, flows |-> e.flows]
    BY <1>2, <1>7 DEF IsRecord
<1>4. /\ a.queue = e.queue /\ a.last = e.last /\ a.peer = e.peer /\ a.filter = e.filter /\ a.user = e.user
      /\ a.sid = e.sid /\ a.pid = e.pid /\ a.flag = FALSE /\ a.sockets = e.sockets /\ a.flows = e.flows
      /\ IsRecord(a)
    BY <1>3 DEF IsRecord
<1>5. Entry(history, k, a)
    BY <1>2, <1>4 DEF Entry
<1>6. MapInv([assoc EXCEPT ![k] = a], history)
    BY <1>0, <1>2, <1>4, <1>5, Update
<1> QED
    BY <1>1, <1>2, <1>6

LEMMA KeepAliveMap ==
    ASSUME PacketsInv, MapInv(assoc, history), KeepAlive
    PROVE  MapInv(assoc', history')
<1> DEFINE k == Head(keepalive.queue)
           e == Live[k]
           a == [e EXCEPT !.last = now]
<1>1. /\ history' = history
      /\ assoc' = IF k \in DOMAIN Live THEN [Live EXCEPT ![k] = a] ELSE Live
    BY DEF KeepAlive
<1>2. MapInv(Live, history)
    BY LiveFacts
<1>3. ASSUME k \in DOMAIN Live PROVE MapInv([Live EXCEPT ![k] = a], history)
    <2>0. e = Live[k]
        OBVIOUS
    <2>5. a = [e EXCEPT !.last = now]
        OBVIOUS
    <2>1. Entry(history, k, e) /\ IsRecord(e) /\ e.pid \in Nat
        BY <1>2, <1>3 DEF MapInv, Table, Entry
    <2> HIDE DEF e, a, k
    <2>2. a = [last |-> now, peer |-> e.peer, queue |-> e.queue, filter |-> e.filter, user |-> e.user,
               sid |-> e.sid, pid |-> e.pid, flag |-> e.flag, sockets |-> e.sockets, flows |-> e.flows]
        BY <2>1, <2>5 DEF IsRecord
    <2>3. /\ a.queue = e.queue /\ a.last = now /\ a.peer = e.peer /\ a.filter = e.filter /\ a.user = e.user
          /\ a.sid = e.sid /\ a.pid = e.pid /\ a.flag = e.flag /\ a.sockets = e.sockets /\ a.flows = e.flows
          /\ IsRecord(a)
        BY <2>2 DEF IsRecord
    <2>4. Entry(history, k, a)
        BY <2>1, <2>3 DEF Entry, PacketsInv
    <2>6. a.sid = Live[k].sid /\ Live[k].pid <= a.pid
        BY <2>0, <2>1, <2>3
    <2> QED
        BY <1>2, <1>3, <2>4, <2>6, Update
<1> QED
    BY <1>1, <1>2, <1>3

-----------------------------------------------------------------------------
(***************************************************************************)
(* The inductive invariant.                                                *)
(***************************************************************************)

LEMMA FlightKept ==
    ASSUME UNCHANGED cfg, packets \subseteq packets',
           recv' \in [Receivers -> Messages(history') \cup {Idle}],
           chan' \in Seq(Messages(history')), Len(chan') <= ChanMax,
           keepalive' = [queue |-> keepalive'.queue, dual |-> keepalive'.dual],
           keepalive'.queue \in Seq(Keys), Len(keepalive'.queue) <= KeepMax, keepalive'.dual \in BOOLEAN
    PROVE  Flight(history)'
<1>1. PICK h : h = history'
    OBVIOUS
<1>2. Messages(h) \subseteq Messages(h)'
    BY MessagesGrow
<1>3. recv' \in [Receivers -> Messages(h)' \cup {Idle}]
    BY <1>1, <1>2
<1>4. chan' \in Seq(Messages(h)')
    BY <1>1, <1>2, SeqGrows
<1>5. Keys' = Keys
    BY SameReading
<1>6. Messages(h)' = Messages(history)'
    BY <1>1
<1>7. Idle' = Idle
    BY DEF Idle, NoControl
<1> QED
    BY <1>3, <1>4, <1>5, <1>6, <1>7 DEF Flight

\* What leaves the receivers, the channel or the table where they were.
LEMMA FlightSame ==
    ASSUME PacketsInv, Flight(history), UNCHANGED cfg, packets \subseteq packets', UNCHANGED <<chan, keepalive>>,
           Messages(history) \subseteq Messages(history'),
           recv' = recv \/ recv' = [recv EXCEPT !["main"] = Idle]
    PROVE  Flight(history)'
<1>1. recv' \in [Receivers -> Messages(history) \cup {Idle}]
    BY DEF Flight, Receivers
<1>2. recv' \in [Receivers -> Messages(history') \cup {Idle}]
    BY <1>1
<1>3. chan' \in Seq(Messages(history'))
    BY SeqGrows DEF Flight
<1>4. /\ Len(chan') <= ChanMax
      /\ keepalive' = [queue |-> keepalive'.queue, dual |-> keepalive'.dual]
      /\ keepalive'.queue \in Seq(Keys) /\ Len(keepalive'.queue) <= KeepMax /\ keepalive'.dual \in BOOLEAN
    BY DEF Flight
<1> QED
    BY <1>2, <1>3, <1>4, FlightKept

LEMMA ServerInitInv == ServerInit => ServerInv
<1> SUFFICES ASSUME ServerInit PROVE ServerInv
    OBVIOUS
<1>1. PacketsInv
    BY FS_EmptySet DEF ServerInit, PacketsInv
<1>2. Flight(history)
    BY Limits DEF ServerInit, Flight
<1>3. DOMAIN assoc = {} /\ IsFiniteSet(DOMAIN assoc)
    BY FS_EmptySet DEF ServerInit
<1>4. Table(assoc, history)
    <2>1. cfg.capacity \in Nat
        BY <1>1, ConfigFacts DEF PacketsInv
    <2> QED
        BY <1>3, <2>1, FS_EmptySet DEF Table
<1>5. /\ history.sids = 0 /\ history.dispatched = {} /\ history.answers = <<>>
      /\ history = [received |-> history.received, sources |-> history.sources, dispatched |-> history.dispatched,
                    again |-> history.again, evicted |-> history.evicted, sids |-> history.sids,
                    answers |-> history.answers]
    BY DEF ServerInit
<1>6. Nonces(assoc, history) /\ History(history)
    BY <1>3, <1>5 DEF Nonces, History, IsSeq
<1> QED
    BY <1>1, <1>2, <1>4, <1>6 DEF ServerInv, MapInv

\* recv_one_packet: what it hands on is what a client sent, from where it came.
LEMMA ReceiveFacts ==
    ASSUME ServerInv, NEW r \in Receivers, RecvOnePacket(r)
    PROVE  /\ \E p \in packets, peer \in cfg.peers :
                 /\ recv' = [recv EXCEPT ![r] = MessageOf(p, peer)]
                 /\ MessageOf(p, peer) \in Messages(history')
                 /\ Is2022(cfg.method) =>
                       AbsDiff(now, Ts(p)) <= MaxDiff /\ MessageIds(MessageOf(p, peer)) = PacketIds(p)
           /\ MapInv(assoc, history') /\ Messages(history) \subseteq Messages(history')
           /\ history'.dispatched = history.dispatched /\ history'.again = history.again
           /\ history'.evicted = history.evicted
           /\ UNCHANGED <<cfg, now, packets, chan, assoc, keepalive>>
<1> DEFINE Result(p) == DecryptClientPayload(cfg.method, Psk, cfg.users, p.packet, now)
           Sources(p, peer) == history.sources \cup {<<p.session, peer>>}
<1>0. PacketsInv /\ MapInv(assoc, history)
    BY DEF ServerInv
<1>1. PICK p \in packets, peer \in cfg.peers :
        /\ ~Failed(Result(p))
        /\ recv' = [recv EXCEPT ![r] = [peer |-> peer, addr |-> Result(p).addr, control |-> Result(p).control]]
        /\ history' = [history EXCEPT !.received = @ + 1, !.sources = @ \cup {<<p.session, peer>>}]
    BY Zenon DEF RecvOnePacket
<1>2. /\ Result(p).addr = p.addr /\ Result(p).control = ControlOf(p) /\ Readable(p)
      /\ Is2022(cfg.method) => AbsDiff(now, Ts(p)) <= MaxDiff
    BY <1>0, <1>1, DecryptFacts
<1> HIDE DEF Result
<1>3. recv' = [recv EXCEPT ![r] = MessageOf(p, peer)]
    BY <1>1, <1>2 DEF MessageOf
<1> DEFINE g == [history EXCEPT !.received = @ + 1, !.sources = @ \cup {<<p.session, peer>>}]
<1>4. /\ g.sources = history.sources \cup {<<p.session, peer>>}
      /\ g = [history EXCEPT !.received = g.received, !.sources = g.sources]
      /\ g.dispatched = history.dispatched /\ g.again = history.again /\ g.evicted = history.evicted
    BY <1>0 DEF MapInv, History
<1>5. history' = g
    BY <1>1
<1> HIDE DEF g
<1>6. MapInv(assoc, g) /\ Messages(history) \subseteq Messages(g)
    BY <1>0, <1>4, SourcesGrow
<1> DEFINE m == MessageOf(p, peer)
<1>7. m.peer = peer /\ m.control = ControlOf(p)
    BY DEF MessageOf
<1>8. Is2022(cfg.method) => m.control.session = p.session /\ m.control.id = p.id
    BY <1>7 DEF ControlOf
<1>9. m \in Messages(g)
    BY <1>2, <1>4, <1>7, <1>8 DEF Messages
<1>10. Is2022(cfg.method) => MessageIds(m) = PacketIds(p)
    BY <1>8 DEF MessageIds, PacketIds
<1>11. UNCHANGED <<cfg, now, packets, chan, assoc, keepalive>>
    BY DEF RecvOnePacket
<1> QED
    BY <1>2, <1>3, <1>4, <1>5, <1>6, <1>9, <1>10, <1>11

LEMMA SamePackets ==
    ASSUME PacketsInv, UNCHANGED <<cfg, packets>>, now' \in Nat PROVE PacketsInv'
<1>1. \A p : IsPacket(p) => IsPacket(p)'
    <2> SUFFICES ASSUME NEW p, IsPacket(p) PROVE IsPacket(p)'
        OBVIOUS
    <2>1. Credential(p.session)' = Credential(p.session)
        BY SameReading
    <2> QED
        BY <2>1 DEF IsPacket
<1>2. \A s : OfSession(s)' = OfSession(s)
    BY DEF OfSession
<1> QED
    BY <1>1, <1>2 DEF PacketsInv

LEMMA ReceiveStep ==
    ASSUME ServerInv, NEW r \in Receivers, RecvOnePacket(r) PROVE ServerInv'
<1>1. PICK m \in Messages(history') : recv' = [recv EXCEPT ![r] = m]
    BY ReceiveFacts
<1>2. /\ MapInv(assoc, history') /\ Messages(history) \subseteq Messages(history')
      /\ UNCHANGED <<cfg, now, packets, chan, assoc, keepalive>>
    BY ReceiveFacts
<1>3. PacketsInv /\ Flight(history)
    BY DEF ServerInv
<1>4. PacketsInv'
    BY <1>2, <1>3, SamePackets DEF PacketsInv
<1>5. MapInv(assoc, history)'
    BY <1>2, <1>3, MapKept DEF PacketsInv
<1>6. recv' \in [Receivers -> Messages(history') \cup {Idle}]
    BY <1>1, <1>2, <1>3 DEF Flight
<1>7. /\ Len(chan') <= ChanMax
      /\ keepalive' = [queue |-> keepalive'.queue, dual |-> keepalive'.dual]
      /\ keepalive'.queue \in Seq(Keys) /\ Len(keepalive'.queue) <= KeepMax /\ keepalive'.dual \in BOOLEAN
    BY <1>2, <1>3 DEF Flight
<1>8. chan' \in Seq(Messages(history'))
    BY <1>2, <1>3, SeqGrows DEF Flight
<1>9. Flight(history)'
    BY <1>2, <1>6, <1>7, <1>8, FlightKept
<1> QED
    BY <1>4, <1>5, <1>9 DEF ServerInv

LEMMA MainStep == ASSUME ServerInv, MainReceived PROVE ServerInv'
<1>1. PacketsInv /\ Flight(history) /\ MapInv(assoc, history)
    BY DEF ServerInv
<1>2. recv["main"] \in Messages(history)
    BY <1>1 DEF MainReceived, Flight, Receivers
<1>3. UNCHANGED <<cfg, now, packets, chan, keepalive>> /\ recv' = [recv EXCEPT !["main"] = Idle]
    BY DEF MainReceived
<1>4. MapInv(assoc', history') /\ Messages(history') = Messages(history)
    <2>1. CASE UNCHANGED <<assoc, history>>
        BY <1>1, <2>1
    <2>2. CASE SendPacket(recv["main"])
        BY <1>1, <1>2, <2>2, SendPacketMap
    <2> QED
        BY <2>1, <2>2 DEF MainReceived
<1> QED
    BY <1>1, <1>3, <1>4, SamePackets, MapKept, FlightSame DEF ServerInv, PacketsInv

LEMMA ExtraStep == ASSUME ServerInv, ExtraReceived PROVE ServerInv'
<1>1. PacketsInv /\ Flight(history) /\ MapInv(assoc, history)
    BY DEF ServerInv
<1>2. recv["extra"] \in Messages(history)
    BY <1>1 DEF ExtraReceived, Flight, Receivers
<1>3. UNCHANGED <<cfg, now, packets, assoc, keepalive, history>> /\ recv' = [recv EXCEPT !["extra"] = Idle]
    BY DEF ExtraReceived
<1>4. recv' \in [Receivers -> Messages(history') \cup {Idle}]
    BY <1>1, <1>3 DEF Flight
<1>5. chan' \in Seq(Messages(history')) /\ Len(chan') <= ChanMax
    <2>1. chan \in Seq(Messages(history)) /\ Len(chan) <= ChanMax
        BY <1>1 DEF Flight
    <2> QED
        BY <1>2, <1>3, <2>1, Limits DEF ExtraReceived
<1>6. /\ keepalive' = [queue |-> keepalive'.queue, dual |-> keepalive'.dual]
      /\ keepalive'.queue \in Seq(Keys) /\ Len(keepalive'.queue) <= KeepMax /\ keepalive'.dual \in BOOLEAN
    BY <1>1, <1>3 DEF Flight
<1>7. Flight(history)'
    BY <1>3, <1>4, <1>5, <1>6, FlightKept
<1> QED
    BY <1>1, <1>3, <1>7, SamePackets, MapKept DEF ServerInv, PacketsInv

LEMMA MulticoreStep == ASSUME ServerInv, MulticoreRecv PROVE ServerInv'
<1>1. PacketsInv /\ Flight(history) /\ MapInv(assoc, history)
    BY DEF ServerInv
<1>2. chan \in Seq(Messages(history)) /\ chan # <<>> /\ Len(chan) <= ChanMax
    BY <1>1 DEF MulticoreRecv, Flight
<1>3. Head(chan) \in Messages(history)
    BY <1>2
<1>4. /\ UNCHANGED <<cfg, now, packets, keepalive>> /\ recv' = [recv EXCEPT !["main"] = Idle]
      /\ chan' = Tail(chan) /\ SendPacket(Head(chan))
    BY DEF MulticoreRecv, Cancelled
<1>5. MapInv(assoc', history') /\ Messages(history') = Messages(history)
    BY <1>1, <1>3, <1>4, SendPacketMap
<1>6. chan' \in Seq(Messages(history')) /\ Len(chan') <= ChanMax
    BY <1>2, <1>4, <1>5, Limits
<1>7. recv' \in [Receivers -> Messages(history') \cup {Idle}]
    BY <1>1, <1>4, <1>5 DEF Flight
<1>8. /\ keepalive' = [queue |-> keepalive'.queue, dual |-> keepalive'.dual]
      /\ keepalive'.queue \in Seq(Keys) /\ Len(keepalive'.queue) <= KeepMax /\ keepalive'.dual \in BOOLEAN
    BY <1>1, <1>4 DEF Flight
<1>9. Flight(history)'
    BY <1>4, <1>6, <1>7, <1>8, FlightKept
<1> QED
    BY <1>1, <1>4, <1>5, <1>9, SamePackets, MapKept DEF ServerInv, PacketsInv

LEMMA CleanupStep == ASSUME ServerInv, CleanupExpired PROVE ServerInv'
<1>1. PacketsInv /\ Flight(history) /\ MapInv(assoc, history)
    BY DEF ServerInv
<1>2. /\ UNCHANGED <<cfg, now, packets, chan, keepalive, history>> /\ recv' = [recv EXCEPT !["main"] = Idle]
      /\ assoc' = Live
    BY DEF CleanupExpired, Cancelled
<1>3. MapInv(assoc', history')
    BY <1>1, <1>2, LiveFacts
<1> QED
    BY <1>1, <1>2, <1>3, SamePackets, MapKept, FlightSame DEF ServerInv, PacketsInv

LEMMA KeepAliveStep == ASSUME ServerInv, KeepAlive PROVE ServerInv'
<1>1. PacketsInv /\ Flight(history) /\ MapInv(assoc, history)
    BY DEF ServerInv
<1>2. /\ UNCHANGED <<cfg, now, packets, chan, history>> /\ recv' = [recv EXCEPT !["main"] = Idle]
      /\ keepalive' = [keepalive EXCEPT !.queue = Tail(@)] /\ keepalive.queue # <<>>
    BY DEF KeepAlive, Cancelled
<1>3. MapInv(assoc', history')
    BY <1>1, KeepAliveMap
<1>4. /\ keepalive.queue \in Seq(Keys) /\ Len(keepalive.queue) <= KeepMax /\ keepalive.dual \in BOOLEAN
      /\ keepalive = [queue |-> keepalive.queue, dual |-> keepalive.dual]
    BY <1>1 DEF Flight
<1>5. keepalive' = [queue |-> Tail(keepalive.queue), dual |-> keepalive.dual]
    BY <1>2, <1>4
<1>6. Tail(keepalive.queue) \in Seq(Keys) /\ Len(Tail(keepalive.queue)) <= KeepMax
    BY <1>2, <1>4, Limits
<1>7. /\ keepalive' = [queue |-> keepalive'.queue, dual |-> keepalive'.dual]
      /\ keepalive'.queue \in Seq(Keys) /\ Len(keepalive'.queue) <= KeepMax /\ keepalive'.dual \in BOOLEAN
    BY <1>4, <1>5, <1>6
<1>8. recv' \in [Receivers -> Messages(history') \cup {Idle}]
    BY <1>1, <1>2 DEF Flight
<1>9. Flight(history)'
    BY <1>1, <1>2, <1>7, <1>8, FlightKept DEF Flight
<1> QED
    BY <1>1, <1>2, <1>3, <1>9, SamePackets, MapKept DEF ServerInv, PacketsInv

LEMMA TaskStep ==
    ASSUME ServerInv, NEW k \in DOMAIN assoc,
           DispatchReceived(k) \/ Respond(k) \/ OutboundFails(k) \/ KeepAliveTick(k)
    PROVE  ServerInv'
<1>1. PacketsInv /\ Flight(history) /\ MapInv(assoc, history)
    BY DEF ServerInv
<1>2. /\ keepalive.queue \in Seq(Keys) /\ Len(keepalive.queue) <= KeepMax /\ keepalive.dual \in BOOLEAN
      /\ keepalive = [queue |-> keepalive.queue, dual |-> keepalive.dual]
    BY <1>1 DEF Flight
<1>3. UNCHANGED <<cfg, now, packets, recv, chan>>
    BY DEF DispatchReceived, Respond, OutboundFails, KeepAliveTick
<1>4. MapInv(assoc', history') /\ Messages(history') = Messages(history)
    <2>1. CASE DispatchReceived(k)
        BY <1>1, <2>1, DispatchMap
    <2>2. CASE Respond(k)
        BY <1>1, <2>2, RespondMap
    <2>3. CASE OutboundFails(k)
        <3>1. history' = history
            BY <2>3 DEF OutboundFails
        <3> QED
            BY <1>1, <2>3, <3>1, OutboundFailsMap
    <2>4. CASE KeepAliveTick(k)
        <3>1. history' = history
            BY <2>4 DEF KeepAliveTick
        <3> QED
            BY <1>1, <2>4, <3>1, KeepAliveTickMap
    <2> QED
        BY <2>1, <2>2, <2>3, <2>4
<1>5. /\ keepalive' = [queue |-> keepalive'.queue, dual |-> keepalive'.dual]
      /\ keepalive'.queue \in Seq(Keys) /\ Len(keepalive'.queue) <= KeepMax /\ keepalive'.dual \in BOOLEAN
    <2>1. CASE DispatchReceived(k)
        <3>1. keepalive' = keepalive \/ keepalive' = [keepalive EXCEPT !.dual = DualStack]
            BY <2>1, DispatchParts
        <3>2. DualStack \in BOOLEAN
            BY DEF DualStack
        <3>3. CASE keepalive' = keepalive
            BY <1>2, <3>3
        <3>4. CASE keepalive' = [keepalive EXCEPT !.dual = DualStack]
            <4>1. keepalive' = [queue |-> keepalive.queue, dual |-> DualStack]
                BY <1>2, <3>4
            <4> QED
                BY <1>2, <3>2, <4>1
        <3> QED
            BY <3>1, <3>3, <3>4
    <2>2. CASE Respond(k) \/ OutboundFails(k)
        <3>1. keepalive' = keepalive
            BY <2>2 DEF Respond, OutboundFails
        <3> QED
            BY <1>2, <3>1
    <2>3. CASE KeepAliveTick(k)
        <3>1. k \in Keys
            BY <1>1, <2>3, KeepAliveTickMap
        <3>2. keepalive' = [keepalive EXCEPT !.queue = Append(@, k)] /\ Len(keepalive.queue) < KeepMax
            BY <2>3 DEF KeepAliveTick
        <3>3. keepalive' = [queue |-> Append(keepalive.queue, k), dual |-> keepalive.dual]
            BY <1>2, <3>2
        <3>4. Append(keepalive.queue, k) \in Seq(Keys) /\ Len(Append(keepalive.queue, k)) <= KeepMax
            BY <1>2, <3>1, <3>2, Limits
        <3> QED
            BY <1>2, <3>3, <3>4
    <2> QED
        BY <2>1, <2>2, <2>3
<1>6. Flight(history)'
    BY <1>1, <1>3, <1>4, <1>5, FlightKept DEF Flight
<1> QED
    BY <1>1, <1>3, <1>4, <1>6, SamePackets, MapKept DEF ServerInv, PacketsInv

LEMMA ServerStep == ASSUME ServerInv, [ServerNext]_serverVars PROVE ServerInv'
<1>1. PacketsInv /\ Flight(history) /\ MapInv(assoc, history)
    BY DEF ServerInv
<1>2. ASSUME NEW s \in Sessions, Sends(s) PROVE ServerInv'
    <2>1. PacketsInv' /\ packets \subseteq packets'
        BY <1>1, <1>2, SendsStep
    <2>2. UNCHANGED <<cfg, now, recv, chan, assoc, keepalive, history>>
        BY <1>2 DEF Sends
    <2>3. MapInv(assoc, history)'
        <3>1. PICK M, h : M = assoc /\ h = history
            OBVIOUS
        <3>2. MapInv(M, h)'
            BY <1>1, <2>1, <2>2, <3>1, MapGrows DEF PacketsInv
        <3> QED
            BY <2>2, <3>1, <3>2
    <2>4. Flight(history)'
        BY <1>1, <2>1, <2>2, FlightSame
    <2> QED
        BY <2>1, <2>3, <2>4 DEF ServerInv
<1>3. CASE Tick
    <2>1. UNCHANGED <<cfg, packets, recv, chan, assoc, keepalive, history>> /\ now' = now + 1
        BY <1>3 DEF Tick
    <2>2. now \in Nat /\ now' \in Nat /\ now <= now'
        BY <1>1, <2>1 DEF PacketsInv
    <2>3. MapInv(assoc, history)'
        <3>1. PICK M, h : M = assoc /\ h = history
            OBVIOUS
        <3>2. MapInv(M, h)'
            BY <1>1, <2>1, <2>2, <3>1, MapGrows
        <3> QED
            BY <2>1, <3>1, <3>2
    <2> QED
        BY <1>1, <2>1, <2>2, <2>3, SamePackets, FlightSame DEF ServerInv
<1>4. CASE UNCHANGED serverVars
    <2>1. UNCHANGED <<cfg, now, packets, recv, chan, assoc, keepalive, history>>
        BY <1>4 DEF serverVars
    <2> QED
        BY <1>1, <2>1, SamePackets, MapKept, FlightSame DEF ServerInv, PacketsInv
<1> QED
    BY <1>2, <1>3, <1>4, ReceiveStep, MainStep, ExtraStep, MulticoreStep, CleanupStep, KeepAliveStep, TaskStep
    DEF ServerNext

\* The UDP server keeps its invariant: what is under way and in the map was
\* sent by a client the server may serve, and what the map knows of a session
\* is enough to answer its client.
THEOREM ServerIsInOrder == ServerSpec => []ServerInv
BY ServerInitInv, ServerStep, PTL DEF ServerSpec

\* What ssserver sends back (send_received_respond_packet) goes where a packet
\* of its session arrived from; the session's client can read it and no holder
\* of another key can, it names an address the client asked for or one that its
\* name resolves to, and it never reuses a nonce, for any settings, any number
\* of packets and whoever repeats them.
THEOREM AnswersAreAlwaysRight == ServerSpec => []AnswersAreRight
<1>1. ServerInv => AnswersAreRight
    <2> SUFFICES ASSUME ServerInv PROVE AnswersAreRight
        OBVIOUS
    <2>1. Is2022(cfg.method) => \A i \in DOMAIN history.answers : Reaches(history, history.answers[i])
        BY DEF ServerInv, MapInv, History
    <2>2. OnlyTheClientReads
        BY <2>1 DEF OnlyTheClientReads, Reaches
    <2>3. NonceUsedOnce
        BY DEF ServerInv, MapInv, Nonces, NonceUsedOnce
    <2> QED
        BY <2>2, <2>3 DEF AnswersAreRight
<1> QED
    BY <1>1, ServerIsInOrder, PTL

-----------------------------------------------------------------------------
(***************************************************************************)
(* What an association remembers of the packets it has sent on.            *)
(***************************************************************************)

\* The message has arrived in this tick: its timestamp has just been accepted.
Fresh(m) ==
    \A p \in packets : PacketIds(p) = MessageIds(m) => now <= Ts(p) + MaxDiff /\ Ts(p) <= now + MaxDiff

FlightIsFresh ==
    /\ \A r \in Receivers : recv[r] # Idle => Fresh(recv[r])
    /\ \A i \in DOMAIN chan : Fresh(chan[i])

\* What was sent on for a session that was never evicted is in the session's
\* filter, or is too old to be accepted again.
Remembered(M, h) ==
    \A p \in packets :
        PacketIds(p) \in h.dispatched /\ p.session \notin h.evicted =>
            \/ /\ p.session \in DOMAIN M
               /\ p.id \in M[p.session].filter.accepted
               /\ Ts(p) <= M[p.session].last + MaxDiff
            \/ Ts(p) + MaxDiff < now

\* So is what was sent on already and waits in the session's queue once more.
Waiting(M, h) ==
    \A k \in DOMAIN M : \A i \in DOMAIN M[k].queue :
        LET m == M[k].queue[i] IN
        /\ \A p \in packets : PacketIds(p) = MessageIds(m) => Ts(p) <= M[k].last + MaxDiff
        /\ MessageIds(m) \in h.dispatched /\ k \notin h.evicted => m.control.id \in M[k].filter.accepted

Recorded(h) == \A sent \in h.dispatched : \E p \in packets : PacketIds(p) = sent
Once(h)     == \A sent \in h.again : sent[1] \in h.evicted

ReplayInv ==
    Is2022(cfg.method) =>
        /\ Recorded(history) /\ Once(history)
        /\ FlightIsFresh
        /\ Remembered(assoc, history) /\ Waiting(assoc, history)

\* Sessions are kept for as long as their packets are accepted, counted from
\* the timestamp of a client whose clock is ahead.
SessionsOutlivePackets == 2 * MaxDiff <= Ttl

LEMMA ReplayKept ==
    ASSUME UNCHANGED <<cfg, now, packets>>, Recorded(history'), Once(history'),
           \A r \in Receivers : recv'[r] # Idle => Fresh(recv'[r]),
           \A i \in DOMAIN chan' : Fresh(chan'[i]),
           Remembered(assoc', history'), Waiting(assoc', history')
    PROVE  ReplayInv'
<1>1. Recorded(history)' /\ Once(history)'
    BY DEF Recorded, Once, PacketIds
<1>2. Idle' = Idle
    BY DEF Idle, NoControl
<1>3. FlightIsFresh'
    BY <1>2 DEF FlightIsFresh, Fresh, PacketIds, Ts, MessageIds
<1>4. Remembered(assoc, history)'
    BY DEF Remembered, PacketIds, Ts
<1>5. Waiting(assoc, history)'
    BY DEF Waiting, PacketIds, Ts, MessageIds
<1> QED
    BY <1>1, <1>3, <1>4, <1>5 DEF ReplayInv

\* An entry that was used stays, with its filter and its queue.
LEMMA MemoryKept ==
    ASSUME PacketsInv, Is2022(cfg.method), NEW M, NEW N, NEW h, NEW g,
           Remembered(M, h), Waiting(M, h),
           g.dispatched = h.dispatched, h.evicted \subseteq g.evicted,
           \A p \in packets : p.session \notin g.evicted /\ p.session \in DOMAIN M => p.session \in DOMAIN N,
           \A k \in DOMAIN N :
              /\ k \in DOMAIN M /\ M[k].last \in Nat /\ N[k].last \in Nat /\ M[k].last <= N[k].last
              /\ N[k].filter = M[k].filter /\ N[k].queue = M[k].queue
    PROVE  Remembered(N, g) /\ Waiting(N, g)
<1>0. \A p \in packets : Ts(p) \in Nat
    BY TimestampType
<1>1. Remembered(N, g)
    <2> SUFFICES ASSUME NEW p \in packets, PacketIds(p) \in g.dispatched, p.session \notin g.evicted,
                        ~(Ts(p) + MaxDiff < now)
                 PROVE  /\ p.session \in DOMAIN N
                        /\ p.id \in N[p.session].filter.accepted
                        /\ Ts(p) <= N[p.session].last + MaxDiff
        BY DEF Remembered
    <2>1. /\ p.session \in DOMAIN M
          /\ p.id \in M[p.session].filter.accepted
          /\ Ts(p) <= M[p.session].last + MaxDiff
        BY DEF Remembered
    <2> QED
        BY <1>0, <2>1, Limits
<1>2. ASSUME NEW k \in DOMAIN N, NEW i \in DOMAIN N[k].queue, NEW m, m = N[k].queue[i]
      PROVE  /\ \A p \in packets : PacketIds(p) = MessageIds(m) => Ts(p) <= N[k].last + MaxDiff
             /\ MessageIds(m) \in g.dispatched /\ k \notin g.evicted => m.control.id \in N[k].filter.accepted
    <2>1. /\ k \in DOMAIN M /\ i \in DOMAIN M[k].queue /\ m = M[k].queue[i]
        BY <1>2
    <2>2. /\ \A p \in packets : PacketIds(p) = MessageIds(m) => Ts(p) <= M[k].last + MaxDiff
          /\ MessageIds(m) \in h.dispatched /\ k \notin h.evicted => m.control.id \in M[k].filter.accepted
        BY <2>1 DEF Waiting
    <2> QED
        BY <1>0, <2>2, Limits
<1> QED
    BY <1>1, <1>2 DEF Waiting

\* A session that expires forgets only what is too old to come again.
LEMMA ExpiredAreOld ==
    ASSUME SessionsOutlivePackets, PacketsInv, Is2022(cfg.method), MapInv(assoc, history),
           Remembered(assoc, history), Waiting(assoc, history)
    PROVE  Remembered(Live, history) /\ Waiting(Live, history)
<1>0. now \in Nat /\ \A p \in packets : Ts(p) \in Nat
    BY TimestampType DEF PacketsInv
<1>1. /\ DOMAIN Live = {k \in DOMAIN assoc : now - assoc[k].last <= Ttl}
      /\ \A k \in DOMAIN Live : Live[k] = assoc[k]
    BY LiveFacts
<1>2. \A k \in DOMAIN assoc : assoc[k].last \in Nat
    BY DEF MapInv, Table, Entry
<1>3. Waiting(Live, history)
    BY <1>1 DEF Waiting
<1>4. ASSUME NEW p \in packets, PacketIds(p) \in history.dispatched, p.session \notin history.evicted,
             ~(Ts(p) + MaxDiff < now)
      PROVE  /\ p.session \in DOMAIN Live
             /\ p.id \in Live[p.session].filter.accepted
             /\ Ts(p) <= Live[p.session].last + MaxDiff
    <2> DEFINE e == assoc[p.session]
    <2>1. p.session \in DOMAIN assoc /\ p.id \in e.filter.accepted /\ Ts(p) <= e.last + MaxDiff
        BY <1>4 DEF Remembered
    <2>2. e.last \in Nat
        BY <1>2, <2>1
    <2> HIDE DEF e
    <2>3. now - e.last <= Ttl
        BY <1>0, <1>4, <2>1, <2>2, Limits DEF SessionsOutlivePackets
    <2>4. p.session \in DOMAIN Live /\ Live[p.session] = e
        BY <1>1, <2>1, <2>3 DEF e
    <2> QED
        BY <2>1, <2>4
<1> QED
    BY <1>3, <1>4 DEF Remembered

\* A message that has just come, for what was sent on already, is one the
\* session's filter knows.
LEMMA KnownAgain ==
    ASSUME PacketsInv, Is2022(cfg.method), NEW M, NEW h, Remembered(M, h),
           NEW m \in Messages(h), Fresh(m), MessageIds(m) \in h.dispatched, Key(m) \notin h.evicted
    PROVE  Key(m) \in DOMAIN M /\ m.control.id \in M[Key(m)].filter.accepted
<1>1. PICK p \in packets : PacketIds(p) = MessageIds(m) /\ m.control.session = p.session /\ m.control.id = p.id
    BY MessageFacts
<1>2. Key(m) = p.session
    BY <1>1 DEF Key
<1>3. now <= Ts(p) + MaxDiff
    BY <1>1 DEF Fresh
<1>4. ~(Ts(p) + MaxDiff < now)
    BY <1>3, TimestampType, Limits DEF PacketsInv
<1> QED
    BY <1>1, <1>2, <1>4 DEF Remembered

LEMMA SendPacketMemory ==
    ASSUME SessionsOutlivePackets, PacketsInv, Is2022(cfg.method), MapInv(assoc, history),
           Remembered(assoc, history), Waiting(assoc, history), Recorded(history), Once(history),
           NEW m \in Messages(history), Fresh(m), SendPacket(m)
    PROVE  /\ Remembered(assoc', history') /\ Waiting(assoc', history')
           /\ Recorded(history') /\ Once(history')
<1> DEFINE k == Key(m)
<1>0. now \in Nat /\ cfg \in Configs /\ \A p \in packets : Ts(p) \in Nat
    BY TimestampType DEF PacketsInv
<1>1. Remembered(Live, history) /\ Waiting(Live, history) /\ MapInv(Live, history)
    BY ExpiredAreOld, LiveFacts
<1>2. k = m.control.session
    BY DEF Key
<1>3. \A p \in packets : PacketIds(p) = MessageIds(m) => Ts(p) <= now + MaxDiff
    BY DEF Fresh
<1>4. CASE k \in DOMAIN Live
    <2> DEFINE a == Live[k]
               b == TrySend(a, m)
               N == [Live EXCEPT ![k] = b]
    <2>1. assoc' = N /\ history' = history
        BY <1>4 DEF SendPacket
    <2>2. Entry(history, k, a)
        BY <1>1, <1>4 DEF MapInv, Table
    <2>3. /\ DOMAIN N = DOMAIN Live /\ N[k] = b /\ \A l \in DOMAIN Live : l # k => N[l] = Live[l]
        BY <1>4
    <2> HIDE DEF N
    <2>4. a = Live[k]
        OBVIOUS
    <2> HIDE DEF a
    <2>5. /\ b.filter = a.filter /\ b.last = now
          /\ \A i \in DOMAIN b.queue : (i \in DOMAIN a.queue /\ b.queue[i] = a.queue[i]) \/ b.queue[i] = m
        BY <1>0, <1>2, <2>2, TrySendFacts
    <2>6. a.last \in Nat /\ a.last <= now
        BY <2>2 DEF Entry
    <2> HIDE DEF b
    <2>7. ASSUME NEW p \in packets, PacketIds(p) \in history.dispatched, p.session \notin history.evicted,
                 ~(Ts(p) + MaxDiff < now)
          PROVE  /\ p.session \in DOMAIN N
                 /\ p.id \in N[p.session].filter.accepted
                 /\ Ts(p) <= N[p.session].last + MaxDiff
        <3>1. /\ p.session \in DOMAIN Live
              /\ p.id \in Live[p.session].filter.accepted
              /\ Ts(p) <= Live[p.session].last + MaxDiff
            BY <1>1, <2>7 DEF Remembered
        <3>2. CASE p.session = k
            <4>1. Ts(p) <= now + MaxDiff
                BY <1>0, <2>4, <2>6, <3>1, <3>2, Limits
            <4> QED
                BY <1>4, <2>3, <2>4, <2>5, <3>1, <3>2, <4>1
        <3>3. CASE p.session # k
            BY <2>3, <3>1, <3>3
        <3> QED
            BY <3>2, <3>3
    <2>8. Remembered(N, history)
        BY <2>7 DEF Remembered
    <2>9. ASSUME NEW l \in DOMAIN N, NEW i \in DOMAIN N[l].queue, NEW x, x = N[l].queue[i]
          PROVE  /\ \A p \in packets : PacketIds(p) = MessageIds(x) => Ts(p) <= N[l].last + MaxDiff
                 /\ MessageIds(x) \in history.dispatched /\ l \notin history.evicted =>
                        x.control.id \in N[l].filter.accepted
        <3>1. CASE l # k
            BY <1>1, <2>3, <2>9, <3>1 DEF Waiting
        <3>2. CASE l = k /\ i \in DOMAIN a.queue /\ x = a.queue[i]
            <4>1. /\ \A p \in packets : PacketIds(p) = MessageIds(x) => Ts(p) <= a.last + MaxDiff
                  /\ MessageIds(x) \in history.dispatched /\ k \notin history.evicted =>
                        x.control.id \in a.filter.accepted
                BY <1>1, <1>4, <2>4, <3>2 DEF Waiting
            <4>2. \A p \in packets : PacketIds(p) = MessageIds(x) => Ts(p) <= now + MaxDiff
                BY <1>0, <2>6, <4>1, Limits
            <4> QED
                BY <2>3, <2>5, <3>2, <4>1, <4>2
        <3>3. CASE l = k /\ x = m
            <4>1. MessageIds(m) \in history.dispatched /\ k \notin history.evicted =>
                    m.control.id \in Live[k].filter.accepted
                BY <1>1, KnownAgain
            <4> QED
                BY <1>3, <2>3, <2>4, <2>5, <3>3, <4>1
        <3> QED
            BY <2>3, <2>5, <2>9, <3>1, <3>2, <3>3
    <2>10. Waiting(N, history)
        BY <2>9 DEF Waiting
    <2> QED
        BY <2>1, <2>8, <2>10
<1>5. CASE k \notin DOMAIN Live
    <2> DEFINE K == Kept(Live)
               b == Create(m)
               N == Inserted(K, k, b)
               g == [history EXCEPT !.sids = @ + 1, !.evicted = @ \cup (DOMAIN Live \ DOMAIN K)]
    <2>1. assoc' = N /\ history' = g
        BY <1>5 DEF SendPacket
    <2>2. /\ g.dispatched = history.dispatched /\ g.again = history.again
          /\ g.evicted = history.evicted \cup (DOMAIN Live \ DOMAIN K)
          /\ g.sources = history.sources /\ g.sids = history.sids + 1
        BY DEF MapInv, History
    <2> HIDE DEF g
    <2>3. DOMAIN K \subseteq DOMAIN Live /\ \A l \in DOMAIN K : K[l] = Live[l]
        BY <1>0, <1>1, KeptFacts
    <2> HIDE DEF K
    <2>4. b.queue = <<m>> /\ b.last = now
        BY <2>2, CreateFacts DEF MapInv
    <2> HIDE DEF b
    <2>5. DOMAIN N = DOMAIN K \cup {k} /\ N[k] = b /\ \A l \in DOMAIN K : N[l] = K[l]
        BY <1>5, <2>3 DEF Inserted
    <2> HIDE DEF N
    <2>6. Remembered(N, g)
        <3> SUFFICES ASSUME NEW p \in packets, PacketIds(p) \in g.dispatched, p.session \notin g.evicted,
                            ~(Ts(p) + MaxDiff < now)
                     PROVE  /\ p.session \in DOMAIN N
                            /\ p.id \in N[p.session].filter.accepted
                            /\ Ts(p) <= N[p.session].last + MaxDiff
            BY DEF Remembered
        <3>1. /\ p.session \in DOMAIN Live
              /\ p.id \in Live[p.session].filter.accepted
              /\ Ts(p) <= Live[p.session].last + MaxDiff
            BY <1>1, <2>2 DEF Remembered
        <3>2. p.session \in DOMAIN K /\ N[p.session] = Live[p.session]
            BY <2>2, <2>3, <2>5, <3>1
        <3> QED
            BY <2>5, <3>1, <3>2
    <2>7. ASSUME NEW l \in DOMAIN N, NEW i \in DOMAIN N[l].queue, NEW x, x = N[l].queue[i]
          PROVE  /\ \A p \in packets : PacketIds(p) = MessageIds(x) => Ts(p) <= N[l].last + MaxDiff
                 /\ MessageIds(x) \in g.dispatched /\ l \notin g.evicted => x.control.id \in N[l].filter.accepted
        <3>1. CASE l # k
            BY <1>1, <2>2, <2>3, <2>5, <2>7, <3>1 DEF Waiting
        <3>2. CASE l = k
            <4>1. x = m
                BY <2>4, <2>5, <2>7, <3>2
            <4>2. ~(MessageIds(m) \in history.dispatched /\ k \notin history.evicted)
                BY <1>1, <1>5, KnownAgain
            <4> QED
                BY <1>3, <2>2, <2>4, <2>5, <3>2, <4>1, <4>2
        <3> QED
            BY <3>1, <3>2
    <2>8. Waiting(N, g)
        BY <2>7 DEF Waiting
    <2>9. Recorded(g) /\ Once(g)
        BY <2>2 DEF Recorded, Once
    <2> QED
        BY <2>1, <2>6, <2>8, <2>9
<1> QED
    BY <1>4, <1>5

LEMMA TakenFields ==
    ASSUME NEW e, IsRecord(e)
    PROVE  Taken(e).filter = e.filter /\ Taken(e).last = e.last /\ Taken(e).queue = Tail(e.queue)
<1> DEFINE peer == IF Is2022(cfg.method) THEN Head(e.queue).peer ELSE e.peer
           q == Tail(e.queue)
<1>1. Taken(e) = [e EXCEPT !.queue = q, !.peer = peer]
    BY DEF Taken, IsRecord
<1> HIDE DEF q, peer
<1>2. Taken(e) = [last |-> e.last, peer |-> peer, queue |-> q, filter |-> e.filter, user |-> e.user,
                  sid |-> e.sid, pid |-> e.pid, flag |-> e.flag, sockets |-> e.sockets, flows |-> e.flows]
    BY <1>1 DEF IsRecord
<1> QED
    BY <1>2 DEF q

LEMMA SeenFields ==
    ASSUME NEW e, IsRecord(e), Is2022(cfg.method)
    PROVE  /\ Seen(e).last = e.last /\ Seen(e).queue = Tail(e.queue)
           /\ Seen(e).filter = Window!Remember(e.filter, Head(e.queue).control.id)
<1> DEFINE m == Head(e.queue)
           q == Tail(e.queue)
<1>1. Taken(e) = [e EXCEPT !.queue = q, !.peer = m.peer]
    BY DEF Taken, IsRecord
<1> HIDE DEF q, m
<1>2. Taken(e) = [last |-> e.last, peer |-> m.peer, queue |-> q, filter |-> e.filter, user |-> e.user,
                  sid |-> e.sid, pid |-> e.pid, flag |-> e.flag, sockets |-> e.sockets, flows |-> e.flows]
    BY <1>1 DEF IsRecord
<1>3. Seen(e) = [Taken(e) EXCEPT !.filter = Window!Remember(@, m.control.id), !.user = m.control.user]
    BY DEF Seen, m
<1> QED
    BY <1>2, <1>3 DEF q, m

\* dispatch_received_packet sends on what the filter does not know, and the
\* filter knows it from then on.
LEMMA DispatchMemory ==
    ASSUME PacketsInv, Is2022(cfg.method), MapInv(assoc, history),
           Remembered(assoc, history), Waiting(assoc, history), Recorded(history), Once(history),
           NEW k \in DOMAIN assoc, DispatchReceived(k)
    PROVE  /\ Remembered(assoc', history') /\ Waiting(assoc', history')
           /\ Recorded(history') /\ Once(history')
<1> DEFINE e == assoc[k]
           m == Head(e.queue)
<1>1. e.queue # <<>>
    BY DispatchParts, Zenon
<1>2. \/ assoc' = [assoc EXCEPT ![k] = Taken(e)] /\ UNCHANGED <<keepalive, history>>
      \/ /\ Validated(Taken(e), m)
         /\ \E b : SentOff(Seen(e), m.addr, b) /\ assoc' = [assoc EXCEPT ![k] = b]
         /\ history' = [history EXCEPT !.dispatched = @ \cup {MessageIds(m)},
                                       !.again = @ \cup (history.dispatched \cap {MessageIds(m)})]
    BY DispatchParts, Zenon
<1>3. e = assoc[k] /\ m = Head(e.queue)
    OBVIOUS
<1> HIDE DEF e, m
<1>4. Entry(history, k, e)
    BY <1>3 DEF MapInv, Table
<1>5. \A i \in DOMAIN Tail(e.queue) : i + 1 \in DOMAIN e.queue /\ Tail(e.queue)[i] = e.queue[i + 1]
    <2>1. e.queue \in Seq(Messages(history))
        BY <1>4 DEF Entry
    <2> QED
        BY <1>1, <2>1
<1>6. /\ m \in Messages(history) /\ m.control.session = k /\ 1 \in DOMAIN e.queue /\ m = e.queue[1]
      /\ Taken(e).filter = e.filter /\ Taken(e).last = e.last /\ Taken(e).queue = Tail(e.queue)
      /\ Seen(e).last = e.last /\ Seen(e).queue = Tail(e.queue)
      /\ Seen(e).filter = Window!Remember(e.filter, m.control.id)
    <2>1. IsRecord(e) /\ e.queue \in Seq(Messages(history))
        BY <1>4 DEF Entry
    <2>2. m \in Messages(history) /\ 1 \in DOMAIN e.queue /\ m = e.queue[1]
        BY <1>1, <1>3, <2>1
    <2>3. m.control.session = k
        BY <1>4, <2>2 DEF Entry
    <2>4. /\ Taken(e).filter = e.filter /\ Taken(e).last = e.last /\ Taken(e).queue = Tail(e.queue)
        BY <2>1, TakenFields
    <2>5. /\ Seen(e).last = e.last /\ Seen(e).queue = Tail(e.queue)
          /\ Seen(e).filter = Window!Remember(e.filter, m.control.id)
        BY <1>3, <2>1, SeenFields
    <2> QED
        BY <2>2, <2>3, <2>4, <2>5
<1>7. CASE assoc' = [assoc EXCEPT ![k] = Taken(e)] /\ UNCHANGED <<keepalive, history>>
    <2> DEFINE a == Taken(e)
               N == [assoc EXCEPT ![k] = a]
    <2>1. DOMAIN N = DOMAIN assoc /\ N[k] = a /\ \A l \in DOMAIN assoc : l # k => N[l] = assoc[l]
        OBVIOUS
    <2> HIDE DEF N, a
    <2>2. a.filter = e.filter /\ a.last = e.last /\ a.queue = Tail(e.queue)
        BY <1>6 DEF a
    <2>3. Remembered(N, history)
        BY <1>3, <2>1, <2>2 DEF Remembered
    <2>4. ASSUME NEW l \in DOMAIN N, NEW i \in DOMAIN N[l].queue, NEW x, x = N[l].queue[i]
          PROVE  /\ \A p \in packets : PacketIds(p) = MessageIds(x) => Ts(p) <= N[l].last + MaxDiff
                 /\ MessageIds(x) \in history.dispatched /\ l \notin history.evicted =>
                        x.control.id \in N[l].filter.accepted
        <3>1. CASE l # k
            BY <2>1, <2>4, <3>1 DEF Waiting
        <3>2. CASE l = k
            <4>1. i + 1 \in DOMAIN assoc[k].queue /\ x = assoc[k].queue[i + 1]
                BY <1>3, <1>5, <2>1, <2>2, <2>4, <3>2
            <4> QED
                BY <1>3, <2>1, <2>2, <3>2, <4>1 DEF Waiting
        <3> QED
            BY <3>1, <3>2
    <2>5. Waiting(N, history)
        BY <2>4 DEF Waiting
    <2> QED
        BY <1>7, <2>3, <2>5 DEF N, a
<1>8. CASE /\ Validated(Taken(e), m)
           /\ \E b : SentOff(Seen(e), m.addr, b) /\ assoc' = [assoc EXCEPT ![k] = b]
           /\ history' = [history EXCEPT !.dispatched = @ \cup {MessageIds(m)},
                                         !.again = @ \cup (history.dispatched \cap {MessageIds(m)})]
    <2> DEFINE sent == MessageIds(m)
               g == [history EXCEPT !.dispatched = @ \cup {sent}, !.again = @ \cup (history.dispatched \cap {sent})]
    <2>1. PICK b : SentOff(Seen(e), m.addr, b) /\ assoc' = [assoc EXCEPT ![k] = b]
        BY <1>8
    <2>2. b.filter = Seen(e).filter /\ b.queue = Seen(e).queue /\ b.last = Seen(e).last
        <3>1. Entry(history, k, Seen(e)) /\ m.addr # "mapped" /\ Answerable(k, Seen(e), m.addr)
            BY <1>1, <1>3, <1>4, TakenFacts
        <3> QED
            BY <2>1, <3>1, OutboundFacts
    <2>3. b.filter.accepted = e.filter.accepted \cup {m.control.id} /\ b.queue = Tail(e.queue) /\ b.last = e.last
        BY <1>6, <2>2 DEF Window!Remember
    <2>4. /\ g.dispatched = history.dispatched \cup {sent} /\ g.evicted = history.evicted
          /\ g.again = history.again \cup (history.dispatched \cap {sent})
        BY DEF MapInv, History
    <2>5. history' = g
        BY <1>8
    <2>6. sent[1] = k /\ sent[2] = m.control.id /\ sent = <<k, m.control.id>>
        BY <1>6 DEF MessageIds
    <2>7. m.control.id \notin e.filter.accepted
        BY <1>6, <1>8 DEF Validated, Window!Accepts
    <2>8. PICK p \in packets : PacketIds(p) = sent
        BY <1>6, MessageFacts
    <2> DEFINE N == [assoc EXCEPT ![k] = b]
    <2>9. DOMAIN N = DOMAIN assoc /\ N[k] = b /\ \A l \in DOMAIN assoc : l # k => N[l] = assoc[l]
        OBVIOUS
    <2>10. \A q \in packets : PacketIds(q) = sent => Ts(q) <= e.last + MaxDiff
        BY <1>3, <1>6 DEF Waiting
    <2>11. sent \in history.dispatched => k \in history.evicted
        BY <1>3, <1>6, <2>7 DEF Waiting
    <2> HIDE DEF N, g, sent
    <2>12. Recorded(g) /\ Once(g)
        BY <2>4, <2>6, <2>8, <2>11 DEF Recorded, Once
    <2>13. Remembered(N, g)
        <3> SUFFICES ASSUME NEW q \in packets, PacketIds(q) \in g.dispatched, q.session \notin g.evicted,
                            ~(Ts(q) + MaxDiff < now)
                     PROVE  /\ q.session \in DOMAIN N
                            /\ q.id \in N[q.session].filter.accepted
                            /\ Ts(q) <= N[q.session].last + MaxDiff
            BY DEF Remembered
        <3>1. CASE PacketIds(q) = sent
            <4>1. q.session = k /\ q.id = m.control.id
                BY <2>6, <3>1 DEF PacketIds
            <4> QED
                BY <2>3, <2>9, <2>10, <3>1, <4>1
        <3>2. CASE PacketIds(q) # sent
            <4>1. /\ q.session \in DOMAIN assoc
                  /\ q.id \in assoc[q.session].filter.accepted
                  /\ Ts(q) <= assoc[q.session].last + MaxDiff
                BY <2>4, <3>2 DEF Remembered
            <4> QED
                BY <1>3, <2>3, <2>9, <4>1
        <3> QED
            BY <3>1, <3>2
    <2>14. ASSUME NEW l \in DOMAIN N, NEW i \in DOMAIN N[l].queue, NEW x, x = N[l].queue[i]
           PROVE  /\ \A q \in packets : PacketIds(q) = MessageIds(x) => Ts(q) <= N[l].last + MaxDiff
                  /\ MessageIds(x) \in g.dispatched /\ l \notin g.evicted => x.control.id \in N[l].filter.accepted
        <3>1. CASE l # k
            <4>1. x.control.session = l
                <5>1. Entry(history, l, assoc[l])
                    BY <2>9 DEF MapInv, Table
                <5> QED
                    BY <2>9, <2>14, <3>1, <5>1 DEF Entry
            <4>2. MessageIds(x) # sent
                BY <2>6, <3>1, <4>1 DEF MessageIds
            <4> QED
                BY <2>4, <2>9, <2>14, <3>1, <4>2 DEF Waiting
        <3>2. CASE l = k
            <4>1. i + 1 \in DOMAIN assoc[k].queue /\ x = assoc[k].queue[i + 1]
                BY <1>3, <1>5, <2>3, <2>9, <2>14, <3>2
            <4>2. /\ \A q \in packets : PacketIds(q) = MessageIds(x) => Ts(q) <= e.last + MaxDiff
                  /\ MessageIds(x) \in history.dispatched /\ k \notin history.evicted =>
                        x.control.id \in e.filter.accepted
                BY <1>3, <4>1 DEF Waiting
            <4>3. MessageIds(x) = sent => x.control.id = m.control.id
                BY <2>6 DEF MessageIds
            <4> QED
                BY <2>3, <2>4, <2>9, <3>2, <4>2, <4>3
        <3> QED
            BY <3>1, <3>2
    <2>15. Waiting(N, g)
        BY <2>14 DEF Waiting
    <2> QED
        BY <2>1, <2>5, <2>12, <2>13, <2>15 DEF N
<1> QED
    BY <1>2, <1>7, <1>8

\* The entry is the same as far as its filter and its queue go.
SameMemory(M, N) ==
    /\ DOMAIN N = DOMAIN M
    /\ \A k \in DOMAIN M : N[k].last = M[k].last /\ N[k].filter = M[k].filter /\ N[k].queue = M[k].queue

LEMMA TaskMemory ==
    ASSUME MapInv(assoc, history), NEW k \in DOMAIN assoc, Respond(k) \/ OutboundFails(k) \/ KeepAliveTick(k)
    PROVE  SameMemory(assoc, assoc')
<1> DEFINE e == assoc[k]
<1>0. IsRecord(e)
    BY DEF MapInv, Table, Entry
<1>1. ASSUME NEW a, assoc' = [assoc EXCEPT ![k] = a], a.last = e.last, a.filter = e.filter, a.queue = e.queue
      PROVE  SameMemory(assoc, assoc')
    BY <1>1 DEF SameMemory
<1>2. \A x : LET a == [e EXCEPT !.flag = x] IN
             /\ a.last = e.last /\ a.filter = e.filter /\ a.queue = e.queue
             /\ \A n : LET b == [a EXCEPT !.pid = n] IN
                       b.last = e.last /\ b.filter = e.filter /\ b.queue = e.queue
    <2> HIDE DEF e
    <2> QED
        BY <1>0 DEF IsRecord
<1>3. CASE Respond(k)
    <2> DEFINE a == [e EXCEPT !.flag = TRUE]
    <2>1. \E n : assoc' = [assoc EXCEPT ![k] = a] \/ assoc' = [assoc EXCEPT ![k] = [a EXCEPT !.pid = n]]
        BY <1>3 DEF Respond
    <2>2. PICK n : assoc' = [assoc EXCEPT ![k] = a] \/ assoc' = [assoc EXCEPT ![k] = [a EXCEPT !.pid = n]]
        BY <2>1
    <2> DEFINE b == [a EXCEPT !.pid = n]
    <2>3. /\ a.last = e.last /\ a.filter = e.filter /\ a.queue = e.queue
          /\ b.last = e.last /\ b.filter = e.filter /\ b.queue = e.queue
        BY <1>2, Zenon
    <2>4. assoc' = [assoc EXCEPT ![k] = a] \/ assoc' = [assoc EXCEPT ![k] = b]
        BY <2>2
    <2> HIDE DEF a, b, e
    <2> QED
        BY <1>1, <2>3, <2>4
<1>4. CASE OutboundFails(k)
    <2> DEFINE Without(s, F) == [e EXCEPT !.sockets = @ \ {s}, !.flows = F]
    <2>1. PICK s \in e.sockets : assoc' = [assoc EXCEPT ![k] = Without(s, {f \in e.flows : f[1] # s})]
        BY <1>0, <1>4 DEF OutboundFails, IsRecord
    <2> DEFINE F == {f \in e.flows : f[1] # s}
               a == Without(s, F)
    <2>2. assoc' = [assoc EXCEPT ![k] = a]
        BY <2>1
    <2> HIDE DEF F, e
    <2>3. a.last = e.last /\ a.filter = e.filter /\ a.queue = e.queue
        BY <1>0 DEF IsRecord
    <2> HIDE DEF a
    <2> QED
        BY <1>1, <2>2, <2>3
<1>5. CASE KeepAliveTick(k)
    <2> DEFINE a == [e EXCEPT !.flag = FALSE]
    <2>1. assoc' = [assoc EXCEPT ![k] = a]
        BY <1>5 DEF KeepAliveTick
    <2>2. a.last = e.last /\ a.filter = e.filter /\ a.queue = e.queue
        BY <1>2, Zenon
    <2> HIDE DEF a, e
    <2> QED
        BY <1>1, <2>1, <2>2
<1> QED
    BY <1>3, <1>4, <1>5

LEMMA SameMemoryKept ==
    ASSUME NEW M, NEW N, SameMemory(M, N), NEW h, NEW g, g.dispatched = h.dispatched, g.evicted = h.evicted,
           Remembered(M, h), Waiting(M, h)
    PROVE  Remembered(N, g) /\ Waiting(N, g)
<1>1. Remembered(N, g)
    BY DEF Remembered, SameMemory
<1>2. Waiting(N, g)
    BY DEF Waiting, SameMemory
<1> QED
    BY <1>1, <1>2

\* A message in flight is not one of a packet that is sent only now.
LEMMA SendsMemory ==
    ASSUME ServerInv, ReplayInv, Is2022(cfg.method), NEW s \in Sessions, Sends(s)
    PROVE  ReplayInv'
<1>1. PacketsInv /\ Flight(history) /\ MapInv(assoc, history)
    BY DEF ServerInv
<1>2. packets \subseteq packets' /\ \A p \in packets' \ packets : \A q \in packets : PacketIds(p) # PacketIds(q)
    BY <1>1, SendsStep
<1>3. UNCHANGED <<cfg, now, recv, chan, assoc, keepalive, history>>
    BY DEF Sends
<1>4. \A m \in Messages(history) : \E q \in packets : PacketIds(q) = MessageIds(m)
    BY <1>1, MessageFacts
<1>5. /\ Recorded(history) /\ Once(history) /\ FlightIsFresh
      /\ Remembered(assoc, history) /\ Waiting(assoc, history)
    BY DEF ReplayInv
<1>6. \A m \in Messages(history) : \A p \in packets' : PacketIds(p) = MessageIds(m) => p \in packets
    BY <1>2, <1>4
<1>7. \A p \in packets' : PacketIds(p) \in history.dispatched => p \in packets
    BY <1>2, <1>5 DEF Recorded
<1>8. Recorded(history)' /\ Once(history)'
    BY <1>2, <1>3, <1>5 DEF Recorded, Once, PacketIds
<1>9. Remembered(assoc, history)'
    BY <1>3, <1>5, <1>7 DEF Remembered, PacketIds, Ts
<1>10. \A k \in DOMAIN assoc : \A i \in DOMAIN assoc[k].queue : assoc[k].queue[i] \in Messages(history)
    <2> SUFFICES ASSUME NEW k \in DOMAIN assoc, NEW i \in DOMAIN assoc[k].queue
                 PROVE  assoc[k].queue[i] \in Messages(history)
        OBVIOUS
    <2>1. assoc[k].queue \in Seq(Messages(history))
        BY <1>1 DEF MapInv, Table, Entry
    <2> QED
        BY <2>1
<1>11. Waiting(assoc, history)'
    <2> SUFFICES ASSUME NEW k \in DOMAIN assoc, NEW i \in DOMAIN assoc[k].queue,
                        NEW m, m = assoc[k].queue[i]
                 PROVE  /\ \A p \in packets' : PacketIds(p) = MessageIds(m) => Ts(p) <= assoc[k].last + MaxDiff
                        /\ MessageIds(m) \in history.dispatched /\ k \notin history.evicted =>
                              m.control.id \in assoc[k].filter.accepted
        BY <1>3 DEF Waiting, PacketIds, Ts, MessageIds
    <2>1. \A p \in packets' : PacketIds(p) = MessageIds(m) => p \in packets
        BY <1>6, <1>10
    <2> QED
        BY <1>5, <2>1 DEF Waiting
<1>12. \A m \in Messages(history) : Fresh(m) => Fresh(m)'
    BY <1>3, <1>6 DEF Fresh, PacketIds, Ts, MessageIds
<1>13. /\ \A r \in Receivers : recv[r] # Idle => recv[r] \in Messages(history)
       /\ \A i \in DOMAIN chan : chan[i] \in Messages(history)
    BY <1>1 DEF Flight
<1>14. FlightIsFresh'
    <2>1. \A r \in Receivers : recv[r] # Idle => Fresh(recv[r])'
        <3> SUFFICES ASSUME NEW r \in Receivers, recv[r] # Idle PROVE Fresh(recv[r])'
            OBVIOUS
        <3>1. PICK m : m = recv[r]
            OBVIOUS
        <3>2. Fresh(m)'
            BY <1>5, <1>12, <1>13, <3>1 DEF FlightIsFresh
        <3> QED
            BY <1>3, <3>1, <3>2
    <2>2. \A i \in DOMAIN chan : Fresh(chan[i])'
        <3> SUFFICES ASSUME NEW i \in DOMAIN chan PROVE Fresh(chan[i])'
            OBVIOUS
        <3>1. PICK m : m = chan[i]
            OBVIOUS
        <3>2. Fresh(m)'
            BY <1>5, <1>12, <1>13, <3>1 DEF FlightIsFresh
        <3> QED
            BY <1>3, <3>1, <3>2
    <2>3. Idle' = Idle
        BY DEF Idle, NoControl
    <2> QED
        BY <1>3, <2>1, <2>2, <2>3 DEF FlightIsFresh
<1> QED
    BY <1>8, <1>9, <1>11, <1>14 DEF ReplayInv

\* A packet comes in: it is as fresh as its timestamp.
LEMMA ReceiveMemory ==
    ASSUME ServerInv, ReplayInv, Is2022(cfg.method), NEW r \in Receivers, RecvOnePacket(r)
    PROVE  ReplayInv'
<1>0. PacketsInv
    BY DEF ServerInv
<1>1. /\ Recorded(history) /\ Once(history) /\ FlightIsFresh
      /\ Remembered(assoc, history) /\ Waiting(assoc, history)
    BY DEF ReplayInv
<1>2. /\ history'.dispatched = history.dispatched /\ history'.again = history.again
      /\ history'.evicted = history.evicted
      /\ UNCHANGED <<cfg, now, packets, chan, assoc, keepalive>>
    BY ReceiveFacts
<1>3. PICK p \in packets, m \in Messages(history') :
        recv' = [recv EXCEPT ![r] = m] /\ AbsDiff(now, Ts(p)) <= MaxDiff /\ MessageIds(m) = PacketIds(p)
    BY ReceiveFacts
<1>4. Fresh(m)
    <2>1. now \in Nat /\ Ts(p) \in Nat
        BY <1>0, TimestampType DEF PacketsInv
    <2>2. now <= Ts(p) + MaxDiff /\ Ts(p) <= now + MaxDiff
        BY <1>3, <2>1, Limits DEF AbsDiff
    <2>3. \A q \in packets : PacketIds(q) = MessageIds(m) => q = p
        BY <1>0, <1>3 DEF PacketsInv
    <2> QED
        BY <2>2, <2>3 DEF Fresh
<1>5. \A x \in Receivers : recv'[x] # Idle => Fresh(recv'[x])
    <2>1. recv \in [Receivers -> Messages(history) \cup {Idle}]
        BY DEF ServerInv, Flight
    <2> QED
        BY <1>1, <1>3, <1>4, <2>1 DEF FlightIsFresh
<1>6. \A i \in DOMAIN chan' : Fresh(chan'[i])
    BY <1>1, <1>2 DEF FlightIsFresh
<1>7. Remembered(assoc', history') /\ Waiting(assoc', history')
    <2>1. SameMemory(assoc, assoc')
        BY <1>2 DEF SameMemory
    <2> QED
        BY <1>1, <1>2, <2>1, SameMemoryKept
<1>8. Recorded(history') /\ Once(history')
    BY <1>1, <1>2 DEF Recorded, Once
<1> QED
    BY <1>2, <1>5, <1>6, <1>7, <1>8, ReplayKept

LEMMA ReplayStep ==
    ASSUME SessionsOutlivePackets, ServerInv, ReplayInv, [ServerNext]_serverVars
    PROVE  ReplayInv'
<1> SUFFICES ASSUME Is2022(cfg.method) PROVE ReplayInv'
    <2>1. UNCHANGED cfg
        BY DEF ServerNext, serverVars, Sends, RecvOnePacket, MainReceived, ExtraReceived, MulticoreRecv,
               CleanupExpired, KeepAlive, DispatchReceived, Respond, OutboundFails, KeepAliveTick, Tick
    <2>2. Is2022(cfg.method)' <=> Is2022(cfg.method)
        BY <2>1
    <2> QED
        BY <2>2 DEF ReplayInv
<1>1. PacketsInv /\ Flight(history) /\ MapInv(assoc, history)
    BY DEF ServerInv
<1>2. /\ Recorded(history) /\ Once(history) /\ FlightIsFresh
      /\ Remembered(assoc, history) /\ Waiting(assoc, history)
    BY DEF ReplayInv
<1>3. /\ recv \in [Receivers -> Messages(history) \cup {Idle}]
      /\ chan \in Seq(Messages(history))
      /\ \A r \in Receivers : recv[r] # Idle => Fresh(recv[r])
      /\ \A i \in DOMAIN chan : Fresh(chan[i])
      /\ "main" \in Receivers /\ "extra" \in Receivers
    BY <1>1, <1>2 DEF Flight, FlightIsFresh, Receivers
<1>4. \A x \in Receivers : recv' = [recv EXCEPT ![x] = Idle] =>
        \A r \in Receivers : recv'[r] # Idle => Fresh(recv'[r])
    BY <1>3
<1>5. CASE MainReceived
    <2>1. UNCHANGED <<cfg, now, packets, chan, keepalive>> /\ recv' = [recv EXCEPT !["main"] = Idle]
        BY <1>5 DEF MainReceived
    <2>2. recv["main"] \in Messages(history) /\ Fresh(recv["main"])
        BY <1>3, <1>5 DEF MainReceived
    <2>3. /\ Remembered(assoc', history') /\ Waiting(assoc', history')
          /\ Recorded(history') /\ Once(history')
        <3>1. CASE UNCHANGED <<assoc, history>>
            BY <1>2, <3>1
        <3>2. CASE SendPacket(recv["main"])
            BY <1>1, <1>2, <2>2, <3>2, SendPacketMemory
        <3> QED
            BY <1>5, <3>1, <3>2 DEF MainReceived
    <2>4. \A r \in Receivers : recv'[r] # Idle => Fresh(recv'[r])
        BY <1>3, <1>4, <2>1
    <2>5. \A i \in DOMAIN chan' : Fresh(chan'[i])
        BY <1>3, <2>1
    <2> QED
        BY <2>1, <2>3, <2>4, <2>5, ReplayKept
<1>6. CASE ExtraReceived
    <2>1. UNCHANGED <<cfg, now, packets, assoc, keepalive, history>> /\ recv' = [recv EXCEPT !["extra"] = Idle]
        BY <1>6 DEF ExtraReceived
    <2>2. recv["extra"] \in Messages(history) /\ Fresh(recv["extra"])
        BY <1>3, <1>6 DEF ExtraReceived
    <2>3. \A i \in DOMAIN chan' : Fresh(chan'[i])
        <3>1. CASE UNCHANGED chan
            BY <1>3, <3>1
        <3>2. CASE chan' = Append(chan, recv["extra"])
            <4>1. \A i \in DOMAIN chan' : (i \in DOMAIN chan /\ chan'[i] = chan[i]) \/ chan'[i] = recv["extra"]
                BY <1>3, <2>2, <3>2
            <4> QED
                BY <1>3, <2>2, <4>1
        <3> QED
            BY <1>6, <3>1, <3>2 DEF ExtraReceived
    <2>4. \A r \in Receivers : recv'[r] # Idle => Fresh(recv'[r])
        BY <1>3, <1>4, <2>1
    <2> QED
        BY <1>2, <2>1, <2>3, <2>4, ReplayKept
<1>7. CASE MulticoreRecv
    <2>1. /\ UNCHANGED <<cfg, now, packets, keepalive>> /\ recv' = [recv EXCEPT !["main"] = Idle]
          /\ chan' = Tail(chan) /\ SendPacket(Head(chan)) /\ chan # <<>>
        BY <1>7 DEF MulticoreRecv, Cancelled
    <2>2. Head(chan) \in Messages(history) /\ Head(chan) = chan[1] /\ 1 \in DOMAIN chan
        BY <1>3, <2>1
    <2>3. Fresh(Head(chan))
        BY <1>3, <2>2
    <2>4. /\ Remembered(assoc', history') /\ Waiting(assoc', history')
          /\ Recorded(history') /\ Once(history')
        BY <1>1, <1>2, <2>1, <2>2, <2>3, SendPacketMemory
    <2>5. \A i \in DOMAIN chan' : Fresh(chan'[i])
        <3>1. \A i \in DOMAIN chan' : i + 1 \in DOMAIN chan /\ chan'[i] = chan[i + 1]
            BY <1>3, <2>1
        <3> QED
            BY <1>3, <3>1
    <2>6. \A r \in Receivers : recv'[r] # Idle => Fresh(recv'[r])
        BY <1>3, <1>4, <2>1
    <2> QED
        BY <2>1, <2>4, <2>5, <2>6, ReplayKept
<1>8. CASE CleanupExpired
    <2>1. /\ UNCHANGED <<cfg, now, packets, chan, keepalive, history>> /\ recv' = [recv EXCEPT !["main"] = Idle]
          /\ assoc' = Live
        BY <1>8 DEF CleanupExpired, Cancelled
    <2>2. Remembered(assoc', history') /\ Waiting(assoc', history')
        BY <1>1, <1>2, <2>1, ExpiredAreOld
    <2>3. \A r \in Receivers : recv'[r] # Idle => Fresh(recv'[r])
        BY <1>3, <1>4, <2>1
    <2> QED
        BY <1>2, <1>3, <2>1, <2>2, <2>3, ReplayKept
<1>9. CASE KeepAlive
    <2> DEFINE k == Head(keepalive.queue)
    <2>1. /\ UNCHANGED <<cfg, now, packets, chan, history>> /\ recv' = [recv EXCEPT !["main"] = Idle]
          /\ assoc' = IF k \in DOMAIN Live THEN [Live EXCEPT ![k] = [Live[k] EXCEPT !.last = now]] ELSE Live
        BY <1>9 DEF KeepAlive, Cancelled
    <2>2. Remembered(Live, history) /\ Waiting(Live, history) /\ MapInv(Live, history)
        BY <1>1, <1>2, ExpiredAreOld, LiveFacts
    <2> HIDE DEF k
    <2>3. \A l \in DOMAIN Live : IsRecord(Live[l]) /\ Live[l].last \in Nat /\ Live[l].last <= now /\ now \in Nat
        BY <1>1, <2>2 DEF MapInv, Table, Entry, PacketsInv
    <2>4. DOMAIN assoc' = DOMAIN Live
        BY <2>1
    <2>5. ASSUME NEW l \in DOMAIN assoc'
          PROVE  /\ l \in DOMAIN Live /\ Live[l].last \in Nat /\ assoc'[l].last \in Nat
                 /\ Live[l].last <= assoc'[l].last
                 /\ assoc'[l].filter = Live[l].filter /\ assoc'[l].queue = Live[l].queue
        <3>1. l \in DOMAIN Live /\ IsRecord(Live[l]) /\ Live[l].last \in Nat /\ Live[l].last <= now /\ now \in Nat
            BY <2>3, <2>4
        <3>2. assoc'[l] = Live[l] \/ assoc'[l] = [Live[l] EXCEPT !.last = now]
            BY <2>1, <3>1
        <3>3. CASE assoc'[l] = Live[l]
            BY <3>1, <3>3
        <3>4. CASE assoc'[l] = [Live[l] EXCEPT !.last = now]
            <4> DEFINE e == Live[l]
            <4>1. assoc'[l] = [e EXCEPT !.last = now] /\ IsRecord(e)
                BY <3>1, <3>4
            <4> HIDE DEF e
            <4>2. assoc'[l].last = now /\ assoc'[l].filter = e.filter /\ assoc'[l].queue = e.queue
                BY <4>1 DEF IsRecord
            <4> QED
                BY <3>1, <4>2 DEF e
        <3> QED
            BY <3>2, <3>3, <3>4
    <2>6. Remembered(assoc', history) /\ Waiting(assoc', history)
        BY <1>1, <2>2, <2>4, <2>5, MemoryKept
    <2>7. \A r \in Receivers : recv'[r] # Idle => Fresh(recv'[r])
        BY <1>3, <1>4, <2>1
    <2> QED
        BY <1>2, <1>3, <2>1, <2>6, <2>7, ReplayKept
<1>10. ASSUME NEW k \in DOMAIN assoc, DispatchReceived(k) PROVE ReplayInv'
    <2>1. UNCHANGED <<cfg, now, packets, recv, chan>>
        BY <1>10 DEF DispatchReceived
    <2>2. /\ Remembered(assoc', history') /\ Waiting(assoc', history')
          /\ Recorded(history') /\ Once(history')
        BY <1>1, <1>2, <1>10, DispatchMemory
    <2> QED
        BY <1>3, <2>1, <2>2, ReplayKept
<1>11. ASSUME NEW k \in DOMAIN assoc, Respond(k) \/ OutboundFails(k) \/ KeepAliveTick(k) PROVE ReplayInv'
    <2>1. UNCHANGED <<cfg, now, packets, recv, chan>>
        BY <1>11 DEF Respond, OutboundFails, KeepAliveTick
    <2>2. /\ history'.dispatched = history.dispatched /\ history'.evicted = history.evicted
          /\ history'.again = history.again
        <3>1. history' = history \/ \E x : history' = [history EXCEPT !.answers = x]
            BY <1>11 DEF Respond, OutboundFails, KeepAliveTick
        <3> QED
            BY <1>1, <3>1 DEF MapInv, History
    <2>3. Remembered(assoc', history') /\ Waiting(assoc', history')
        BY <1>1, <1>2, <1>11, <2>2, TaskMemory, SameMemoryKept
    <2>4. Recorded(history') /\ Once(history')
        BY <1>2, <2>2 DEF Recorded, Once
    <2> QED
        BY <1>3, <2>1, <2>3, <2>4, ReplayKept
<1>12. CASE Tick
    <2>1. UNCHANGED <<cfg, packets, recv, chan, assoc, keepalive, history>> /\ now' = now + 1
          /\ chan = <<>> /\ \A r \in Receivers : recv[r] = Idle
        BY <1>12 DEF Tick
    <2>2. Recorded(history)' /\ Once(history)'
        BY <1>2, <2>1 DEF Recorded, Once, PacketIds
    <2>3. Idle' = Idle
        BY DEF Idle, NoControl
    <2>4. FlightIsFresh'
        BY <2>1, <2>3 DEF FlightIsFresh
    <2>5. \A p \in packets : Ts(p) + MaxDiff < now => Ts(p) + MaxDiff < now'
        BY <1>1, <2>1, TimestampType, Limits DEF PacketsInv
    <2>6. Remembered(assoc, history)'
        BY <1>2, <2>1, <2>5 DEF Remembered, PacketIds, Ts
    <2>7. Waiting(assoc, history)'
        BY <1>2, <2>1 DEF Waiting, PacketIds, Ts, MessageIds
    <2> QED
        BY <2>2, <2>4, <2>6, <2>7 DEF ReplayInv
<1>13. CASE UNCHANGED serverVars
    <2>1. UNCHANGED <<cfg, now, packets, recv, chan, assoc, keepalive, history>>
        BY <1>13 DEF serverVars
    <2> QED
        BY <1>2, <1>3, <2>1, ReplayKept
<1> QED
    BY <1>5, <1>6, <1>7, <1>8, <1>9, <1>10, <1>11, <1>12, <1>13, SendsMemory, ReceiveMemory DEF ServerNext

LEMMA ReplayInitInv == ServerInit => ReplayInv
<1> SUFFICES ASSUME ServerInit PROVE ReplayInv
    OBVIOUS
<1>1. /\ DOMAIN assoc = {} /\ packets = {} /\ history.dispatched = {} /\ history.again = {}
      /\ chan = <<>> /\ \A r \in Receivers : recv[r] = Idle
    BY DEF ServerInit
<1> QED
    BY <1>1 DEF ReplayInv, Recorded, Once, FlightIsFresh, Remembered, Waiting

\* What ssserver sends on (dispatch_received_packet) is a key holder's packet,
\* and for AEAD-2022 each one once unless its session was evicted, within the
\* room of its queues and its map: for any settings, if sessions live at least
\* as long as their packets' timestamps are accepted.
THEOREM PacketsAreServedOnce == SessionsOutlivePackets => (ServerSpec => []PacketsServedOnce)
<1> SUFFICES ASSUME SessionsOutlivePackets PROVE ServerSpec => []PacketsServedOnce
    OBVIOUS
<1> DEFINE Inv == ServerInv /\ ReplayInv
<1>1. ServerInit => Inv
    BY ServerInitInv, ReplayInitInv
<1>2. Inv /\ [ServerNext]_serverVars => Inv'
    BY ServerStep, ReplayStep
<1>3. Inv => PacketsServedOnce
    <2> SUFFICES ASSUME Inv PROVE PacketsServedOnce
        OBVIOUS
    <2>1. ServerTypeOK
        BY DEF ServerInv, Flight, MapInv, Table, Entry, ServerTypeOK, Sockets
    <2>2. DispatchedOnce
        BY DEF ReplayInv, Once, DispatchedOnce
    <2>3. OnlyKeyHolders
        BY DEF ServerInv, MapInv, History, OnlyKeyHolders, MayBeServed
    <2> QED
        BY <2>1, <2>2, <2>3 DEF PacketsServedOnce
<1> QED
    BY <1>1, <1>2, <1>3, PTL DEF ServerSpec

-----------------------------------------------------------------------------
(***************************************************************************)
(* The ring of packet_window.rs implements the abstract replay window, for *)
(* every block size, ring size and limit.  The argument rests on three     *)
(* facts of arithmetic (DivMod, ModUnique, DivMono): blocks less than a    *)
(* ring apart have different slots, so recycling one never disturbs        *)
(* another that is still in the window.                                    *)
(***************************************************************************)

LEMMA DivMod ==
    \A a \in Nat, n \in Nat \ {0} :
        /\ a \div n \in Nat
        /\ a % n \in 0 .. n - 1
        /\ a = n * (a \div n) + (a % n)
BY Z3

\* Numbers less than n apart have different remainders.
LEMMA ModUnique ==
    \A a, b \in Nat, n \in Nat \ {0} : a < b /\ b < a + n => a % n # b % n
<1> SUFFICES ASSUME NEW a \in Nat, NEW b \in Nat, NEW n \in Nat \ {0},
                    a < b, b < a + n, a % n = b % n
             PROVE  FALSE
    OBVIOUS
<1>1. a = n * (a \div n) + (a % n) /\ b = n * (b \div n) + (b % n)
    BY DivMod
<1> DEFINE k == b \div n - a \div n
<1>2. k \in Int /\ n * k = b - a
    BY <1>1, DivMod
<1>3. k > 0 => n * k >= n
    BY <1>2, DivMod
<1>4. k <= 0 => n * k <= 0
    BY <1>2
<1> QED
    BY <1>2, <1>3, <1>4

\* Division by n is monotone, also up to a multiple of n.
LEMMA DivMono ==
    \A a, b, m \in Nat, n \in Nat \ {0} : a <= b + m * n => a \div n <= b \div n + m
<1> SUFFICES ASSUME NEW a \in Nat, NEW b \in Nat, NEW m \in Nat, NEW n \in Nat \ {0},
                    a <= b + m * n, b \div n + m < a \div n
             PROVE  FALSE
    BY DivMod
<1>1. a = n * (a \div n) + (a % n) /\ b = n * (b \div n) + (b % n)
    BY DivMod
<1>2. n * (b \div n) + m * n + n <= n * (a \div n)
    <2>1. b \div n + m + 1 <= a \div n
        BY DivMod
    <2>2. n * (b \div n + m + 1) <= n * (a \div n)
        BY <2>1, DivMod
    <2>3. \A q \in Nat : n * (q + m + 1) = n * q + m * n + n
        OBVIOUS
    <2> QED
        BY <2>2, <2>3, DivMod
<1> QED
    BY <1>1, <1>2, DivMod

-----------------------------------------------------------------------------
(***************************************************************************)
(* What the names of the module stand for.                                 *)
(***************************************************************************)

LEMMA Coordinates ==
    \A id \in Nat : /\ Block(id) \in Nat
                    /\ Slot(Block(id)) \in Slots
                    /\ Bit(id) \in Bits
BY DivMod, BlockBitsAssumption, RingBlocksAssumption DEF Block, Slot, Bit, Slots, Bits

\* Block and bit determine the packet id.
LEMMA SameId ==
    \A i, j \in Nat : Block(i) = Block(j) /\ Bit(i) = Bit(j) => i = j
<1> SUFFICES ASSUME NEW i \in Nat, NEW j \in Nat, Block(i) = Block(j), Bit(i) = Bit(j)
             PROVE  i = j
    OBVIOUS
<1>1. /\ i = BLOCK_BITS * (i \div BLOCK_BITS) + (i % BLOCK_BITS)
      /\ j = BLOCK_BITS * (j \div BLOCK_BITS) + (j % BLOCK_BITS)
    BY DivMod, BlockBitsAssumption
<1> QED
    BY <1>1 DEF Block, Bit

\* Two blocks of the same ring have different slots.
LEMMA SameSlot ==
    \A b, c, top \in Nat :
        /\ b <= top /\ top < b + RING_BLOCKS
        /\ c <= top /\ top < c + RING_BLOCKS
        /\ Slot(b) = Slot(c)
        => b = c
<1> SUFFICES ASSUME NEW b \in Nat, NEW c \in Nat, NEW top \in Nat,
                    b <= top, top < b + RING_BLOCKS,
                    c <= top, top < c + RING_BLOCKS, Slot(b) = Slot(c), b # c
             PROVE  FALSE
    OBVIOUS
<1>1. (b < c /\ c < b + RING_BLOCKS) \/ (c < b /\ b < c + RING_BLOCKS)
    BY RingBlocksAssumption
<1> QED
    BY <1>1, ModUnique, RingBlocksAssumption DEF Slot

\* Adding a multiple of n does not change the remainder.
LEMMA ModShift ==
    \A x, q \in Nat, n \in Nat \ {0} : (x + n * q) % n = x % n
<1> SUFFICES ASSUME NEW x \in Nat, NEW q \in Nat, NEW n \in Nat \ {0}
             PROVE  (x + n * q) % n = x % n
    OBVIOUS
<1> DEFINE y == x + n * q
           k == y \div n - x \div n - q
<1>0. n * q \in Nat /\ y \in Nat
    OBVIOUS
<1>1. /\ x = n * (x \div n) + (x % n) /\ y = n * (y \div n) + (y % n)
      /\ x % n \in 0 .. n - 1 /\ y % n \in 0 .. n - 1
      /\ x \div n \in Nat /\ y \div n \in Nat
    BY <1>0, DivMod
<1>2. k \in Int /\ n * k = (x % n) - (y % n)
    BY <1>1
<1>3. k > 0 => n * k >= n
    BY <1>2
<1>4. k < 0 => n * k <= 0 - n
    BY <1>2
<1>5. k = 0
    BY <1>1, <1>2, <1>3, <1>4
<1> QED
    BY <1>1, <1>2, <1>5

\* A whole ring of consecutive blocks takes every slot.
LEMMA RingOfSlots ==
    \A c, b \in Nat : b > c => \E d \in 1 .. RING_BLOCKS : Slot(c + d) = Slot(b)
<1> SUFFICES ASSUME NEW c \in Nat, NEW b \in Nat, b > c
             PROVE  \E d \in 1 .. RING_BLOCKS : Slot(c + d) = Slot(b)
    OBVIOUS
<1> DEFINE x == b - c - 1
           r == x % RING_BLOCKS
           q == x \div RING_BLOCKS
<1>0. x \in Nat
    OBVIOUS
<1>1. r \in 0 .. RING_BLOCKS - 1 /\ q \in Nat /\ x = RING_BLOCKS * q + r
    BY <1>0, DivMod, RingBlocksAssumption
<1>2. b = (c + (r + 1)) + RING_BLOCKS * q /\ r + 1 \in 1 .. RING_BLOCKS
    BY <1>1, RingBlocksAssumption
<1>3. Slot(c + (r + 1)) = Slot(b)
    <2>1. c + (r + 1) \in Nat
        BY <1>1
    <2> HIDE DEF r, q
    <2> QED
        BY <1>1, <1>2, <2>1, ModShift, RingBlocksAssumption DEF Slot
<1> QED
    BY <1>2, <1>3

LEMMA BlockMono ==
    \A i, j \in Nat : i <= j => Block(i) <= Block(j)
<1> SUFFICES ASSUME NEW i \in Nat, NEW j \in Nat, i <= j
             PROVE  Block(i) <= Block(j)
    OBVIOUS
<1>1. i <= j + 0 * BLOCK_BITS
    BY BlockBitsAssumption
<1> QED
    BY <1>1, DivMono, DivMod, BlockBitsAssumption DEF Block

\* An id that is not behind the window has its block in the ring.
LEMMA WindowInRing ==
    \A i, j \in Nat : j - i <= WINDOW_SIZE => Block(j) < Block(i) + RING_BLOCKS
<1> SUFFICES ASSUME NEW i \in Nat, NEW j \in Nat, j - i <= WINDOW_SIZE
             PROVE  Block(j) < Block(i) + RING_BLOCKS
    OBVIOUS
<1>1. RING_BLOCKS - 1 \in Nat
    BY RingBlocksAssumption
<1>2. j <= i + (RING_BLOCKS - 1) * BLOCK_BITS
    BY <1>1, BlockBitsAssumption DEF WINDOW_SIZE
<1>3. Block(j) <= Block(i) + (RING_BLOCKS - 1)
    BY <1>1, <1>2, DivMono, BlockBitsAssumption DEF Block
<1> QED
    BY <1>3, Coordinates, RingBlocksAssumption

-----------------------------------------------------------------------------
(***************************************************************************)
(* The inductive invariant.                                                *)
(***************************************************************************)

WindowInv ==
    /\ TypeOK
    /\ accepted \subseteq Ids
    /\ NoneAhead
    /\ RingRemembers

\* ring agrees with accepted on every id whose block is in the ring that ends
\* at the block top.
Agrees(ring, top) ==
    \A id \in Ids : Block(id) <= top /\ top < Block(id) + RING_BLOCKS =>
        (Bit(id) \in ring[Slot(Block(id))] <=> id \in accepted)

LEMMA CheckAndSetAgrees ==
    ASSUME NEW ring \in [Slots -> SUBSET Bits], NEW top \in Nat, NEW id \in Ids,
           Block(id) <= top, top < Block(id) + RING_BLOCKS,
           Agrees(ring, top), CheckAndSet(ring, id)
    PROVE  /\ answer' = (id \notin accepted)
           /\ accepted' = accepted \union {id}
           /\ packet_ring' \in [Slots -> SUBSET Bits]
           /\ \A j \in Ids : Block(j) <= top /\ top < Block(j) + RING_BLOCKS =>
                (Bit(j) \in packet_ring'[Slot(Block(j))] <=> j \in accepted')
<1>0. id \in Nat
    BY IdsAssumption
<1>1. answer' = (id \notin accepted)
    BY DEF Agrees, CheckAndSet
<1>2. accepted' = accepted \union {id}
    BY <1>1 DEF CheckAndSet
<1>3. packet_ring' \in [Slots -> SUBSET Bits]
    BY <1>0, Coordinates DEF CheckAndSet
<1>4. ASSUME NEW j \in Ids, Block(j) <= top, top < Block(j) + RING_BLOCKS
      PROVE  Bit(j) \in packet_ring'[Slot(Block(j))] <=> j \in accepted'
    <2>1. j \in Nat /\ Block(j) \in Nat /\ Block(id) \in Nat /\ Slot(Block(j)) \in Slots
        BY <1>0, IdsAssumption, Coordinates
    <2>2. Bit(j) \in ring[Slot(Block(j))] <=> j \in accepted
        BY <1>4 DEF Agrees
    <2>3. CASE Slot(Block(j)) = Slot(Block(id))
        <3>1. Block(j) = Block(id)
            BY <1>4, <2>1, <2>3, SameSlot
        <3>2. j = id <=> Bit(j) = Bit(id)
            BY <1>0, <2>1, <3>1, SameId
        <3>3. packet_ring'[Slot(Block(j))] = ring[Slot(Block(j))] \union {Bit(id)}
            BY <2>1, <2>3 DEF CheckAndSet
        <3> QED
            BY <1>2, <2>2, <3>2, <3>3
    <2>4. CASE Slot(Block(j)) # Slot(Block(id))
        <3>1. packet_ring'[Slot(Block(j))] = ring[Slot(Block(j))]
            BY <2>1, <2>4 DEF CheckAndSet
        <3>2. j # id
            BY <2>4
        <3> QED
            BY <1>2, <2>2, <3>1, <3>2
    <2> QED
        BY <2>3, <2>4
<1> QED
    BY <1>1, <1>2, <1>3, <1>4

\* Emptying the blocks the window passes leaves a ring that agrees with the
\* accepted ids around the new highest block.
LEMMA MovedAgrees ==
    ASSUME WindowInv, NEW id \in Ids, id > last_packet_id
    PROVE  /\ Moved(id) \in [Slots -> SUBSET Bits]
           /\ Agrees(Moved(id), Block(id))
<1> DEFINE current == Block(last_packet_id)
<1>0. /\ id \in Nat /\ last_packet_id \in Nat
      /\ current \in Nat /\ Block(id) \in Nat /\ current <= Block(id)
    BY IdsAssumption, Coordinates, BlockMono DEF WindowInv, TypeOK
<1>1. Moved(id) \in [Slots -> SUBSET Bits]
    BY DEF WindowInv, TypeOK, Moved
<1>2. ASSUME NEW j \in Ids, Block(j) <= Block(id), Block(id) < Block(j) + RING_BLOCKS
      PROVE  Bit(j) \in Moved(id)[Slot(Block(j))] <=> j \in accepted
    <2>1. j \in Nat /\ Block(j) \in Nat /\ Slot(Block(j)) \in Slots
        BY IdsAssumption, Coordinates
    <2>2. CASE Block(j) > current
        <3>1. j \notin accepted
            BY <1>0, <2>1, <2>2, BlockMono DEF WindowInv, NoneAhead
        <3>2. Slot(Block(j)) \in Passed(id)
            <4> DEFINE ahead == Block(id) - current
                       diff  == IF ahead > RING_BLOCKS THEN RING_BLOCKS ELSE ahead
            <4>1. CASE ahead <= RING_BLOCKS
                <5>1. Block(j) - current \in 1 .. diff /\ Block(j) = current + (Block(j) - current)
                    BY <1>0, <1>2, <2>1, <2>2, <4>1, RingBlocksAssumption
                <5> QED
                    BY <5>1 DEF Passed
            <4>2. CASE ahead > RING_BLOCKS
                <5>1. PICK d \in 1 .. RING_BLOCKS : Slot(current + d) = Slot(Block(j))
                    BY <1>0, <2>1, <2>2, RingOfSlots
                <5> QED
                    BY <4>2, <5>1 DEF Passed
            <4> QED
                BY <1>0, <4>1, <4>2, RingBlocksAssumption
        <3> QED
            BY <2>1, <3>1, <3>2 DEF Moved
    <2>3. CASE Block(j) <= current
        <3>1. Slot(Block(j)) \notin Passed(id)
            <4> SUFFICES ASSUME NEW d \in 1 .. (Block(id) - current),
                                Slot(current + d) = Slot(Block(j))
                         PROVE  FALSE
                BY <1>0, <1>2, <2>1, <2>3, RingBlocksAssumption DEF Passed
            <4>1. current + d = Block(j)
                BY <1>0, <1>2, <2>1, <2>3, SameSlot, RingBlocksAssumption
            <4> QED
                BY <1>0, <2>1, <2>3, <4>1
        <3>2. InRing(j)
            BY <1>0, <1>2, <2>1, <2>3, RingBlocksAssumption DEF InRing
        <3> QED
            BY <2>1, <3>1, <3>2 DEF Moved, WindowInv, RingRemembers
    <2> QED
        BY <1>0, <2>1, <2>2, <2>3
<1> QED
    BY <1>1, <1>2 DEF Agrees
-----------------------------------------------------------------------------
LEMMA InitInv == Init => WindowInv
<1> SUFFICES ASSUME Init PROVE WindowInv
    OBVIOUS
<1>1. TypeOK /\ accepted \subseteq Ids /\ NoneAhead
    BY DEF Init, TypeOK, NoneAhead
<1>2. RingRemembers
    BY Coordinates, IdsAssumption DEF Init, RingRemembers
<1> QED
    BY <1>1, <1>2 DEF WindowInv

LEMMA ResetInv == WindowInv /\ Reset => WindowInv'
<1> SUFFICES ASSUME WindowInv, Reset PROVE WindowInv'
    OBVIOUS
<1>1. 0 \in Slots
    BY RingBlocksAssumption DEF Slots
<1>2. Block(0) = 0 /\ Slot(0) = 0
    BY DivMod, BlockBitsAssumption, RingBlocksAssumption DEF Block, Slot
<1>3. (TypeOK /\ accepted \subseteq Ids /\ NoneAhead)'
    BY <1>1 DEF WindowInv, TypeOK, NoneAhead, Reset
<1>4. ASSUME NEW id \in Ids, InRing(id)'
      PROVE  Bit(id) \notin packet_ring'[Slot(Block(id))]
    <2>1. Block(id) = 0
        BY <1>2, <1>4, IdsAssumption, Coordinates DEF InRing, Reset
    <2> QED
        BY <1>1, <1>2, <2>1 DEF Reset, WindowInv, TypeOK
<1>5. RingRemembers'
    BY <1>4 DEF RingRemembers, Reset
<1> QED
    BY <1>3, <1>5 DEF WindowInv

\* What a call that reaches the ring does.
LEMMA ForwardStep ==
    ASSUME WindowInv, NEW id \in Ids, MovesForward(id)
    PROVE  WindowInv' /\ answer' = TRUE /\ accepted' = accepted \union {id} /\ id \notin accepted
<1>0. id \in Nat /\ Block(id) \in Nat /\ last_packet_id \in Nat
    BY IdsAssumption, Coordinates DEF WindowInv, TypeOK
<1>1. id \notin accepted
    BY <1>0 DEF MovesForward, WindowInv, NoneAhead
<1>2. /\ Moved(id) \in [Slots -> SUBSET Bits]
      /\ Agrees(Moved(id), Block(id))
    BY MovedAgrees DEF MovesForward
<1>3. /\ answer' = (id \notin accepted)
      /\ accepted' = accepted \union {id}
      /\ packet_ring' \in [Slots -> SUBSET Bits]
      /\ \A j \in Ids : Block(j) <= Block(id) /\ Block(id) < Block(j) + RING_BLOCKS =>
            (Bit(j) \in packet_ring'[Slot(Block(j))] <=> j \in accepted')
    BY <1>0, <1>2, CheckAndSetAgrees, RingBlocksAssumption DEF MovesForward
<1>4. (TypeOK /\ accepted \subseteq Ids /\ NoneAhead)'
    BY <1>0, <1>3, IdsAssumption DEF WindowInv, TypeOK, NoneAhead, MovesForward
<1>5. RingRemembers'
    BY <1>3 DEF RingRemembers, InRing, MovesForward
<1> QED
    BY <1>1, <1>3, <1>4, <1>5 DEF WindowInv

LEMMA InWindowStep ==
    ASSUME WindowInv, NEW id \in Ids, InWindow(id)
    PROVE  WindowInv' /\ answer' = (id \notin accepted) /\ accepted' = accepted \union {id}
<1> DEFINE top == Block(last_packet_id)
<1>0. id \in Nat /\ Block(id) \in Nat /\ last_packet_id \in Nat /\ top \in Nat
    BY IdsAssumption, Coordinates DEF WindowInv, TypeOK
<1>1. Block(id) <= top /\ top < Block(id) + RING_BLOCKS
    BY <1>0, BlockMono, WindowInRing DEF InWindow
<1>2. packet_ring \in [Slots -> SUBSET Bits] /\ Agrees(packet_ring, top)
    BY DEF WindowInv, TypeOK, RingRemembers, InRing, Agrees
<1>3. /\ answer' = (id \notin accepted)
      /\ accepted' = accepted \union {id}
      /\ packet_ring' \in [Slots -> SUBSET Bits]
      /\ \A j \in Ids : Block(j) <= top /\ top < Block(j) + RING_BLOCKS =>
            (Bit(j) \in packet_ring'[Slot(Block(j))] <=> j \in accepted')
    BY <1>0, <1>1, <1>2, CheckAndSetAgrees DEF InWindow
<1>4. (TypeOK /\ accepted \subseteq Ids /\ NoneAhead)'
    BY <1>0, <1>3, IdsAssumption DEF WindowInv, TypeOK, NoneAhead, InWindow
<1>5. RingRemembers'
    BY <1>3 DEF RingRemembers, InRing, InWindow
<1> QED
    BY <1>3, <1>4, <1>5 DEF WindowInv

LEMMA StutterInv == WindowInv /\ (Reject \/ UNCHANGED vars) => WindowInv'
BY DEF WindowInv, TypeOK, NoneAhead, RingRemembers, InRing, Reject, vars

LEMMA NextInv == WindowInv /\ [Next]_vars => WindowInv'
<1> SUFFICES ASSUME WindowInv, [Next]_vars PROVE WindowInv'
    OBVIOUS
<1>1. CASE Reset
    BY <1>1, ResetInv
<1>2. ASSUME NEW id \in Ids, validate_packet_id(id) PROVE WindowInv'
    BY <1>2, StutterInv, ForwardStep, InWindowStep
       DEF validate_packet_id, OverLimit, Behind
<1>3. CASE UNCHANGED vars
    BY <1>3, StutterInv
<1> QED
    BY <1>1, <1>2, <1>3 DEF Next

\* The ring remembers exactly the accepted ids of its blocks, in every
\* reachable state of PacketWindowFilter.
THEOREM RingCorrect == Spec => []RingRemembers
<1>1. WindowInv => RingRemembers
    BY DEF WindowInv
<1> QED
    BY <1>1, InitInv, NextInv, PTL DEF Spec

-----------------------------------------------------------------------------
LEMMA ValidateRefines ==
    ASSUME WindowInv, NEW id \in Ids, validate_packet_id(id)
    PROVE  Abstract!Validate(id)
<1>0. id \in Nat /\ last_packet_id \in Nat /\ WINDOW_SIZE \in Nat
    BY IdsAssumption, BlockBitsAssumption, RingBlocksAssumption
       DEF WindowInv, TypeOK, WINDOW_SIZE
<1>1. CASE Reject /\ ~Abstract!Accepts(Abstract!Window, id)
    BY <1>1 DEF Reject, Abstract!Validate, Abstract!Window, Abstract!Accepts
<1>2. (OverLimit(id) \/ Behind(id)) => Reject /\ ~Abstract!Accepts(Abstract!Window, id)
    BY <1>0, LimitAssumption
       DEF OverLimit, Behind, Abstract!Accepts, Abstract!Window
<1>3. CASE MovesForward(id)
    <2>1. answer' = TRUE /\ accepted' = accepted \union {id} /\ id \notin accepted
        BY <1>3, ForwardStep
    <2> QED
        BY <1>0, <1>3, <2>1
           DEF MovesForward, Abstract!Validate, Abstract!Accepts, Abstract!Window,
               Abstract!Remember
<1>4. CASE InWindow(id)
    <2>1. answer' = (id \notin accepted) /\ accepted' = accepted \union {id}
        BY <1>4, InWindowStep
    <2>2. CASE id \in accepted
        <3>1. ~Abstract!Accepts(Abstract!Window, id)
            BY <2>2 DEF Abstract!Accepts, Abstract!Window
        <3>2. answer' = FALSE /\ UNCHANGED <<last_packet_id, accepted>>
            BY <1>4, <2>1, <2>2 DEF InWindow
        <3> QED
            BY <3>1, <3>2 DEF Abstract!Validate, Abstract!Window, Abstract!Accepts
    <2>3. CASE id \notin accepted
        <3>0. answer' = TRUE
            BY <2>1, <2>3
        <3>1. id < Limit /\ last_packet_id <= id + WINDOW_SIZE
            BY <1>0, <1>4 DEF InWindow
        <3>2. last_packet_id' = last_packet_id /\ ~(id > last_packet_id)
            BY <1>0, <1>4 DEF InWindow
        <3> QED
            BY <2>1, <2>3, <3>0, <3>1, <3>2
               DEF Abstract!Validate, Abstract!Accepts, Abstract!Window, Abstract!Remember
    <2> QED
        BY <2>2, <2>3
<1> QED
    BY <1>1, <1>2, <1>3, <1>4 DEF validate_packet_id

\* validate_packet_id and reset answer as the abstract replay window: an id is
\* accepted at most once, whatever the sizes of the block and of the ring.
THEOREM Refinement == Spec => IsReplayWindow
<1>1. Init => Abstract!Init
    BY DEF Init, Abstract!Init
<1>2. WindowInv /\ [Next]_vars => [Abstract!Next]_<<last_packet_id, accepted, answer>>
    <2> SUFFICES ASSUME WindowInv, [Next]_vars
                 PROVE  [Abstract!Next]_<<last_packet_id, accepted, answer>>
        OBVIOUS
    <2>1. CASE Reset
        BY <2>1 DEF Reset, Abstract!Next, Abstract!Reset
    <2>2. ASSUME NEW id \in Ids, validate_packet_id(id) PROVE Abstract!Next
        BY <2>2, ValidateRefines DEF Abstract!Next
    <2>3. CASE UNCHANGED vars
        BY <2>3 DEF vars
    <2> QED
        BY <2>1, <2>2, <2>3 DEF Next
<1> QED
    BY <1>1, <1>2, InitInv, NextInv, PTL DEF Spec, IsReplayWindow, Abstract!Spec

=============================================================================
