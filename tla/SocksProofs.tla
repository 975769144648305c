---------------------------- MODULE SocksProofs ----------------------------
(***************************************************************************)
(* Theorems about the SOCKS server and its clients, for any settings,      *)
(* users, clients, datagrams and answers: nobody is served without the     *)
(* right to be, what a client is told is so, and the other side            *)
(* understands every message.                                              *)
(***************************************************************************)
EXTENDS Socks, SequenceTheorems, WellFoundedInduction, TLAPS

-----------------------------------------------------------------------------
(***************************************************************************)
(* The inductive invariant.  The handler has read a part of what the       *)
(* client says: what it has not read is up, then client.unsent.  PhaseInv  *)
(* says what that is wherever the handler is, ClientInv what has come back *)
(* to the client wherever the client is, SaidInv what a reply stands for,  *)
(* and UdpInv what the datagrams under way are made of.                    *)
(***************************************************************************)

Socks5Kinds == {"connect", "associate", "raw", "plain"}
Socks4Kinds == {"socks4", "raw4"}
RawKinds == {"raw", "raw4", "plain"}
OwnKinds == {"connect", "associate"}

TheRequest == WriteRequest(session.command, session.addr) \o session.data
ThePasswd == WritePasswd(session.user, session.passwd)
OwnRequest == WriteRequest(session.kind, session.addr)

\* What a client says first.
Opening ==
    CASE session.kind \in OwnKinds -> WriteHandshake(<<MethodNone>>)
      [] session.kind = "socks4" -> WriteRequest4("connect", session.addr, session.user)
      [] session.kind = "raw4" -> WriteRequest4(session.command, session.addr, session.user) \o session.data
      [] session.kind = "raw" -> WriteHandshake(session.methods) \o (ThePasswd \o TheRequest)
      [] session.kind = "plain" -> WriteHandshake(session.methods) \o TheRequest

FirstPc ==
    CASE session.kind \in OwnKinds -> "handshake"
      [] session.kind = "socks4" -> "result4"
      [] OTHER -> "end"

\* What the client said and the handler has not read.
Unread == up \o client.unsent

Entitled == session.kind = "raw" /\ check_user(session.user, session.passwd)
Authorised == auth_required => Entitled

\* What the target is to get of the bytes behind the request.
Gave == IF session.kind \in RawKinds \/ client.result = "connected" THEN session.data ELSE <<>>
Passed == remote.got \o (handler.buf \o Unread)

AtOpening ==
    /\ down = <<>>
    /\ client.pc # "start" => Unread = Opening /\ client.pc = FirstPc
    /\ handler.pc = "handshake" => session.kind \in Socks5Kinds /\ client.pc # "start"
    /\ handler.pc = "request4" => session.kind \in Socks4Kinds /\ client.pc # "start"

AtPasswd ==
    \/ session.kind = "raw" /\ Unread = ThePasswd \o TheRequest
    \/ session.kind = "plain" /\ Unread = TheRequest

AtRequest ==
    /\ session.kind \in Socks5Kinds /\ Authorised
    /\ session.kind \in OwnKinds =>
          \/ client.pc = "handshake" /\ Unread = <<>> /\ down = WriteChosen(MethodNone)
          \/ client.pc = "response" /\ Unread = OwnRequest /\ down = <<>>
    /\ session.kind = "raw" => Unread = ThePasswd \o TheRequest \/ Unread = TheRequest
    /\ session.kind = "plain" => Unread = TheRequest

\* The handler has a target, or is connected to it.
AtTarget ==
    /\ handler.command = "connect" /\ handler.addr = session.addr
    /\ Passed = Gave
    /\ session.kind # "associate"

AtConnect ==
    /\ AtTarget
    /\ client.result = "none"
    /\ session.kind \in RawKinds \/ down = <<>>
    /\ handler.pc = "connect" => handler.buf = <<>> /\ session.kind \in Socks5Kinds
    /\ handler.pc = "connect4" => session.kind \in Socks4Kinds
    /\ session.kind = "connect" => client.pc = "response"
    /\ session.kind = "socks4" => client.pc = "result4"

AtTunnel == AtTarget /\ remote.state = "connected" /\ handler.buf = <<>>

Unserved == {"peek", "handshake", "passwd", "request", "request4", "connect", "connect4"}

PhaseInv ==
    /\ handler.pc \in {"peek", "handshake", "request4"} => AtOpening
    /\ handler.pc = "passwd" => AtPasswd
    /\ handler.pc = "request" => AtRequest
    /\ handler.pc \in {"connect", "connect4"} => AtConnect
    /\ handler.pc = "tunnel" => AtTunnel
    /\ handler.pc = "hold" => handler.command = "associate"
    /\ handler.pc \in Unserved => handler.replies = <<>> /\ remote.got = <<>>
    /\ handler.pc \in Unserved \ {"connect4"} => handler.buf = <<>>

\* What a client of the repository finds in what it was told.
Refusals5 == DOMAIN ReplyCode \ {"Succeeded"}
Refusals4 == DOMAIN ResultCode \ {"RequestGranted"}
Granted5 == WriteResponse("Succeeded", BindAddr)
Granted4 == WriteResult4("RequestGranted")

AwaitsChoice ==
    /\ handler.pc \in {"peek", "handshake", "request", "done"}
    /\ \/ down = <<>> \/ down = WriteChosen(MethodNotAcceptable) \/ down = WriteChosen(MethodNone)
       \/ \E reply \in Refusals5 : down = WriteChosen(MethodNone) \o WriteResponse(reply, BindAddr)

AwaitsReply ==
    \/ down = <<>> /\ handler.pc \in {"request", "connect", "done"}
    \/ handler.pc = "done" /\ \E reply \in Refusals5 : down = WriteResponse(reply, BindAddr) \/ down = WriteResponse(reply, session.addr)
    \/ /\ handler.pc \in {"tunnel", "hold", "done"} /\ down = Granted5
       /\ session.kind = "connect" => remote.state = "connected"
       /\ session.kind = "associate" => enable_udp

AwaitsResult ==
    \/ down = <<>> /\ handler.pc \in {"peek", "request4", "connect4", "done"}
    \/ handler.pc = "done" /\ \E result \in Refusals4 : down = WriteResult4(result)
    \/ handler.pc \in {"tunnel", "done"} /\ remote.state = "connected" /\ down = Granted4

ClientInv ==
    /\ client.pc = "start" => Unread = <<>> /\ down = <<>> /\ handler.pc \in {"peek", "done"}
    /\ client.pc = "handshake" => session.kind \in OwnKinds /\ AwaitsChoice
    /\ client.pc = "response" => session.kind \in OwnKinds /\ AwaitsReply
    /\ client.pc = "result4" => session.kind = "socks4" /\ AwaitsResult
    /\ client.pc = "end" /\ session.kind \notin RawKinds =>
          handler.pc \in {"tunnel", "hold", "done"} /\ (handler.pc = "tunnel" => client.result = "connected")
    /\ client.pc # "end" \/ session.kind \in RawKinds => client.result = "none"

\* Nobody is told of a success that did not happen, and nobody is told twice.
Honest ==
    \/ handler.replies = <<>>
    \/ \E reply \in DOMAIN ReplyCode \cup DOMAIN ResultCode :
          /\ handler.replies = <<reply>>
          /\ reply \in {"Succeeded", "RequestGranted"} => handler.command = "associate" \/ remote.state = "connected"

\* What the client was told is so.
SaidInv ==
    /\ remote.state = "connected" => remote.addr = session.addr
    /\ client.result = "connected" => remote.state = "connected"
    /\ client.result = "associated" => enable_udp
    /\ client.result # "misled"
    /\ Honest
    /\ handler.command # "none" /\ session.kind \in Socks5Kinds => Authorised

Shapes ==
    /\ session \in Cases
    /\ client = [pc |-> client.pc, unsent |-> client.unsent, result |-> client.result, gone |-> client.gone]
    /\ handler = [pc |-> handler.pc, command |-> handler.command, addr |-> handler.addr, buf |-> handler.buf,
                  authed |-> handler.authed, replies |-> handler.replies]
    /\ remote = [state |-> remote.state, addr |-> remote.addr, got |-> remote.got]
    /\ client.pc \in {"start", "handshake", "response", "result4", "end"} /\ client.gone \in BOOLEAN
    /\ handler.pc \in Unserved \cup {"tunnel", "hold", "done"}
    /\ remote.state \in {"none", "connected"}
    /\ client.unsent \in Seq(Byte) /\ up \in Seq(Byte) /\ down \in Seq(Byte)
    /\ handler.buf \in Seq(Byte) /\ remote.got \in Seq(Byte)

StreamInv == Shapes /\ PhaseInv /\ ClientInv /\ SaidInv

Whole(d) == WriteUdpHeader(d.frag, d.addr) \o d.data
UdpInv ==
    /\ udp = [toServer |-> udp.toServer, toTarget |-> udp.toTarget, toClient |-> udp.toClient, received |-> udp.received]
    /\ \A b \in udp.toServer : \E d \in Datagrams : b = SubSeq(Whole(d), 1, Len(Whole(d)) - d.cut)
    /\ \A b \in udp.toClient : \E a \in Answers : b = WriteUdpHeader(0, ToIpv4Mapped(a.addr)) \o a.data
    /\ DatagramsUnderstood

SocksInv == StreamInv /\ UdpInv

-----------------------------------------------------------------------------
(***************************************************************************)
(* The messages.  First and Behind cut a sequence; an address reads back   *)
(* as it was written, whatever follows it.                                 *)
(***************************************************************************)

First(s, n) == SubSeq(s, 1, n)
Behind(s, n) == SubSeq(s, n + 1, Len(s))

\* The readers, with read_exact spelled out.
LEMMA ReadAddressIs ==
    ASSUME NEW s
    PROVE  /\ Len(s) < 1 => ReadAddress(s) = Err("eof")
           /\ ~(Len(s) < 1) =>
                LET k == First(s, 1)[1]
                    r == Behind(s, 1)
                    b6 == First(r, 6)
                    b18 == First(r, 18)
                    n == First(r, 1)[1]
                    q == Behind(r, 1)
                    b == First(q, n + 2)
                IN  /\ k = 1 => ReadAddress(s) = IF Len(r) < 6 THEN Err("eof")
                          ELSE Ok(Address("v4", First(b6, 4), FromU16(SubSeq(b6, 5, 6))), Behind(r, 6))
                    /\ k = 4 => ReadAddress(s) = IF Len(r) < 18 THEN Err("eof")
                          ELSE Ok(Address("v6", First(b18, 16), FromU16(SubSeq(b18, 17, 18))), Behind(r, 18))
                    /\ k = 3 => ReadAddress(s) = IF Len(r) < 1 \/ Len(q) < n + 2 THEN Err("eof")
                          ELSE IF Utf8(First(b, n)) THEN Ok(Address("domain", First(b, n), FromU16(SubSeq(b, n + 1, n + 2))), Behind(q, n + 2))
                          ELSE Err("AddressDomainInvalidEncoding")
                    /\ k \notin {1, 3, 4} => ReadAddress(s) = Err("AddressTypeNotSupported")
BY DEF ReadAddress, Exact, First, Behind

LEMMA Cuts ==
    ASSUME NEW S, NEW h \in Seq(S), NEW t \in Seq(S)
    PROVE  First(h \o t, Len(h)) = h /\ Behind(h \o t, Len(h)) = t /\ Len(h \o t) >= Len(h)
<1>1. h \o t \in Seq(S) /\ Len(h \o t) = Len(h) + Len(t) /\ Len(h) \in Nat /\ Len(t) \in Nat
      /\ \A i \in 1 .. Len(h) + Len(t) : (h \o t)[i] = IF i <= Len(h) THEN h[i] ELSE t[i - Len(h)]
    BY ConcatProperties, LenProperties
<1>2. First(h \o t, Len(h)) \in Seq(S) /\ Len(First(h \o t, Len(h))) = Len(h)
      /\ \A i \in 1 .. Len(h) : First(h \o t, Len(h))[i] = (h \o t)[i]
    <2>1. \A i \in 1 .. Len(h) : (h \o t)[i] \in S
        BY <1>1, ElementOfSeq
    <2> QED
        BY <1>1, <2>1, SubSeqProperties DEF First
<1>3. Behind(h \o t, Len(h)) \in Seq(S) /\ Len(Behind(h \o t, Len(h))) = Len(t)
      /\ \A i \in 1 .. Len(t) : Behind(h \o t, Len(h))[i] = (h \o t)[Len(h) + i]
    <2>1. \A i \in Len(h) + 1 .. Len(h \o t) : (h \o t)[i] \in S
        BY <1>1, ElementOfSeq
    <2>2. Len(h) + 1 \in Int /\ Len(h \o t) \in Int
        BY <1>1
    <2>3. /\ Behind(h \o t, Len(h)) \in Seq(S)
          /\ Len(Behind(h \o t, Len(h))) = IF Len(h) + 1 <= Len(h \o t) THEN Len(h \o t) - (Len(h) + 1) + 1 ELSE 0
          /\ \A i \in 1 .. Len(h \o t) - (Len(h) + 1) + 1 : Behind(h \o t, Len(h))[i] = (h \o t)[Len(h) + 1 + i - 1]
        BY <2>1, <2>2, SubSeqProperties DEF Behind
    <2>4. /\ IF Len(h) + 1 <= Len(h \o t) THEN Len(h \o t) - (Len(h) + 1) + 1 = Len(t) ELSE Len(t) = 0
          /\ Len(h \o t) - (Len(h) + 1) + 1 = Len(t)
          /\ \A i \in 1 .. Len(t) : Len(h) + 1 + i - 1 = Len(h) + i
        BY <1>1
    <2> QED
        BY <2>3, <2>4
<1>4. \A i \in 1 .. Len(h) : First(h \o t, Len(h))[i] = h[i]
    BY <1>1, <1>2
<1>5. \A i \in 1 .. Len(t) : Behind(h \o t, Len(h))[i] = t[i]
    BY <1>1, <1>3
<1>6. First(h \o t, Len(h)) = h
    BY <1>2, <1>4, SeqEqual
<1>7. Behind(h \o t, Len(h)) = t
    BY <1>3, <1>5, SeqEqual
<1> QED
    BY <1>1, <1>6, <1>7

LEMMA Longer ==
    ASSUME NEW S, NEW s \in Seq(S), NEW t \in Seq(S), NEW n \in 0 .. Len(s)
    PROVE  First(s \o t, n) = First(s, n) /\ Behind(s \o t, n) = Behind(s, n) \o t
<1> DEFINE h == First(s, n)
           w == Behind(s, n)
<1>0. Len(s) \in Nat
    BY LenProperties
<1>1. h \in Seq(S) /\ w \in Seq(S) /\ Len(h) = n
    <2>1. \A i \in 1 .. n : s[i] \in S
        BY <1>0, ElementOfSeq
    <2>2. \A i \in n + 1 .. Len(s) : s[i] \in S
        BY <1>0, ElementOfSeq
    <2>3. n \in Int /\ n + 1 \in Int /\ Len(s) \in Int
        BY <1>0
    <2>4. h \in Seq(S) /\ Len(h) = n
        BY <1>0, <2>1, <2>3, SubSeqProperties DEF First
    <2>5. w \in Seq(S)
        BY <1>0, <2>2, <2>3, SubSeqProperties DEF Behind
    <2> QED
        BY <2>4, <2>5
<1>2. h \o w = s
    <2>1. 1 \in 1 .. Len(s) + 1 /\ n \in 1 - 1 .. Len(s) /\ Len(s) \in n .. Len(s)
        BY <1>0
    <2>2. SubSeq(s, 1, n) \o SubSeq(s, n + 1, Len(s)) = SubSeq(s, 1, Len(s))
        BY <2>1, ConcatAdjacentSubSeq
    <2> QED
        BY <2>2, SubSeqFull DEF First, Behind
<1> HIDE DEF h, w
<1>3. s \o t = h \o (w \o t)
    <2>1. (h \o w) \o t = h \o (w \o t)
        BY <1>1, ConcatAssociative
    <2> QED
        BY <2>1, <1>2, Zenon
<1>4. w \o t \in Seq(S)
    BY <1>1, ConcatProperties
<1>5. First(h \o (w \o t), n) = h /\ Behind(h \o (w \o t), n) = w \o t
    BY <1>1, <1>4, Cuts
<1> QED
    BY <1>3, <1>5 DEF h, w

LEMMA Parts ==
    ASSUME NEW S, NEW s \in Seq(S), NEW n \in 0 .. Len(s)
    PROVE  /\ Len(s) \in Nat /\ n \in Nat /\ n <= Len(s)
           /\ First(s, n) \in Seq(S) /\ Len(First(s, n)) = n /\ \A i \in 1 .. n : First(s, n)[i] = s[i]
           /\ Behind(s, n) \in Seq(S) /\ Len(Behind(s, n)) = Len(s) - n
           /\ \A i \in 1 .. Len(s) - n : Behind(s, n)[i] = s[n + i]
           /\ First(s, n) \o Behind(s, n) = s
<1>0. Len(s) \in Nat
    BY LenProperties
<1>1. \A i \in 1 .. n : s[i] \in S
    BY <1>0, ElementOfSeq
<1>2. \A i \in n + 1 .. Len(s) : s[i] \in S
    BY <1>0, ElementOfSeq
<1>3. n \in Int /\ n + 1 \in Int /\ Len(s) \in Int
    BY <1>0
<1>4. First(s, n) \in Seq(S) /\ Len(First(s, n)) = n /\ \A i \in 1 .. n - 1 + 1 : First(s, n)[i] = s[1 + i - 1]
    BY <1>0, <1>1, <1>3, SubSeqProperties DEF First
<1>5. /\ Behind(s, n) \in Seq(S)
      /\ Len(Behind(s, n)) = IF n + 1 <= Len(s) THEN Len(s) - (n + 1) + 1 ELSE 0
      /\ \A i \in 1 .. Len(s) - (n + 1) + 1 : Behind(s, n)[i] = s[n + 1 + i - 1]
    BY <1>0, <1>2, <1>3, SubSeqProperties DEF Behind
<1>6. /\ n - 1 + 1 = n /\ Len(s) - (n + 1) + 1 = Len(s) - n /\ (n + 1 <= Len(s) \/ Len(s) - n = 0)
      /\ \A i \in 1 .. n : 1 + i - 1 = i
      /\ \A i \in 1 .. Len(s) - n : n + 1 + i - 1 = n + i
    BY <1>0
<1>7. First(s, n) \o Behind(s, n) = s
    <2>1. 1 \in 1 .. Len(s) + 1 /\ n \in 1 - 1 .. Len(s) /\ Len(s) \in n .. Len(s)
        BY <1>0
    <2>2. SubSeq(s, 1, n) \o SubSeq(s, n + 1, Len(s)) = SubSeq(s, 1, Len(s))
        BY <2>1, ConcatAdjacentSubSeq
    <2> QED
        BY <2>2, SubSeqFull DEF First, Behind
<1>8. n \in Nat /\ n <= Len(s) /\ Len(Behind(s, n)) = Len(s) - n
    <2>1. n \in Nat /\ n <= Len(s)
        BY <1>0
    <2>2. Len(Behind(s, n)) = IF n + 1 <= Len(s) THEN Len(s) - (n + 1) + 1 ELSE 0
        BY <1>5
    <2>3. (IF n + 1 <= Len(s) THEN Len(s) - (n + 1) + 1 ELSE 0) = Len(s) - n
        BY <1>0, <2>1
    <2> QED
        BY <2>1, <2>2, <2>3
<1>9. \A i \in 1 .. n : First(s, n)[i] = s[i]
    BY <1>4, <1>6
<1>10. \A i \in 1 .. Len(s) - n : Behind(s, n)[i] = s[n + i]
    BY <1>5, <1>6
<1> QED
    BY <1>0, <1>4, <1>5, <1>7, <1>8, <1>9, <1>10

\* Bytes.
LEMMA Bytes ==
    /\ \A b \in Byte : b \in Nat
    /\ \A b \in Byte : <<b>> \in Seq(Byte) /\ Len(<<b>>) = 1 /\ <<b>>[1] = b
    /\ \A b, c \in Byte : <<b, c>> \in Seq(Byte) /\ Len(<<b, c>>) = 2 /\ <<b, c>>[1] = b /\ <<b, c>>[2] = c
    /\ \A b, c, d \in Byte : <<b, c, d>> \in Seq(Byte) /\ Len(<<b, c, d>>) = 3
                             /\ <<b, c, d>>[1] = b /\ <<b, c, d>>[2] = c /\ <<b, c, d>>[3] = d
<1>1. \A b \in Byte : b \in Nat
    BY DEF Byte
<1>2. \A b \in Byte : <<b>> \in Seq(Byte) /\ Len(<<b>>) = 1 /\ <<b>>[1] = b
    OBVIOUS
<1>3. \A b, c \in Byte : <<b, c>> \in Seq(Byte) /\ Len(<<b, c>>) = 2 /\ <<b, c>>[1] = b /\ <<b, c>>[2] = c
    OBVIOUS
<1>4. \A b, c, d \in Byte : <<b, c, d>> \in Seq(Byte) /\ Len(<<b, c, d>>) = 3
                             /\ <<b, c, d>>[1] = b /\ <<b, c, d>>[2] = c /\ <<b, c, d>>[3] = d
    OBVIOUS
<1> QED
    BY <1>1, <1>2, <1>3, <1>4

LEMMA Words ==
    ASSUME NEW n \in Word
    PROVE  U16(n) \in Seq(Byte) /\ Len(U16(n)) = 2 /\ FromU16(U16(n)) = n
<1>1. n \in Nat /\ n <= 65535
    BY DEF Word
<1> DEFINE d == n \div 256
           m == n % 256
<1>2. d \in Byte
    BY <1>1 DEF Byte
<1>3. m \in Byte
    BY <1>1 DEF Byte
<1>4. d * 256 + m = n
    BY <1>1
<1>5. U16(n) = <<d, m>>
    BY DEF U16
<1> HIDE DEF d, m
<1>6. <<d, m>> \in Seq(Byte) /\ Len(<<d, m>>) = 2 /\ <<d, m>>[1] = d /\ <<d, m>>[2] = m
    BY <1>2, <1>3, Bytes
<1>7. FromU16(<<d, m>>) = d * 256 + m
    BY <1>6 DEF FromU16
<1> QED
    BY <1>4, <1>5, <1>6, <1>7

\* Three and four pieces, cut behind the first one.
LEMMA Pieces ==
    ASSUME NEW S, NEW a \in Seq(S), NEW b \in Seq(S), NEW c \in Seq(S)
    PROVE  /\ a \o b \in Seq(S) /\ Len(a \o b) = Len(a) + Len(b) /\ a \o b \o c \in Seq(S)
           /\ a \o b \o c = a \o (b \o c)
           /\ First(a \o b \o c, Len(a)) = a /\ Behind(a \o b \o c, Len(a)) = b \o c
           /\ Len(a \o b \o c) = Len(a) + Len(b) + Len(c)
<1>1. a \o b \in Seq(S) /\ Len(a \o b) = Len(a) + Len(b) /\ b \o c \in Seq(S) /\ Len(b \o c) = Len(b) + Len(c)
    BY ConcatProperties
<1>2. a \o b \o c \in Seq(S) /\ Len(a \o b \o c) = Len(a \o b) + Len(c)
    BY <1>1, ConcatProperties
<1>3. a \o b \o c = a \o (b \o c)
    BY ConcatAssociative
<1>4. First(a \o (b \o c), Len(a)) = a /\ Behind(a \o (b \o c), Len(a)) = b \o c
    BY <1>1, Cuts
<1> QED
    BY <1>1, <1>2, <1>3, <1>4

\* The three parts of an address.
LEMMA Fields ==
    ASSUME NEW a, WellFormed(a)
    PROVE  /\ a.host \in Seq(Byte) /\ Len(a.host) \in Byte
           /\ U16(a.port) \in Seq(Byte) /\ Len(U16(a.port)) = 2 /\ FromU16(U16(a.port)) = a.port
           /\ a.type = "v4" => Len(a.host) = 4
           /\ a.type = "v6" => Len(a.host) = 16
           /\ a.type \in {"v4", "v6", "domain"}
           /\ a = Address(a.type, a.host, a.port)
<1>1. a.host \in Seq(Byte) /\ Len(a.host) <= 255 /\ a.port \in Word
    BY DEF WellFormed, IsText
<1>2. Len(a.host) \in Nat
    BY <1>1, LenProperties
<1>3. Len(a.host) \in Byte
    <2> DEFINE n == Len(a.host)
    <2>1. n \in Nat /\ n <= 255
        BY <1>1, <1>2
    <2> HIDE DEF n
    <2>2. n \in Byte
        BY <2>1 DEF Byte
    <2> QED
        BY <2>2 DEF n
<1>4. U16(a.port) \in Seq(Byte) /\ Len(U16(a.port)) = 2 /\ FromU16(U16(a.port)) = a.port
    BY <1>1, Words
<1>5. /\ a.type = "v4" => Len(a.host) = 4
      /\ a.type = "v6" => Len(a.host) = 16
      /\ a.type \in {"v4", "v6", "domain"}
    BY DEF WellFormed
<1>6. a = Address(a.type, a.host, a.port)
    BY Zenon DEF WellFormed
<1> QED
    BY <1>1, <1>3, <1>4, <1>5, <1>6, Zenon

\* The head of an address: its kind, and the length of a name.
Head4(a) == IF a.type = "domain" THEN <<3, Len(a.host)>> ELSE IF a.type = "v4" THEN <<1>> ELSE <<4>>

LEMMA AddressPieces ==
    ASSUME NEW a, WellFormed(a)
    PROVE  /\ WriteAddress(a) = Head4(a) \o a.host \o U16(a.port)
           /\ Head4(a) \in Seq(Byte)
           /\ Len(Head4(a)) = IF a.type = "domain" THEN 2 ELSE 1
           /\ Head4(a)[1] = CASE a.type = "v4" -> 1 [] a.type = "v6" -> 4 [] OTHER -> 3
           /\ a.type = "domain" => Head4(a)[2] = Len(a.host)
<1>1. 1 \in Byte /\ 3 \in Byte /\ 4 \in Byte /\ Len(a.host) \in Byte
    BY Fields DEF Byte
<1>2. CASE a.type = "v4"
    BY <1>1, <1>2, Bytes DEF WriteAddress, Head4
<1>3. CASE a.type = "v6"
    BY <1>1, <1>3, Bytes DEF WriteAddress, Head4
<1>4. CASE a.type = "domain"
    BY <1>1, <1>4, Bytes DEF WriteAddress, Head4
<1> QED
    BY <1>2, <1>3, <1>4, Fields

LEMMA AddressTyped ==
    ASSUME NEW a, WellFormed(a)
    PROVE  WriteAddress(a) \in Seq(Byte) /\ Len(WriteAddress(a)) = AddressLen(a) /\ AddressLen(a) \in Nat
<1>1. PICK k \in Seq(Byte), h \in Seq(Byte), p \in Seq(Byte) :
               k = Head4(a) /\ h = a.host /\ p = U16(a.port) /\ Len(p) = 2 /\ WriteAddress(a) = k \o h \o p
    BY AddressPieces, Fields, Zenon
<1>2. Len(h) \in Nat /\ Len(k) \in Nat /\ Len(p) \in Nat
    BY <1>1, LenProperties
<1>3. AddressLen(a) = Len(k) + Len(h) + 2
    <2>1. CASE a.type = "v4"
        <3>1. Len(k) = 1 /\ Len(h) = 4
            BY <1>1, <2>1, AddressPieces, Fields
        <3>2. AddressLen(a) = 7
            BY <2>1 DEF AddressLen
        <3> QED
            BY <3>1, <3>2
    <2>2. CASE a.type = "v6"
        <3>1. Len(k) = 1 /\ Len(h) = 16
            BY <1>1, <2>2, AddressPieces, Fields
        <3>2. AddressLen(a) = 19
            BY <2>2 DEF AddressLen
        <3> QED
            BY <3>1, <3>2
    <2>3. CASE a.type = "domain"
        <3>1. Len(k) = 2
            BY <1>1, <2>3, AddressPieces
        <3>2. AddressLen(a) = 4 + Len(h)
            BY <1>1, <2>3 DEF AddressLen
        <3> QED
            BY <1>2, <3>1, <3>2
    <2> QED
        BY <2>1, <2>2, <2>3, Fields
<1>4. k \o h \o p \in Seq(Byte) /\ Len(k \o h \o p) = Len(k) + Len(h) + Len(p)
    BY Pieces
<1> QED
    BY <1>1, <1>2, <1>3, <1>4

\* The readers, by the kind of the address.
LEMMA ReadsV4 ==
    ASSUME NEW s, ~(Len(s) < 1), First(s, 1)[1] = 1, NEW r, r = Behind(s, 1)
    PROVE  /\ Len(r) < 6 => ReadAddress(s) = Err("eof")
           /\ ~(Len(r) < 6) => ReadAddress(s) =
                 Ok(Address("v4", First(First(r, 6), 4), FromU16(SubSeq(First(r, 6), 5, 6))), Behind(r, 6))
BY ReadAddressIs

LEMMA ReadsV6 ==
    ASSUME NEW s, ~(Len(s) < 1), First(s, 1)[1] = 4, NEW r, r = Behind(s, 1)
    PROVE  /\ Len(r) < 18 => ReadAddress(s) = Err("eof")
           /\ ~(Len(r) < 18) => ReadAddress(s) =
                 Ok(Address("v6", First(First(r, 18), 16), FromU16(SubSeq(First(r, 18), 17, 18))), Behind(r, 18))
BY ReadAddressIs

LEMMA ReadsDomain ==
    ASSUME NEW s, ~(Len(s) < 1), First(s, 1)[1] = 3, NEW r, r = Behind(s, 1),
           NEW n, n = First(r, 1)[1], NEW q, q = Behind(r, 1)
    PROVE  /\ Len(r) < 1 => ReadAddress(s) = Err("eof")
           /\ ~(Len(r) < 1) /\ Len(q) < n + 2 => ReadAddress(s) = Err("eof")
           /\ ~(Len(r) < 1) /\ ~(Len(q) < n + 2) /\ Utf8(First(First(q, n + 2), n)) => ReadAddress(s) =
                 Ok(Address("domain", First(First(q, n + 2), n), FromU16(SubSeq(First(q, n + 2), n + 1, n + 2))), Behind(q, n + 2))
           /\ ~(Len(r) < 1) /\ ~(Len(q) < n + 2) /\ ~Utf8(First(First(q, n + 2), n)) =>
                 ReadAddress(s) = Err("AddressDomainInvalidEncoding")
BY ReadAddressIs

\* The body of an address, and what follows.
LEMMA Body ==
    ASSUME NEW h \in Seq(Byte), NEW p \in Seq(Byte), NEW t \in Seq(Byte), Len(p) = 2
    PROVE  /\ (h \o p) \o t \in Seq(Byte) /\ Len((h \o p) \o t) = Len(h) + 2 + Len(t)
           /\ ~(Len((h \o p) \o t) < Len(h) + 2)
           /\ First(First((h \o p) \o t, Len(h) + 2), Len(h)) = h
           /\ SubSeq(First((h \o p) \o t, Len(h) + 2), Len(h) + 1, Len(h) + 2) = p
           /\ Behind((h \o p) \o t, Len(h) + 2) = t
<1>0. Len(h) \in Nat /\ Len(p) \in Nat /\ Len(t) \in Nat
    BY LenProperties
<1>1. PICK b \in Seq(Byte) : b = h \o p /\ Len(b) = Len(h) + Len(p)
    BY ConcatProperties
<1>2. Len(b) = Len(h) + 2
    BY <1>1
<1>3. First(b \o t, Len(b)) = b /\ Behind(b \o t, Len(b)) = t
    BY Cuts
<1>4. First(h \o p, Len(h)) = h /\ Behind(h \o p, Len(h)) = p
    BY Cuts
<1>5. SubSeq(b, Len(h) + 1, Len(h) + 2) = p
    BY <1>1, <1>2, <1>4, Zenon DEF Behind
<1>6. b \o t \in Seq(Byte) /\ Len(b \o t) = Len(b) + Len(t)
    BY ConcatProperties
<1>7. Len(b \o t) = Len(h) + 2 + Len(t) /\ ~(Len(b \o t) < Len(h) + 2)
    BY <1>0, <1>2, <1>6
<1>8. First(First(b \o t, Len(h) + 2), Len(h)) = h
    BY <1>1, <1>2, <1>3, <1>4, Zenon
<1>9. SubSeq(First(b \o t, Len(h) + 2), Len(h) + 1, Len(h) + 2) = p
    BY <1>2, <1>3, <1>5, Zenon
<1>10. Behind(b \o t, Len(h) + 2) = t
    BY <1>2, <1>3, Zenon
<1> QED
    BY <1>1, <1>6, <1>7, <1>8, <1>9, <1>10, Zenon

Joined(k, h, p, t) == (k \o h \o p) \o t = k \o ((h \o p) \o t)
LEMMA Reassociate ==
    ASSUME NEW k \in Seq(Byte), NEW h \in Seq(Byte), NEW p \in Seq(Byte), NEW t \in Seq(Byte)
    PROVE  Joined(k, h, p, t)
<1>1. PICK m \in Seq(Byte) : m = h \o p
    BY ConcatProperties
<1>2. (k \o h) \o p = k \o (h \o p)
    BY ConcatAssociative
<1>3. (k \o m) \o t = k \o (m \o t)
    BY ConcatAssociative
<1> QED
    BY <1>1, <1>2, <1>3, Zenon DEF Joined

\* An address reads back as it was written, whatever follows it.
LEMMA AddressReadsBack ==
    ASSUME NEW a, WellFormed(a), NEW t \in Seq(Byte)
    PROVE  ReadAddress(WriteAddress(a) \o t) =
               IF a.type = "domain" /\ ~Utf8(a.host) THEN Err("AddressDomainInvalidEncoding") ELSE Ok(a, t)
<1>1. PICK k \in Seq(Byte), h \in Seq(Byte), p \in Seq(Byte) :
               k = Head4(a) /\ h = a.host /\ p = U16(a.port) /\ Len(p) = 2 /\ FromU16(p) = a.port /\ WriteAddress(a) = k \o h \o p
    BY AddressPieces, Fields, Zenon
<1>9. (k \o h \o p) \o t = k \o ((h \o p) \o t)
    <2>1. Joined(k, h, p, t)
        BY Reassociate, Zenon
    <2> QED
        BY <2>1, Zenon DEF Joined
<1> DEFINE r == (h \o p) \o t
           s == WriteAddress(a) \o t
           n == Len(h)
<1>2. s = k \o r
    BY <1>1, <1>9, Zenon
<1>3. /\ r \in Seq(Byte) /\ ~(Len(r) < n + 2)
      /\ First(First(r, n + 2), n) = h /\ SubSeq(First(r, n + 2), n + 1, n + 2) = p /\ Behind(r, n + 2) = t
    <2>1. Len(p) = 2
        BY <1>1
    <2> QED
        BY <2>1, Body
<1> HIDE DEF r
<1>4. First(k \o r, Len(k)) = k /\ Behind(k \o r, Len(k)) = r /\ Len(k \o r) >= Len(k)
    BY <1>3, Cuts
<1>5. CASE a.type = "v4"
    <2>0. k = Head4(a) /\ h = a.host
        BY <1>1
    <2>1. Len(k) = 1 /\ k[1] = 1 /\ n = 4
        BY <2>0, <1>5, AddressPieces, Fields
    <2>2. First(s, 1) = k /\ Behind(s, 1) = r /\ ~(Len(s) < 1)
        BY <1>2, <1>4, <2>1
    <2>3. ReadAddress(s) = Ok(Address("v4", h, FromU16(p)), t)
        <3>1. First(First(r, 6), 4) = h /\ SubSeq(First(r, 6), 5, 6) = p /\ Behind(r, 6) = t /\ ~(Len(r) < 6)
            BY <1>3, <2>1
        <3>2. First(s, 1)[1] = 1
            BY <2>1, <2>2, Zenon
        <3> HIDE DEF s
        <3> QED
            BY <2>2, <3>1, <3>2, ReadsV4
    <2> QED
        BY <1>1, <1>5, <2>3, Fields
<1>6. CASE a.type = "v6"
    <2>0. k = Head4(a) /\ h = a.host
        BY <1>1
    <2>1. Len(k) = 1 /\ k[1] = 4 /\ n = 16
        BY <2>0, <1>6, AddressPieces, Fields
    <2>2. First(s, 1) = k /\ Behind(s, 1) = r /\ ~(Len(s) < 1)
        BY <1>2, <1>4, <2>1
    <2>3. ReadAddress(s) = Ok(Address("v6", h, FromU16(p)), t)
        <3>1. First(First(r, 18), 16) = h /\ SubSeq(First(r, 18), 17, 18) = p /\ Behind(r, 18) = t /\ ~(Len(r) < 18)
            BY <1>3, <2>1
        <3>2. First(s, 1)[1] = 4
            BY <2>1, <2>2, Zenon
        <3> HIDE DEF s
        <3> QED
            BY <2>2, <3>1, <3>2, ReadsV6
    <2> QED
        BY <1>1, <1>6, <2>3, Fields
<1>7. CASE a.type = "domain"
    <2>1. k = <<3, n>> /\ 3 \in Byte /\ n \in Byte
        BY <1>1, <1>7, Fields DEF Head4, Byte
    <2>2. k = <<3>> \o <<n>> /\ <<3>> \in Seq(Byte) /\ <<n>> \in Seq(Byte) /\ <<3>>[1] = 3 /\ <<n>>[1] = n
          /\ Len(<<3>>) = 1 /\ Len(<<n>>) = 1
        BY <2>1, Bytes
    <2>3. PICK j \in Seq(Byte), m \in Seq(Byte) : j = <<3>> /\ m = <<n>> /\ k = j \o m /\ j[1] = 3 /\ m[1] = n /\ Len(j) = 1 /\ Len(m) = 1
        BY <2>2, Zenon
    <2>4. k \o r = j \o (m \o r) /\ m \o r \in Seq(Byte)
        BY <1>3, <2>3, ConcatAssociative, ConcatProperties
    <2>5. First(s, 1) = j /\ Behind(s, 1) = m \o r /\ ~(Len(s) < 1)
        <3>1. First(j \o (m \o r), Len(j)) = j /\ Behind(j \o (m \o r), Len(j)) = m \o r /\ Len(j \o (m \o r)) >= Len(j)
            BY <2>4, Cuts
        <3>2. First(j \o (m \o r), 1) = j /\ Behind(j \o (m \o r), 1) = m \o r /\ Len(j \o (m \o r)) >= 1
            BY <3>1, <2>3, Zenon
        <3>3. s = j \o (m \o r)
            BY <1>2, <2>4, Zenon
        <3>4. Len(j \o (m \o r)) \in Nat
            BY <2>4, ConcatProperties, LenProperties
        <3>5. ~(Len(j \o (m \o r)) < 1)
            BY <3>2, <3>4
        <3> QED
            BY <3>2, <3>3, <3>5, Zenon
    <2>6. First(m \o r, 1) = m /\ Behind(m \o r, 1) = r /\ ~(Len(m \o r) < 1)
        <3>1. First(m \o r, Len(m)) = m /\ Behind(m \o r, Len(m)) = r /\ Len(m \o r) >= Len(m)
            BY <1>3, Cuts
        <3> QED
            BY <2>3, <3>1
    <2>7. ReadAddress(s) = IF Utf8(h) THEN Ok(Address("domain", h, FromU16(p)), t) ELSE Err("AddressDomainInvalidEncoding")
        <3>1. First(s, 1)[1] = 3 /\ First(m \o r, 1)[1] = n
            BY <2>3, <2>5, <2>6, Zenon
        <3>2. /\ Len(r) >= 0 /\ ~(Len(m \o r) < 1) /\ ~(Len(r) < n + 2)
              /\ First(First(r, n + 2), n) = h /\ SubSeq(First(r, n + 2), n + 1, n + 2) = p /\ Behind(r, n + 2) = t
            BY <1>3, <2>6
        <3>3. n = First(m \o r, 1)[1] /\ r = Behind(m \o r, 1) /\ m \o r = Behind(s, 1)
            BY <3>1, <2>5, <2>6, Zenon
        <3> HIDE DEF s, n
        <3>4. /\ ~(Len(m \o r) < 1) /\ ~(Len(r) < n + 2) /\ Utf8(First(First(r, n + 2), n)) => ReadAddress(s) =
                     Ok(Address("domain", First(First(r, n + 2), n), FromU16(SubSeq(First(r, n + 2), n + 1, n + 2))), Behind(r, n + 2))
              /\ ~(Len(m \o r) < 1) /\ ~(Len(r) < n + 2) /\ ~Utf8(First(First(r, n + 2), n)) =>
                     ReadAddress(s) = Err("AddressDomainInvalidEncoding")
            BY <3>1, <3>3, <2>5, ReadsDomain, Zenon
        <3> QED
            BY <3>2, <3>4, Zenon
    <2> QED
        BY <1>1, <1>7, <2>7, Fields
<1> QED
    BY <1>5, <1>6, <1>7, Fields

-----------------------------------------------------------------------------
(***************************************************************************)
(* Messages in parts.  A reader that succeeds on the bytes that have       *)
(* arrived has what it would have with all of them, and a reader never     *)
(* takes more than its message.                                            *)
(***************************************************************************)

\* What has been read does not change when more arrives.
Kept(s, t, n) ==
    /\ First(s \o t, n) = First(s, n) /\ Behind(s \o t, n) = Behind(s, n) \o t
    /\ ~(Len(s \o t) < n) /\ Behind(s, n) \in Seq(Byte) /\ First(s, n) \in Seq(Byte) /\ s \o t \in Seq(Byte)
LEMMA Arriving ==
    ASSUME NEW s \in Seq(Byte), NEW t \in Seq(Byte), NEW n \in Nat, ~(Len(s) < n)
    PROVE  Kept(s, t, n)
<1>1. Len(s) \in Nat /\ Len(t) \in Nat
    BY LenProperties
<1>2. n \in 0 .. Len(s)
    BY <1>1
<1>3. First(s \o t, n) = First(s, n) /\ Behind(s \o t, n) = Behind(s, n) \o t
    BY <1>2, Longer
<1>4. First(s, n) \in Seq(Byte) /\ Behind(s, n) \in Seq(Byte)
    BY <1>2, Parts
<1>5. s \o t \in Seq(Byte) /\ Len(s \o t) = Len(s) + Len(t)
    BY ConcatProperties
<1>6. ~(Len(s \o t) < n)
    BY <1>1, <1>5
<1> QED
    BY <1>3, <1>4, <1>5, <1>6, Zenon DEF Kept

LEMMA HeadByte ==
    ASSUME NEW w \in Seq(Byte), Len(w) = 1
    PROVE  w[1] \in Byte
<1>1. 1 \in 1 .. Len(w)
    OBVIOUS
<1> QED
    BY <1>1, ElementOfSeq

\* What a reader made of a part of the bytes it makes of all of them.
Stays(r, q, t) == (r.err = "ok" => q = Ok(r.v, r.rest \o t)) /\ r.rest \in Seq(Byte)

LEMMA ErrStays ==
    ASSUME NEW e, e # "ok", NEW q, NEW t
    PROVE  Stays(Err(e), q, t)
<1>1. Err(e).err = e /\ Err(e).rest = <<>>
    BY DEF Err
<1>2. <<>> \in Seq(Byte)
    OBVIOUS
<1> QED
    BY <1>1, <1>2, Zenon DEF Stays

LEMMA OkStays ==
    ASSUME NEW v, NEW w, w \in Seq(Byte), NEW t
    PROVE  Stays(Ok(v, w), Ok(v, w \o t), t)
<1>1. Ok(v, w).v = v /\ Ok(v, w).rest = w
    BY DEF Ok
<1> QED
    BY <1>1, Zenon DEF Stays

LEMMA AddressStays ==
    ASSUME NEW s \in Seq(Byte), NEW t \in Seq(Byte)
    PROVE  Stays(ReadAddress(s), ReadAddress(s \o t), t)
<1>1. CASE Len(s) < 1
    <2>1. ReadAddress(s) = Err("eof")
        BY <1>1, ReadAddressIs
    <2> QED
        BY <2>1, ErrStays
<1>2. CASE ~(Len(s) < 1)
    <2> DEFINE k == First(s, 1)[1]
    <2>1. Kept(s, t, 1)
        BY <1>2, Arriving
    <2>2. PICK r \in Seq(Byte) : r = Behind(s, 1)
        BY <2>1, Zenon DEF Kept
    <2>3. First(s \o t, 1)[1] = k /\ Behind(s \o t, 1) = r \o t /\ ~(Len(s \o t) < 1)
        BY <2>1, <2>2, Zenon DEF Kept
    <2> DEFINE x == s \o t
    <2>4. First(x, 1)[1] = k /\ Behind(x, 1) = r \o t /\ ~(Len(x) < 1)
        BY <2>3
    <2> HIDE DEF k, x
    <2>5. CASE k = 1
        <3>1. CASE Len(r) < 6
            <4>1. ReadAddress(s) = Err("eof")
                BY <1>2, <2>2, <2>5, <3>1, ReadsV4, Zenon DEF k
            <4> QED
                BY <4>1, ErrStays
        <3>2. CASE ~(Len(r) < 6)
            <4> DEFINE v == Address("v4", First(First(r, 6), 4), FromU16(SubSeq(First(r, 6), 5, 6)))
            <4>1. ReadAddress(s) = Ok(v, Behind(r, 6))
                BY <1>2, <2>2, <2>5, <3>2, ReadsV4, Zenon DEF k
            <4>2. Kept(r, t, 6)
                BY <3>2, Arriving
            <4> DEFINE y == r \o t
            <4>3. First(y, 6) = First(r, 6) /\ Behind(y, 6) = Behind(r, 6) \o t /\ ~(Len(y) < 6) /\ Behind(r, 6) \in Seq(Byte)
                BY <4>2, Zenon DEF Kept
            <4>4. y = Behind(x, 1)
                BY <2>4
            <4> HIDE DEF y
            <4>5. ReadAddress(x) = Ok(Address("v4", First(First(y, 6), 4), FromU16(SubSeq(First(y, 6), 5, 6))), Behind(y, 6))
                BY <2>4, <2>5, <4>3, <4>4, ReadsV4, Zenon
            <4>6. ReadAddress(x) = Ok(v, Behind(r, 6) \o t)
                BY <4>5, <4>3, Zenon
            <4> HIDE DEF v
            <4>7. Stays(Ok(v, Behind(r, 6)), Ok(v, Behind(r, 6) \o t), t)
                BY <4>3, OkStays, Zenon
            <4> QED
                BY <4>1, <4>6, <4>7, Zenon DEF x
        <3> QED
            BY <3>1, <3>2
    <2>6. CASE k = 4
        <3>1. CASE Len(r) < 18
            <4>1. ReadAddress(s) = Err("eof")
                BY <1>2, <2>2, <2>6, <3>1, ReadsV6, Zenon DEF k
            <4> QED
                BY <4>1, ErrStays
        <3>2. CASE ~(Len(r) < 18)
            <4> DEFINE v == Address("v6", First(First(r, 18), 16), FromU16(SubSeq(First(r, 18), 17, 18)))
            <4>1. ReadAddress(s) = Ok(v, Behind(r, 18))
                BY <1>2, <2>2, <2>6, <3>2, ReadsV6, Zenon DEF k
            <4>2. Kept(r, t, 18)
                BY <3>2, Arriving
            <4> DEFINE y == r \o t
            <4>3. First(y, 18) = First(r, 18) /\ Behind(y, 18) = Behind(r, 18) \o t /\ ~(Len(y) < 18) /\ Behind(r, 18) \in Seq(Byte)
                BY <4>2, Zenon DEF Kept
            <4>4. y = Behind(x, 1)
                BY <2>4
            <4> HIDE DEF y
            <4>5. ReadAddress(x) = Ok(Address("v6", First(First(y, 18), 16), FromU16(SubSeq(First(y, 18), 17, 18))), Behind(y, 18))
                BY <2>4, <2>6, <4>3, <4>4, ReadsV6, Zenon
            <4>6. ReadAddress(x) = Ok(v, Behind(r, 18) \o t)
                BY <4>5, <4>3, Zenon
            <4> HIDE DEF v
            <4>7. Stays(Ok(v, Behind(r, 18)), Ok(v, Behind(r, 18) \o t), t)
                BY <4>3, OkStays, Zenon
            <4> QED
                BY <4>1, <4>6, <4>7, Zenon DEF x
        <3> QED
            BY <3>1, <3>2
    <2>7. CASE k = 3
        <3>1. CASE Len(r) < 1
            <4>1. ReadAddress(s) = Err("eof")
                BY <1>2, <2>2, <2>7, <3>1, ReadsDomain, Zenon DEF k
            <4> QED
                BY <4>1, ErrStays
        <3>2. CASE ~(Len(r) < 1)
            <4>1. Kept(r, t, 1)
                BY <3>2, Arriving
            <4>2. PICK q \in Seq(Byte) : q = Behind(r, 1)
                BY <4>1, Zenon DEF Kept
            <4> DEFINE y == r \o t
                       n == First(r, 1)[1]
                       z == q \o t
            <4>3. First(y, 1)[1] = n /\ Behind(y, 1) = z /\ ~(Len(y) < 1)
                BY <4>1, <4>2, Zenon DEF Kept
            <4>4. y = Behind(x, 1)
                BY <2>4
            <4>5. n \in Nat
                <5>1. 1 \in 0 .. Len(r)
                    BY <3>2, LenProperties
                <5>2. First(r, 1) \in Seq(Byte) /\ Len(First(r, 1)) = 1
                    BY <5>1, Parts
                <5>3. \A w \in Seq(Byte) : Len(w) = 1 => w[1] \in Byte
                    BY HeadByte
                <5> QED
                    BY <5>2, <5>3, Bytes, Zenon
            <4>6. CASE Len(q) < n + 2
                <5>1. ReadAddress(s) = Err("eof")
                    BY <1>2, <2>2, <2>7, <3>2, <4>2, <4>6, ReadsDomain, Zenon DEF k
                <5> QED
                    BY <5>1, ErrStays
            <4>7. CASE ~(Len(q) < n + 2)
                <5> DEFINE b == First(q, n + 2)
                           v == Address("domain", First(b, n), FromU16(SubSeq(b, n + 1, n + 2)))
                <5>1. Kept(q, t, n + 2)
                    <6>1. n + 2 \in Nat
                        BY <4>5
                    <6> HIDE DEF n
                    <6> QED
                        BY <6>1, <4>7, Arriving
                <5>2. First(z, n + 2) = b /\ Behind(z, n + 2) = Behind(q, n + 2) \o t /\ ~(Len(z) < n + 2) /\ Behind(q, n + 2) \in Seq(Byte)
                    BY <5>1, Zenon DEF Kept
                <5> HIDE DEF y, z
                <5>3. CASE Utf8(First(b, n))
                    <6>1. ReadAddress(s) = Ok(v, Behind(q, n + 2))
                        BY <1>2, <2>2, <2>7, <3>2, <4>2, <4>7, <5>3, ReadsDomain, Zenon DEF k
                    <6>2. ReadAddress(x) = Ok(Address("domain", First(First(z, n + 2), n), FromU16(SubSeq(First(z, n + 2), n + 1, n + 2))), Behind(z, n + 2))
                        <7>1. n = First(y, 1)[1] /\ z = Behind(y, 1) /\ First(x, 1)[1] = 3
                            BY <4>3, <2>4, <2>7, Zenon
                        <7>2. Utf8(First(First(z, n + 2), n))
                            BY <5>2, <5>3, Zenon
                        <7> HIDE DEF n, b
                        <7> QED
                            BY <2>4, <4>3, <4>4, <5>2, <7>1, <7>2, ReadsDomain, Zenon
                    <6>3. ReadAddress(x) = Ok(v, Behind(q, n + 2) \o t)
                        BY <6>2, <5>2, Zenon
                    <6> HIDE DEF v, n
                    <6>4. Stays(Ok(v, Behind(q, n + 2)), Ok(v, Behind(q, n + 2) \o t), t)
                        BY <5>2, OkStays, Zenon
                    <6> QED
                        BY <6>1, <6>3, <6>4, Zenon DEF x
                <5>4. CASE ~Utf8(First(b, n))
                    <6>1. ReadAddress(s) = Err("AddressDomainInvalidEncoding")
                        BY <1>2, <2>2, <2>7, <3>2, <4>2, <4>7, <5>4, ReadsDomain, Zenon DEF k
                    <6> QED
                        BY <6>1, ErrStays
                <5> QED
                    BY <5>3, <5>4, Zenon
            <4> QED
                BY <4>6, <4>7, Zenon
        <3> QED
            BY <3>1, <3>2, Zenon
    <2>8. CASE k \notin {1, 3, 4}
        <3>1. ReadAddress(s) = Err("AddressTypeNotSupported")
            BY <1>2, <2>8, ReadAddressIs DEF k
        <3> QED
            BY <3>1, ErrStays
    <2> QED
        BY <2>5, <2>6, <2>7, <2>8, Zenon
<1> QED
    BY <1>1, <1>2, Zenon

\* A part s of the bytes h \o x, u being the rest of them, holds all of h.
Peels(s, n, h, x, u) ==
    /\ First(s, n) = h /\ Behind(s, n) \in Seq(Byte) /\ Behind(s, n) \o u = x /\ x \in Seq(Byte) /\ ~(Len(s) < n)
LEMMA Peeled ==
    ASSUME NEW s \in Seq(Byte), NEW u \in Seq(Byte), NEW h \in Seq(Byte), NEW x \in Seq(Byte), NEW n \in Nat,
           Len(h) = n, s \o u = h \o x, ~(Len(s) < n)
    PROVE  Peels(s, n, h, x, u)
<1>1. Kept(s, u, n)
    BY Arriving
<1>2. First(h \o x, Len(h)) = h /\ Behind(h \o x, Len(h)) = x
    BY Cuts
<1>3. First(s \o u, n) = First(s, n) /\ Behind(s \o u, n) = Behind(s, n) \o u /\ Behind(s, n) \in Seq(Byte)
    BY <1>1, Zenon DEF Kept
<1>4. First(s, n) = h /\ Behind(s, n) \o u = x
    BY <1>2, <1>3, Zenon
<1> QED
    BY <1>3, <1>4, Zenon DEF Peels

\* Concatenation, in the forms the proofs need it.
Then2(h, w, t) == (h \o w) \o t = h \o (w \o t) /\ h \o w \in Seq(Byte) /\ w \o t \in Seq(Byte)
                     /\ h \o (w \o t) \in Seq(Byte)
LEMMA Joining ==
    ASSUME NEW h \in Seq(Byte), NEW w \in Seq(Byte), NEW t \in Seq(Byte)
    PROVE  Then2(h, w, t)
<1>1. (h \o w) \o t = h \o (w \o t)
    BY ConcatAssociative
<1>2. h \o w \in Seq(Byte)
    BY ConcatProperties
<1>3. PICK y \in Seq(Byte) : y = w \o t
    BY ConcatProperties
<1>4. h \o y \in Seq(Byte)
    BY ConcatProperties
<1> QED
    BY <1>1, <1>2, <1>3, <1>4, Zenon DEF Then2

Empties(s) == s \o <<>> = s /\ <<>> \o s = s
LEMMA Nothing ==
    /\ <<>> \in Seq(Byte)
    /\ \A s \in Seq(Byte) : Empties(s)
<1>1. \A s \in Seq(Byte) : s \o <<>> = s /\ <<>> \o s = s
    OBVIOUS
<1> QED
    BY <1>1 DEF Empties

\* A reader that saw a part s of the bytes of v and of t read v, or nothing.
Means(r, v, t, u) == r.rest \in Seq(Byte) /\ (r.err = "ok" => r.v = v /\ r.rest \o u = t)

LEMMA ErrMeans ==
    ASSUME NEW e, e # "ok", NEW v, NEW t, NEW u
    PROVE  Means(Err(e), v, t, u)
<1>1. Err(e).err = e /\ Err(e).rest = <<>>
    BY DEF Err
<1> QED
    BY <1>1, Nothing, Zenon DEF Means

LEMMA OkMeans ==
    ASSUME NEW v, NEW w, w \in Seq(Byte), NEW t, NEW u, w \o u = t
    PROVE  Means(Ok(v, w), v, t, u)
<1>1. Ok(v, w).v = v /\ Ok(v, w).rest = w
    BY DEF Ok
<1> QED
    BY <1>1, Zenon DEF Means

LEMMA AddressMeans ==
    ASSUME NEW a, WellFormed(a), NEW s \in Seq(Byte), NEW u \in Seq(Byte), NEW t \in Seq(Byte),
           s \o u = WriteAddress(a) \o t
    PROVE  Means(ReadAddress(s), a, t, u)
<1>1. Stays(ReadAddress(s), ReadAddress(s \o u), u)
    BY AddressStays
<1>2. ReadAddress(s \o u) =
          IF a.type = "domain" /\ ~Utf8(a.host) THEN Err("AddressDomainInvalidEncoding") ELSE Ok(a, t)
    BY AddressReadsBack, Zenon
<1>3. ReadAddress(s).err = "ok" => ReadAddress(s \o u) = Ok(ReadAddress(s).v, ReadAddress(s).rest \o u)
    BY <1>1, Zenon DEF Stays
<1>4. \A v, w : Ok(v, w) # Err("AddressDomainInvalidEncoding") /\ Ok(v, w).v = v /\ Ok(v, w).rest = w
    BY DEF Ok, Err
<1>5. ReadAddress(s).err = "ok" => ReadAddress(s).v = a /\ ReadAddress(s).rest \o u = t
    <2> SUFFICES ASSUME ReadAddress(s).err = "ok" PROVE ReadAddress(s).v = a /\ ReadAddress(s).rest \o u = t
        OBVIOUS
    <2>1. ReadAddress(s \o u) = Ok(ReadAddress(s).v, ReadAddress(s).rest \o u)
        BY <1>3
    <2>2. CASE a.type = "domain" /\ ~Utf8(a.host)
        <3>1. Err("AddressDomainInvalidEncoding") = Ok(ReadAddress(s).v, ReadAddress(s).rest \o u)
            BY <1>2, <2>1, <2>2, Zenon
        <3> QED
            BY <3>1, <1>4, Zenon
    <2>3. CASE ~(a.type = "domain" /\ ~Utf8(a.host))
        <3>1. Ok(a, t) = Ok(ReadAddress(s).v, ReadAddress(s).rest \o u)
            BY <1>2, <2>1, <2>3, Zenon
        <3> DEFINE v == ReadAddress(s).v
                   w == ReadAddress(s).rest \o u
        <3> HIDE DEF v, w
        <3>2. Ok(a, t) = Ok(v, w)
            BY <3>1 DEF v, w
        <3>3. a = v /\ t = w
            BY <3>2 DEF Ok
        <3> QED
            BY <3>3 DEF v, w
    <2> QED
        BY <2>2, <2>3
<1> QED
    BY <1>1, <1>5, Zenon DEF Means, Stays

\* The readers of three bytes and an address.
LEMMA RequestIs ==
    ASSUME NEW s
    PROVE  /\ Len(s) < 3 => ReadRequest(s) = Err("eof")
           /\ ~(Len(s) < 3) => LET b == First(s, 3)
                                   a == ReadAddress(Behind(s, 3)) IN
                 ReadRequest(s) = IF b[1] # 5 THEN Err("UnsupportedSocksVersion")
                                  ELSE IF ~IsCommand(b[2]) THEN Err("UnsupportedCommand")
                                  ELSE IF a.err = "ok" THEN Ok([command |-> Command(b[2]), addr |-> a.v], a.rest) ELSE a
BY DEF ReadRequest, Exact, First, Behind, Version5

LEMMA Commands ==
    \A c \in {"connect", "bind", "associate"} :
        /\ CommandCode[c] \in Byte /\ IsCommand(CommandCode[c]) /\ Command(CommandCode[c]) = c
<1>1. DOMAIN CommandCode = {"connect", "bind", "associate"}
    BY DEF CommandCode
<1>2. CommandCode["connect"] = 1 /\ CommandCode["bind"] = 2 /\ CommandCode["associate"] = 3
    BY DEF CommandCode
<1>3. \A c, d \in {"connect", "bind", "associate"} : CommandCode[c] = CommandCode[d] => c = d
    BY <1>2
<1>4. \A c \in {"connect", "bind", "associate"} : CommandCode[c] \in Byte
    BY <1>2 DEF Byte
<1>5. \A c \in {"connect", "bind", "associate"} : IsCommand(CommandCode[c])
    BY <1>1 DEF IsCommand
<1>6. ASSUME NEW c \in {"connect", "bind", "associate"} PROVE Command(CommandCode[c]) = c
    <2>1. \E d \in DOMAIN CommandCode : CommandCode[d] = CommandCode[c]
        BY <1>1
    <2>2. Command(CommandCode[c]) \in DOMAIN CommandCode /\ CommandCode[Command(CommandCode[c])] = CommandCode[c]
        BY <2>1, Zenon DEF Command
    <2> QED
        BY <1>1, <1>3, <2>2
<1> QED
    BY <1>4, <1>5, <1>6

\* The three bytes before an address.
LEMMA HeadAndAddress ==
    ASSUME NEW h \in Seq(Byte), Len(h) = 3, NEW a, WellFormed(a), NEW t \in Seq(Byte),
           NEW s \in Seq(Byte), NEW u \in Seq(Byte), s \o u = (h \o WriteAddress(a)) \o t, ~(Len(s) < 3)
    PROVE  First(s, 3) = h /\ Means(ReadAddress(Behind(s, 3)), a, t, u)
<1>1. PICK w \in Seq(Byte) : w = WriteAddress(a)
    BY AddressTyped
<1>2. Then2(h, w, t)
    BY Joining
<1>3. s \o u = h \o (w \o t) /\ w \o t \in Seq(Byte)
    BY <1>1, <1>2, Zenon DEF Then2
<1>4. Peels(s, 3, h, w \o t, u)
    <2>1. PICK x \in Seq(Byte) : x = w \o t
        BY <1>3
    <2>2. s \o u = h \o x
        BY <1>3, <2>1, Zenon
    <2>3. Peels(s, 3, h, x, u)
        BY <2>2, Peeled
    <2> QED
        BY <2>1, <2>3, Zenon
<1>5. PICK r \in Seq(Byte) : r = Behind(s, 3)
    BY <1>4, Zenon DEF Peels
<1>6. r \o u = WriteAddress(a) \o t /\ First(s, 3) = h
    BY <1>1, <1>4, <1>5, Zenon DEF Peels
<1> QED
    BY <1>5, <1>6, AddressMeans, Zenon

LEMMA RequestMeans ==
    ASSUME NEW c \in {"connect", "bind", "associate"}, NEW a, WellFormed(a),
           NEW s \in Seq(Byte), NEW u \in Seq(Byte), NEW t \in Seq(Byte), s \o u = WriteRequest(c, a) \o t
    PROVE  Means(ReadRequest(s), [command |-> c, addr |-> a], t, u)
<1>1. CASE Len(s) < 3
    BY <1>1, RequestIs, ErrMeans
<1>2. CASE ~(Len(s) < 3)
    <2>0. 5 \in Byte /\ 0 \in Byte /\ CommandCode[c] \in Byte
        <3>1. 5 \in Byte /\ 0 \in Byte
            BY DEF Byte
        <3>2. CommandCode[c] \in Byte
            BY Commands, Zenon
        <3> QED
            BY <3>1, <3>2
    <2>1. PICK h \in Seq(Byte) : h = <<5, CommandCode[c], 0>> /\ Len(h) = 3 /\ h[1] = 5 /\ h[2] = CommandCode[c]
        <3> DEFINE k == CommandCode[c]
        <3>0. 5 \in Byte /\ 0 \in Byte /\ k \in Byte
            BY <2>0
        <3> HIDE DEF k
        <3> DEFINE g == <<5, k, 0>>
        <3>1. g \in Seq(Byte) /\ Len(g) = 3 /\ g[1] = 5 /\ g[2] = k
            BY <3>0, Bytes
        <3> HIDE DEF g
        <3>2. PICK h \in Seq(Byte) : h = g
            BY <3>1
        <3> QED
            BY <3>1, <3>2 DEF g, k
    <2>2. s \o u = (h \o WriteAddress(a)) \o t
        BY <2>1, Zenon DEF WriteRequest, Version5
    <2>3. First(s, 3) = h /\ Means(ReadAddress(Behind(s, 3)), a, t, u)
        BY <1>2, <2>1, <2>2, HeadAndAddress, Zenon
    <2> DEFINE r == ReadAddress(Behind(s, 3))
    <2>4. ReadRequest(s) = IF r.err = "ok" THEN Ok([command |-> c, addr |-> r.v], r.rest) ELSE r
        <3>1. IsCommand(CommandCode[c]) /\ Command(CommandCode[c]) = c
            BY Commands
        <3>2. First(s, 3)[1] = 5 /\ First(s, 3)[2] = CommandCode[c]
            BY <2>1, <2>3, Zenon
        <3> DEFINE k == CommandCode[c]
        <3> HIDE DEF k
        <3>3. IsCommand(k) /\ Command(k) = c /\ First(s, 3)[2] = k
            BY <3>1, <3>2, Zenon DEF k
        <3>4. ReadRequest(s) = IF First(s, 3)[1] # 5 THEN Err("UnsupportedSocksVersion")
                                  ELSE IF ~IsCommand(First(s, 3)[2]) THEN Err("UnsupportedCommand")
                                  ELSE IF r.err = "ok" THEN Ok([command |-> Command(First(s, 3)[2]), addr |-> r.v], r.rest) ELSE r
            BY <1>2, RequestIs
        <3> HIDE DEF r
        <3> QED
            BY <3>2, <3>3, <3>4, Zenon
    <2> HIDE DEF r
    <2>5. CASE r.err = "ok"
        <3>1. r.v = a /\ r.rest \o u = t /\ r.rest \in Seq(Byte)
            BY <2>3, <2>5, Zenon DEF Means, r
        <3>2. ReadRequest(s) = Ok([command |-> c, addr |-> a], r.rest)
            BY <2>4, <2>5, <3>1, Zenon
        <3> QED
            BY <3>1, <3>2, OkMeans, Zenon
    <2>6. CASE r.err # "ok"
        <3>1. ReadRequest(s) = r
            BY <2>4, <2>6, Zenon
        <3> QED
            BY <3>1, <2>3, <2>6, Zenon DEF Means, r
    <2> QED
        BY <2>5, <2>6, Zenon
<1> QED
    BY <1>1, <1>2, Zenon

Replies5 == {"Succeeded", "GeneralFailure", "ConnectionNotAllowed", "NetworkUnreachable", "HostUnreachable",
             "ConnectionRefused", "TtlExpired", "CommandNotSupported", "AddressTypeNotSupported"}
LEMMA ReplyCodes ==
    /\ DOMAIN ReplyCode = Replies5
    /\ \A c \in Replies5 : ReplyCode[c] \in Byte /\ ReplyOf(ReplyCode[c]) = c
<1>1. DOMAIN ReplyCode = Replies5
    BY DEF ReplyCode, Replies5
<1>2. /\ ReplyCode["Succeeded"] = 0 /\ ReplyCode["GeneralFailure"] = 1 /\ ReplyCode["ConnectionNotAllowed"] = 2
      /\ ReplyCode["NetworkUnreachable"] = 3 /\ ReplyCode["HostUnreachable"] = 4 /\ ReplyCode["ConnectionRefused"] = 5
      /\ ReplyCode["TtlExpired"] = 6 /\ ReplyCode["CommandNotSupported"] = 7 /\ ReplyCode["AddressTypeNotSupported"] = 8
    BY DEF ReplyCode
<1>3. \A c, d \in Replies5 : ReplyCode[c] = ReplyCode[d] => c = d
    BY <1>2 DEF Replies5
<1>4. \A c \in Replies5 : ReplyCode[c] \in Byte
    BY <1>2 DEF Byte, Replies5
<1>6. ASSUME NEW c \in Replies5 PROVE ReplyOf(ReplyCode[c]) = c
    <2>1. \E d \in DOMAIN ReplyCode : ReplyCode[d] = ReplyCode[c]
        BY <1>1
    <2>2. ReplyOf(ReplyCode[c]) \in DOMAIN ReplyCode /\ ReplyCode[ReplyOf(ReplyCode[c])] = ReplyCode[c]
        BY <2>1, Zenon DEF ReplyOf
    <2> QED
        BY <1>1, <1>3, <2>2
<1> QED
    BY <1>1, <1>4, <1>6

Results4 == {"RequestGranted", "RequestRejectedOrFailed", "RequestRejectedCannotConnect"}
LEMMA ResultCodes ==
    /\ DOMAIN ResultCode = Results4
    /\ \A c \in Results4 : ResultCode[c] \in Byte /\ ResultOf(ResultCode[c]) = c
<1>1. DOMAIN ResultCode = Results4
    BY DEF ResultCode, Results4
<1>2. /\ ResultCode["RequestGranted"] = 90 /\ ResultCode["RequestRejectedOrFailed"] = 91
      /\ ResultCode["RequestRejectedCannotConnect"] = 92
    BY DEF ResultCode
<1>3. \A c, d \in Results4 : ResultCode[c] = ResultCode[d] => c = d
    BY <1>2 DEF Results4
<1>4. \A c \in Results4 : ResultCode[c] \in Byte
    BY <1>2 DEF Byte, Results4
<1>6. ASSUME NEW c \in Results4 PROVE ResultOf(ResultCode[c]) = c
    <2>1. \E d \in DOMAIN ResultCode : ResultCode[d] = ResultCode[c]
        BY <1>1
    <2>2. ResultOf(ResultCode[c]) \in DOMAIN ResultCode /\ ResultCode[ResultOf(ResultCode[c])] = ResultCode[c]
        BY <2>1, Zenon DEF ResultOf
    <2> QED
        BY <1>1, <1>3, <2>2
<1> QED
    BY <1>1, <1>4, <1>6

\* What a client makes of a chosen method, a reply and a result.
LEMMA ChosenReads ==
    ASSUME NEW m \in Byte, NEW t \in Seq(Byte)
    PROVE  /\ ReadChosen(<<>>) = Err("eof") /\ ReadChosen(WriteChosen(m)) = Ok(m, <<>>)
           /\ ReadChosen(WriteChosen(m) \o t) = Ok(m, t)
           /\ WriteChosen(m) \in Seq(Byte) /\ Len(WriteChosen(m)) = 2 /\ WriteChosen(m) \o t \in Seq(Byte)
<1>0. 5 \in Byte
    BY DEF Byte
<1> DEFINE g == <<5, m>>
<1>1. g \in Seq(Byte) /\ Len(g) = 2 /\ g[1] = 5 /\ g[2] = m
    BY <1>0, Bytes
<1>2. WriteChosen(m) = g
    BY DEF WriteChosen, Version5
<1> HIDE DEF g
<1>3. \A s \in Seq(Byte) : /\ Len(s) < 2 => ReadChosen(s) = Err("eof")
                           /\ ~(Len(s) < 2) /\ First(s, 2)[1] = 5 => ReadChosen(s) = Ok(First(s, 2)[2], Behind(s, 2))
    BY DEF ReadChosen, Exact, First, Behind, Version5
<1>4. ASSUME NEW w \in Seq(Byte) PROVE ReadChosen(g \o w) = Ok(m, w) /\ g \o w \in Seq(Byte)
    <2>1. First(g \o w, Len(g)) = g /\ Behind(g \o w, Len(g)) = w /\ Len(g \o w) >= Len(g)
        BY <1>1, Cuts
    <2>2. g \o w \in Seq(Byte)
        BY <1>1, ConcatProperties
    <2> DEFINE y == g \o w
    <2>3. First(y, 2) = g /\ Behind(y, 2) = w /\ y \in Seq(Byte) /\ ~(Len(y) < 2)
        BY <2>1, <2>2, <1>1
    <2> HIDE DEF y
    <2>4. ReadChosen(y) = Ok(First(y, 2)[2], Behind(y, 2))
        BY <2>3, <1>1, <1>3
    <2> QED
        BY <1>1, <2>2, <2>3, <2>4, Zenon DEF y
<1>5. ReadChosen(<<>>) = Err("eof")
    <2>1. <<>> \in Seq(Byte) /\ Len(<<>>) < 2
        OBVIOUS
    <2> QED
        BY <2>1, <1>3, Zenon
<1>6. g \o <<>> = g
    BY <1>1, Nothing, Zenon DEF Empties
<1> QED
    BY <1>1, <1>2, <1>4, <1>5, <1>6, Nothing, Zenon

LEMMA ResponseIs ==
    ASSUME NEW s
    PROVE  /\ Len(s) < 3 => ReadResponse(s) = Err("eof")
           /\ ~(Len(s) < 3) => LET b == First(s, 3)
                                   a == ReadAddress(Behind(s, 3)) IN
                 ReadResponse(s) = IF b[1] # 5 THEN Err("UnsupportedSocksVersion")
                                   ELSE IF a.err = "ok" THEN Ok([reply |-> ReplyOf(b[2]), addr |-> a.v], a.rest) ELSE a
BY DEF ReadResponse, Exact, First, Behind, Version5

Utf8Address(a) == a.type = "domain" => Utf8(a.host)

LEMMA ResponseReads ==
    ASSUME NEW c \in Replies5, NEW a, WellFormed(a)
    PROVE  /\ ReadResponse(WriteResponse(c, a)) =
                  IF Utf8Address(a) THEN Ok([reply |-> c, addr |-> a], <<>>) ELSE Err("AddressDomainInvalidEncoding")
           /\ WriteResponse(c, a) \in Seq(Byte) /\ ReadResponse(<<>>) = Err("eof")
<1>0. 5 \in Byte /\ 0 \in Byte /\ ReplyCode[c] \in Byte /\ ReplyOf(ReplyCode[c]) = c
    <2>1. 5 \in Byte /\ 0 \in Byte
        BY DEF Byte
    <2> QED
        BY <2>1, ReplyCodes, Zenon
<1> DEFINE k == ReplyCode[c]
<1>1. 5 \in Byte /\ 0 \in Byte /\ k \in Byte /\ ReplyOf(k) = c
    BY <1>0
<1> HIDE DEF k
<1> DEFINE g == <<5, k, 0>>
<1>2. g \in Seq(Byte) /\ Len(g) = 3 /\ g[1] = 5 /\ g[2] = k
    BY <1>1, Bytes
<1>3. WriteResponse(c, a) = g \o WriteAddress(a)
    BY DEF WriteResponse, Version5, k
<1> HIDE DEF g
<1>4. PICK w \in Seq(Byte) : w = WriteAddress(a)
    BY AddressTyped
<1>5. First(g \o w, Len(g)) = g /\ Behind(g \o w, Len(g)) = w /\ Len(g \o w) >= Len(g)
    BY <1>2, Cuts
<1>6. g \o w \in Seq(Byte)
    BY <1>2, ConcatProperties
<1> DEFINE y == g \o w
<1>7. First(y, 3) = g /\ Behind(y, 3) = w /\ y \in Seq(Byte) /\ ~(Len(y) < 3)
    BY <1>2, <1>5, <1>6
<1> HIDE DEF y
<1> DEFINE r == ReadAddress(w)
<1>8. r = IF Utf8Address(a) THEN Ok(a, <<>>) ELSE Err("AddressDomainInvalidEncoding")
    <2>1. WriteAddress(a) \o <<>> = w
        BY <1>4, Nothing, Zenon DEF Empties
    <2>2. ReadAddress(WriteAddress(a) \o <<>>) =
               IF a.type = "domain" /\ ~Utf8(a.host) THEN Err("AddressDomainInvalidEncoding") ELSE Ok(a, <<>>)
        BY AddressReadsBack, Nothing, Zenon
    <2> QED
        BY <2>1, <2>2, Zenon DEF Utf8Address
<1> HIDE DEF r
<1>9. ReadResponse(y) = IF r.err = "ok" THEN Ok([reply |-> ReplyOf(g[2]), addr |-> r.v], r.rest) ELSE r
    <2>1. First(y, 3)[1] = 5 /\ First(y, 3)[2] = g[2]
        BY <1>2, <1>7, Zenon
    <2>2. ReadResponse(y) = IF First(y, 3)[1] # 5 THEN Err("UnsupportedSocksVersion")
                            ELSE IF r.err = "ok" THEN Ok([reply |-> ReplyOf(First(y, 3)[2]), addr |-> r.v], r.rest) ELSE r
        BY <1>7, ResponseIs DEF r
    <2> QED
        BY <2>1, <2>2, Zenon
<1>10. ReplyOf(g[2]) = c
    BY <1>1, <1>2, Zenon
<1>11. ReadResponse(<<>>) = Err("eof")
    BY DEF ReadResponse, Exact
<1>12. ReadResponse(y) = IF Utf8Address(a) THEN Ok([reply |-> c, addr |-> a], <<>>) ELSE Err("AddressDomainInvalidEncoding")
    <2>1. CASE Utf8Address(a)
        <3>1. r.err = "ok" /\ r.v = a /\ r.rest = <<>>
            BY <1>8, <2>1 DEF Ok
        <3> QED
            BY <1>9, <1>10, <2>1, <3>1, Zenon
    <2>2. CASE ~Utf8Address(a)
        <3>1. r.err # "ok" /\ r = Err("AddressDomainInvalidEncoding")
            BY <1>8, <2>2 DEF Err
        <3> QED
            BY <1>9, <2>2, <3>1, Zenon
    <2> QED
        BY <2>1, <2>2, Zenon
<1>13. y = WriteResponse(c, a)
    BY <1>3, <1>4, Zenon DEF y
<1> QED
    BY <1>7, <1>11, <1>12, <1>13, Zenon

LEMMA Result4Reads ==
    ASSUME NEW c \in Results4
    PROVE  /\ ReadResult4(WriteResult4(c)) = Ok(c, <<>>)
           /\ WriteResult4(c) \in Seq(Byte) /\ ReadResult4(<<>>) = Err("eof")
<1> DEFINE k == ResultCode[c]
<1>1. 0 \in Byte /\ k \in Byte /\ ResultOf(k) = c
    <2>1. 0 \in Byte
        BY DEF Byte
    <2> QED
        BY <2>1, ResultCodes, Zenon
<1> HIDE DEF k
<1> DEFINE g == <<0, k, 0, 0, 0, 0, 0, 0>>
<1>2. g \in Seq(Byte) /\ Len(g) = 8 /\ g[1] = 0 /\ g[2] = k
    BY <1>1
<1>3. WriteResult4(c) = g
    BY DEF WriteResult4, k
<1> HIDE DEF g
<1>4. First(g \o <<>>, Len(g)) = g /\ Behind(g \o <<>>, Len(g)) = <<>>
    BY <1>2, Cuts, Nothing
<1>5. g \o <<>> = g
    BY <1>2, Nothing, Zenon DEF Empties
<1>6. First(g, 8) = g /\ Behind(g, 8) = <<>> /\ ~(Len(g) < 8)
    BY <1>2, <1>4, <1>5
<1>7. ~(Len(g) < 8) /\ First(g, 8)[1] = 0 => ReadResult4(g) = Ok(ResultOf(First(g, 8)[2]), Behind(g, 8))
    BY DEF ReadResult4, Exact, First, Behind
<1>8. ReadResult4(<<>>) = Err("eof")
    BY DEF ReadResult4, Exact
<1> QED
    BY <1>1, <1>2, <1>3, <1>6, <1>7, <1>8, Zenon

\* Two bytes and what is behind them.
LEMMA TwoThen ==
    ASSUME NEW m \in Byte, NEW n \in Byte
    PROVE  <<m, n>> \in Seq(Byte) /\ Len(<<m, n>>) = 2 /\ <<m, n>>[1] = m /\ <<m, n>>[2] = n
BY Bytes

LEMMA HandshakeIs ==
    ASSUME NEW s
    PROVE  /\ Len(s) < 2 => ReadHandshake(s) = Err("eof")
           /\ ~(Len(s) < 2) => LET b == First(s, 2)
                                   r == Behind(s, 2) IN
                 ReadHandshake(s) = IF b[1] # 5 THEN Err("UnsupportedSocksVersion")
                                    ELSE IF Len(r) < b[2] THEN Err("eof") ELSE Ok(First(r, b[2]), Behind(r, b[2]))
BY DEF ReadHandshake, Exact, First, Behind, Version5

LEMMA TextLength ==
    ASSUME NEW x, IsText(x)
    PROVE  x \in Seq(Byte) /\ Len(x) \in Byte /\ Len(x) \in Nat
<1>1. x \in Seq(Byte) /\ Len(x) <= 255 /\ Len(x) \in Nat
    BY LenProperties DEF IsText
<1> DEFINE n == Len(x)
<1>2. n \in Nat /\ n <= 255
    BY <1>1
<1> HIDE DEF n
<1>3. n \in Byte
    BY <1>2 DEF Byte
<1> QED
    BY <1>1, <1>3 DEF n

LEMMA HandshakeMeans ==
    ASSUME NEW x, IsText(x), NEW s \in Seq(Byte), NEW u \in Seq(Byte), NEW t \in Seq(Byte),
           s \o u = WriteHandshake(x) \o t
    PROVE  Means(ReadHandshake(s), x, t, u)
<1>0. PICK y \in Seq(Byte) : y = x
    BY TextLength
<1> DEFINE n == Len(y)
<1>1. n \in Byte /\ n \in Nat /\ 5 \in Byte
    <2>1. 5 \in Byte
        BY DEF Byte
    <2> QED
        BY <1>0, <2>1, TextLength, Zenon
<1> HIDE DEF n
<1> DEFINE h == <<5, n>>
<1>2. h \in Seq(Byte) /\ Len(h) = 2 /\ h[1] = 5 /\ h[2] = n
    BY <1>1, TwoThen
<1>3. WriteHandshake(x) = h \o y
    BY <1>0, Zenon DEF WriteHandshake, Version5, n
<1> HIDE DEF h
<1>4. Then2(h, y, t)
    BY <1>2, Joining
<1>5. s \o u = h \o (y \o t) /\ y \o t \in Seq(Byte)
    BY <1>3, <1>4, Zenon DEF Then2
<1>6. CASE Len(s) < 2
    BY <1>6, HandshakeIs, ErrMeans
<1>7. CASE ~(Len(s) < 2)
    <2>1. Peels(s, 2, h, y \o t, u)
        <3>1. PICK z \in Seq(Byte) : z = y \o t
            BY <1>5
        <3>2. s \o u = h \o z
            BY <1>5, <3>1, Zenon
        <3>3. Peels(s, 2, h, z, u)
            BY <1>2, <1>7, <3>2, Peeled
        <3> QED
            BY <3>1, <3>3, Zenon
    <2>2. PICK r \in Seq(Byte) : r = Behind(s, 2)
        BY <2>1, Zenon DEF Peels
    <2>3. First(s, 2) = h /\ r \o u = y \o t
        BY <2>1, <2>2, Zenon DEF Peels
    <2>4. ReadHandshake(s) = IF Len(r) < n THEN Err("eof") ELSE Ok(First(r, n), Behind(r, n))
        <3>1. First(s, 2)[1] = 5 /\ First(s, 2)[2] = n
            BY <1>2, <2>3, Zenon
        <3>2. ReadHandshake(s) = IF First(s, 2)[1] # 5 THEN Err("UnsupportedSocksVersion")
                                 ELSE IF Len(r) < First(s, 2)[2] THEN Err("eof")
                                 ELSE Ok(First(r, First(s, 2)[2]), Behind(r, First(s, 2)[2]))
            BY <1>7, <2>2, HandshakeIs
        <3> QED
            BY <3>1, <3>2, Zenon
    <2>5. CASE Len(r) < n
        BY <2>4, <2>5, ErrMeans
    <2>6. CASE ~(Len(r) < n)
        <3>1. Peels(r, n, y, t, u)
            <4>1. Len(y) = n
                BY DEF n
            <4> QED
                BY <1>1, <2>3, <2>6, <4>1, Peeled
        <3>2. ReadHandshake(s) = Ok(x, Behind(r, n)) /\ Behind(r, n) \in Seq(Byte) /\ Behind(r, n) \o u = t
            BY <1>0, <2>4, <2>6, <3>1, Zenon DEF Peels
        <3> QED
            BY <3>2, OkMeans, Zenon
    <2> QED
        BY <2>5, <2>6
<1> QED
    BY <1>6, <1>7

\* The first byte read is the first byte sent.
LEMMA SameStart ==
    ASSUME NEW s \in Seq(Byte), NEW u \in Seq(Byte), NEW n \in Nat \ {0}, ~(Len(s) < n)
    PROVE  First(s, n)[1] = (s \o u)[1] /\ s[1] = (s \o u)[1]
<1>1. n \in 0 .. Len(s) /\ 1 \in 1 .. n /\ 1 \in 1 .. Len(s) /\ Len(s) \in Nat /\ Len(u) \in Nat
    BY LenProperties
<1>2. First(s, n)[1] = s[1]
    BY <1>1, Parts
<1>3. (s \o u)[1] = s[1]
    <2>1. \A i \in 1 .. Len(s) + Len(u) : (s \o u)[i] = IF i <= Len(s) THEN s[i] ELSE u[i - Len(s)]
        BY ConcatProperties
    <2> QED
        BY <1>1, <2>1
<1> QED
    BY <1>2, <1>3

\* What is not of the protocol is not read as if it were.
LEMMA WrongStart ==
    ASSUME NEW s \in Seq(Byte), NEW u \in Seq(Byte)
    PROVE  /\ (s \o u)[1] # 5 => ReadRequest(s).err # "ok" /\ ReadRequest(s).rest = <<>>
           /\ (s \o u)[1] # 1 => ReadPasswd(s).err # "ok" /\ ReadPasswd(s).rest = <<>>
<1>1. ASSUME (s \o u)[1] # 5 PROVE ReadRequest(s).err # "ok" /\ ReadRequest(s).rest = <<>>
    <2>1. CASE Len(s) < 3
        <3>1. ReadRequest(s) = Err("eof")
            BY <2>1, RequestIs
        <3> QED
            BY <3>1 DEF Err
    <2>2. CASE ~(Len(s) < 3)
        <3>0. First(s, 3)[1] = (s \o u)[1]
            BY <2>2, SameStart
        <3>1. ReadRequest(s) = Err("UnsupportedSocksVersion")
            BY <1>1, <2>2, <3>0, RequestIs
        <3> QED
            BY <3>1 DEF Err
    <2> QED
        BY <2>1, <2>2
<1>2. ASSUME (s \o u)[1] # 1 PROVE ReadPasswd(s).err # "ok" /\ ReadPasswd(s).rest = <<>>
    <2>1. CASE Len(s) < 1
        <3>1. ReadPasswd(s) = Err("eof")
            BY <2>1 DEF ReadPasswd, Exact
        <3> QED
            BY <3>1 DEF Err
    <2>2. CASE ~(Len(s) < 1)
        <3>0. First(s, 1)[1] = (s \o u)[1]
            BY <2>2, SameStart
        <3>1. First(s, 1)[1] # 1 => ReadPasswd(s) = Err("UnsupportedPasswdAuthVersion")
            BY <2>2 DEF ReadPasswd, Exact, First
        <3>2. ReadPasswd(s) = Err("UnsupportedPasswdAuthVersion")
            BY <1>2, <3>0, <3>1, Zenon
        <3> QED
            BY <3>2 DEF Err
    <2> QED
        BY <2>1, <2>2
<1> QED
    BY <1>1, <1>2

LEMMA PasswdIs ==
    ASSUME NEW s, NEW r1, r1 = Behind(s, 1), NEW n, n = First(r1, 1)[1], NEW r2, r2 = Behind(r1, 1),
           NEW r3, r3 = Behind(r2, n), NEW m, m = First(r3, 1)[1], NEW r4, r4 = Behind(r3, 1)
    PROVE  ReadPasswd(s) =
               IF Len(s) < 1 THEN Err("eof")
               ELSE IF First(s, 1)[1] # 1 THEN Err("UnsupportedPasswdAuthVersion")
               ELSE IF Len(r1) < 1 THEN Err("eof")
               ELSE IF n = 0 THEN Err("PasswdAuthInvalidRequest")
               ELSE IF Len(r2) < n \/ Len(r3) < 1 THEN Err("eof")
               ELSE IF m = 0 THEN Err("PasswdAuthInvalidRequest")
               ELSE IF Len(r4) < m THEN Err("eof")
               ELSE Ok([uname |-> First(r2, n), passwd |-> First(r4, m)], Behind(r4, m))
BY DEF ReadPasswd, Exact, First, Behind

Nested(a, b, x, c, y, t) ==
    /\ ((((a \o b) \o x) \o c) \o y) \o t = a \o (b \o (x \o (c \o (y \o t))))
    /\ y \o t \in Seq(Byte) /\ c \o (y \o t) \in Seq(Byte) /\ x \o (c \o (y \o t)) \in Seq(Byte)
    /\ b \o (x \o (c \o (y \o t))) \in Seq(Byte)
LEMMA Nesting ==
    ASSUME NEW a \in Seq(Byte), NEW b \in Seq(Byte), NEW x \in Seq(Byte), NEW c \in Seq(Byte), NEW y \in Seq(Byte),
           NEW t \in Seq(Byte)
    PROVE  Nested(a, b, x, c, y, t)
<1>1. PICK k1 \in Seq(Byte) : k1 = a \o b
    BY ConcatProperties
<1>2. PICK k2 \in Seq(Byte) : k2 = k1 \o x
    BY ConcatProperties
<1>3. PICK k3 \in Seq(Byte) : k3 = k2 \o c
    BY ConcatProperties
<1>4. PICK j1 \in Seq(Byte) : j1 = y \o t
    BY ConcatProperties
<1>5. PICK j2 \in Seq(Byte) : j2 = c \o j1
    BY ConcatProperties
<1>6. PICK j3 \in Seq(Byte) : j3 = x \o j2
    BY ConcatProperties
<1>7. PICK j4 \in Seq(Byte) : j4 = b \o j3
    BY ConcatProperties
<1>8. Then2(k3, y, t) /\ Then2(k2, c, j1) /\ Then2(k1, x, j2) /\ Then2(a, b, j3)
    BY Joining, Zenon
<1>9. (k3 \o y) \o t = a \o j4
    <2>1. (k3 \o y) \o t = k3 \o j1
        BY <1>4, <1>8, Zenon DEF Then2
    <2>2. k3 \o j1 = k2 \o j2
        BY <1>3, <1>5, <1>8, Zenon DEF Then2
    <2>3. k2 \o j2 = k1 \o j3
        BY <1>2, <1>6, <1>8, Zenon DEF Then2
    <2>4. k1 \o j3 = a \o j4
        BY <1>1, <1>7, <1>8, Zenon DEF Then2
    <2> QED
        BY <2>1, <2>2, <2>3, <2>4, Zenon
<1>10. ((((a \o b) \o x) \o c) \o y) \o t = (k3 \o y) \o t
    BY <1>1, <1>2, <1>3, Zenon
<1>11. a \o (b \o (x \o (c \o (y \o t)))) = a \o j4
    BY <1>4, <1>5, <1>6, <1>7, Zenon
<1>12. /\ y \o t \in Seq(Byte) /\ c \o (y \o t) \in Seq(Byte) /\ x \o (c \o (y \o t)) \in Seq(Byte)
       /\ b \o (x \o (c \o (y \o t))) \in Seq(Byte)
    BY <1>4, <1>5, <1>6, <1>7, Zenon
<1> QED
    BY <1>9, <1>10, <1>11, <1>12, Zenon DEF Nested

LEMMA PasswdMeans ==
    ASSUME NEW user, IsText(user), NEW passwd, IsText(passwd),
           NEW s \in Seq(Byte), NEW u \in Seq(Byte), NEW t \in Seq(Byte), s \o u = WritePasswd(user, passwd) \o t
    PROVE  Means(ReadPasswd(s), [uname |-> user, passwd |-> passwd], t, u)
<1>0. 1 \in Byte
    BY DEF Byte
<1>1. PICK x \in Seq(Byte), y \in Seq(Byte), n \in Byte, m \in Byte :
          x = user /\ y = passwd /\ n = Len(user) /\ m = Len(passwd) /\ n \in Nat /\ m \in Nat
    BY TextLength, Zenon
<1>2. PICK a \in Seq(Byte), b \in Seq(Byte), c \in Seq(Byte) :
          /\ a = <<1>> /\ b = <<n>> /\ c = <<m>> /\ Len(a) = 1 /\ Len(b) = 1 /\ Len(c) = 1
          /\ a[1] = 1 /\ b[1] = n /\ c[1] = m
    <2>1. PICK a \in Seq(Byte) : a = <<1>> /\ Len(a) = 1 /\ a[1] = 1
        BY <1>0, Bytes
    <2>2. PICK b \in Seq(Byte) : b = <<n>> /\ Len(b) = 1 /\ b[1] = n
        BY Bytes
    <2>3. PICK c \in Seq(Byte) : c = <<m>> /\ Len(c) = 1 /\ c[1] = m
        BY Bytes
    <2> QED
        BY <2>1, <2>2, <2>3, Zenon
<1>3. <<1, n>> = a \o b
    BY <1>2
<1>4. Nested(a, b, x, c, y, t)
    BY Nesting
<1>5. s \o u = a \o (b \o (x \o (c \o (y \o t))))
    <2>1. WritePasswd(user, passwd) = <<1, n>> \o x \o <<m>> \o y
        BY <1>1, Zenon DEF WritePasswd
    <2>2. WritePasswd(user, passwd) = (((a \o b) \o x) \o c) \o y
        BY <1>2, <1>3, <2>1, Zenon
    <2> QED
        BY <2>2, <1>4, Zenon DEF Nested
<1>6. PICK j1 \in Seq(Byte), j2 \in Seq(Byte), j3 \in Seq(Byte), j4 \in Seq(Byte) :
          j1 = y \o t /\ j2 = c \o j1 /\ j3 = x \o j2 /\ j4 = b \o j3
    BY <1>4, Zenon DEF Nested
<1>7. s \o u = a \o j4
    BY <1>5, <1>6, Zenon
<1> DEFINE r1 == Behind(s, 1)
           nn == First(r1, 1)[1]
           r2 == Behind(r1, 1)
           r3 == Behind(r2, nn)
           mm == First(r3, 1)[1]
           r4 == Behind(r3, 1)
           R == ReadPasswd(s)
<1>8. R =      IF Len(s) < 1 THEN Err("eof")
               ELSE IF First(s, 1)[1] # 1 THEN Err("UnsupportedPasswdAuthVersion")
               ELSE IF Len(r1) < 1 THEN Err("eof")
               ELSE IF nn = 0 THEN Err("PasswdAuthInvalidRequest")
               ELSE IF Len(r2) < nn \/ Len(r3) < 1 THEN Err("eof")
               ELSE IF mm = 0 THEN Err("PasswdAuthInvalidRequest")
               ELSE IF Len(r4) < mm THEN Err("eof")
               ELSE Ok([uname |-> First(r2, nn), passwd |-> First(r4, mm)], Behind(r4, mm))
    BY PasswdIs
<1> DEFINE v == [uname |-> user, passwd |-> passwd]
<1>9. Means(Err("eof"), v, t, u) /\ Means(Err("PasswdAuthInvalidRequest"), v, t, u)
    BY ErrMeans
<1> SUFFICES Means(R, v, t, u)
    OBVIOUS
<1> HIDE DEF R, v
<1>10. CASE Len(s) < 1
    BY <1>8, <1>9, <1>10, Zenon
<1>11. CASE ~(Len(s) < 1)
    <2>1. Peels(s, 1, a, j4, u)
        BY <1>2, <1>7, <1>11, Peeled
    <2>2. First(s, 1)[1] = 1
        BY <2>1, <1>2, Zenon DEF Peels
    <2>3. PICK q1 \in Seq(Byte) : q1 = r1 /\ q1 \o u = b \o j3
        BY <2>1, <1>6, Zenon DEF Peels
    <2>4. CASE Len(r1) < 1
        BY <1>8, <1>9, <1>11, <2>2, <2>4, Zenon
    <2>5. CASE ~(Len(r1) < 1)
        <3>1. Peels(q1, 1, b, j3, u)
            BY <1>2, <2>3, <2>5, Peeled
        <3>2. nn = n
            BY <3>1, <2>3, <1>2, Zenon DEF Peels
        <3>3. PICK q2 \in Seq(Byte) : q2 = r2 /\ q2 \o u = x \o j2
            BY <3>1, <2>3, <1>6, Zenon DEF Peels
        <3>4. CASE Len(r2) < n \/ n = 0
            <4>1. R = Err("eof") \/ R = Err("PasswdAuthInvalidRequest")
                BY <1>8, <1>11, <2>2, <2>5, <3>2, <3>4, Zenon
            <4> QED
                BY <4>1, <1>9, Zenon
        <3>5. CASE ~(Len(r2) < n \/ n = 0)
            <4>0. Len(x) = n
                BY <1>1
            <4>1. Peels(q2, n, x, j2, u)
                BY <1>1, <3>3, <3>5, <4>0, Peeled
            <4>2. PICK q3 \in Seq(Byte) : q3 = r3 /\ q3 \o u = c \o j1
                BY <4>1, <3>2, <3>3, <1>6, Zenon DEF Peels
            <4>3. CASE Len(r3) < 1
                BY <1>8, <1>9, <1>11, <2>2, <2>5, <3>2, <3>5, <4>3, Zenon
            <4>4. CASE ~(Len(r3) < 1)
                <5>1. Peels(q3, 1, c, j1, u)
                    BY <1>2, <4>2, <4>4, Peeled
                <5>2. mm = m
                    BY <5>1, <4>2, <1>2, Zenon DEF Peels
                <5>3. PICK q4 \in Seq(Byte) : q4 = r4 /\ q4 \o u = y \o t
                    BY <5>1, <4>2, <1>6, Zenon DEF Peels
                <5>4. CASE Len(r4) < m \/ m = 0
                    <6>1. R = Err("eof") \/ R = Err("PasswdAuthInvalidRequest")
                        BY <1>8, <1>11, <2>2, <2>5, <3>2, <3>5, <4>4, <5>2, <5>4, Zenon
                    <6> QED
                        BY <6>1, <1>9, Zenon
                <5>5. CASE ~(Len(r4) < m \/ m = 0)
                    <6>0. Len(y) = m
                        BY <1>1
                    <6>1. Peels(q4, m, y, t, u)
                        BY <1>1, <5>3, <5>5, <6>0, Peeled
                    <6>2. R = Ok([uname |-> First(r2, n), passwd |-> First(r4, m)], Behind(r4, m))
                        BY <1>8, <1>11, <2>2, <2>5, <3>2, <3>5, <4>4, <5>2, <5>5, Zenon
                    <6>3. First(r2, n) = user /\ First(r4, m) = passwd
                        BY <1>1, <3>3, <4>1, <5>3, <6>1, Zenon DEF Peels
                    <6>4. R = Ok(v, Behind(r4, m)) /\ Behind(r4, m) \in Seq(Byte) /\ Behind(r4, m) \o u = t
                        BY <6>1, <6>2, <6>3, <5>3, Zenon DEF Peels, v
                    <6> DEFINE w == Behind(r4, m)
                    <6>5. w \in Seq(Byte) /\ w \o u = t /\ R = Ok(v, w)
                        BY <6>4
                    <6> HIDE DEF w
                    <6>6. Means(Ok(v, w), v, t, u)
                        BY <6>5, OkMeans
                    <6> QED
                        BY <6>5, <6>6, Zenon
                <5> QED
                    BY <5>4, <5>5, Zenon
            <4> QED
                BY <4>3, <4>4, Zenon
        <3> QED
            BY <3>4, <3>5, Zenon
    <2> QED
        BY <2>4, <2>5, Zenon
<1> QED
    BY <1>10, <1>11, Zenon

LEMMA LeastNatural ==
    ASSUME NEW T, T \subseteq Nat, T # {}
    PROVE  \E x \in T : \A y \in T : ~ (y < x)
<1> DEFINE R == OpToRel(<, Nat)
<1>1. IsWellFoundedOn(R, Nat)
    BY NatLessThanWellFounded
<1>2. \A x, y \in Nat : y < x => <<y, x>> \in R
    BY DEF OpToRel
<1> HIDE DEF R
<1>3. \E x \in T : \A y \in T : ~ (<<y, x>> \in R)
    BY <1>1, WFMin
<1> QED
    BY <1>2, <1>3

LEMMA MinIs ==
    ASSUME NEW T, T \subseteq Nat, T # {}
    PROVE  Min(T) \in T /\ \A y \in T : Min(T) <= y
<1>1. PICK x \in T : \A y \in T : ~ (y < x)
    BY LeastNatural
<1>2. \A y \in T : x <= y
    BY <1>1
<1> QED
    BY <1>1, <1>2 DEF Min

\* The zero byte a text ends with.
FirstZero(s) == SelectInSeq(s, LAMBDA b : b = 0)

LEMMA FirstZeroIs ==
    ASSUME NEW s \in Seq(Byte), Contains(s, 0)
    PROVE  FirstZero(s) \in 1 .. Len(s) /\ s[FirstZero(s)] = 0 /\ \A j \in 1 .. Len(s) : s[j] = 0 => FirstZero(s) <= j
<1> DEFINE I == {i \in 1 .. Len(s) : s[i] = 0}
<1>1. FirstZero(s) = IF I # {} THEN Min(I) ELSE 0
    BY DEF FirstZero, SelectInSeq
<1>2. I # {} /\ I \subseteq Nat
    BY DEF Contains
<1>3. Min(I) \in I /\ \A j \in I : Min(I) <= j
    <2> HIDE DEF I
    <2> QED
        BY <1>2, MinIs
<1>4. FirstZero(s) = Min(I)
    BY <1>1, <1>2
<1> QED
    BY <1>3, <1>4

Terminated(s, h, x, u) ==
    /\ SubSeq(s, 1, FirstZero(s) - 1) = h /\ Behind(s, FirstZero(s)) \in Seq(Byte) /\ Behind(s, FirstZero(s)) \o u = x

LEMMA Until ==
    ASSUME NEW s \in Seq(Byte), NEW u \in Seq(Byte), NEW h \in Seq(Byte), NEW x \in Seq(Byte),
           ~Contains(h, 0), s \o u = (h \o << 0 >>) \o x, Contains(s, 0)
    PROVE  Terminated(s, h, x, u)
<1>0. PICK z \in Seq(Byte) : z = <<0>> /\ Len(z) = 1 /\ z[1] = 0
    <2>1. 0 \in Byte
        BY DEF Byte
    <2> QED
        BY <2>1, Bytes
<1> DEFINE i == FirstZero(s)
           n == Len(h)
<1>1. i \in 1 .. Len(s) /\ s[i] = 0 /\ \A j \in 1 .. Len(s) : s[j] = 0 => i <= j
    BY FirstZeroIs
<1>2. n \in Nat /\ Len(s) \in Nat /\ Len(x) \in Nat /\ Len(u) \in Nat
    BY LenProperties
<1>3. PICK g \in Seq(Byte) : g = h \o z /\ Len(g) = n + 1 /\ g[n + 1] = 0 /\ \A j \in 1 .. n : g[j] = h[j]
    <2>1. h \o z \in Seq(Byte) /\ Len(h \o z) = Len(h) + Len(z)
          /\ \A j \in 1 .. Len(h) + Len(z) : (h \o z)[j] = IF j <= Len(h) THEN h[j] ELSE z[j - Len(h)]
        BY ConcatProperties
    <2>2. n + 1 \in 1 .. Len(h) + Len(z) /\ ~(n + 1 <= Len(h)) /\ n + 1 - Len(h) = 1
        BY <1>0, <1>2
    <2>3. (h \o z)[n + 1] = z[1]
        BY <2>1, <2>2
    <2>4. \A j \in 1 .. n : (h \o z)[j] = h[j]
        BY <1>0, <1>2, <2>1
    <2>5. Len(h \o z) = n + 1
        BY <1>0, <2>1
    <2> QED
        BY <1>0, <2>1, <2>3, <2>4, <2>5, Zenon
<1>4. s \o u = g \o x
    BY <1>0, <1>3, Zenon
<1>5. \A j \in 1 .. Len(s) : (s \o u)[j] = s[j]
    <2>1. \A j \in 1 .. Len(s) + Len(u) : (s \o u)[j] = IF j <= Len(s) THEN s[j] ELSE u[j - Len(s)]
        BY ConcatProperties
    <2> QED
        BY <1>2, <2>1
<1>6. \A j \in 1 .. n + 1 : (g \o x)[j] = g[j]
    <2>1. \A j \in 1 .. Len(g) + Len(x) : (g \o x)[j] = IF j <= Len(g) THEN g[j] ELSE x[j - Len(g)]
        BY ConcatProperties
    <2>2. Len(g) = n + 1
        BY <1>3
    <2> QED
        BY <1>2, <2>1, <2>2
<1> HIDE DEF i, n
<1>7. ASSUME i < n + 1 PROVE FALSE
    <2>1. i \in 1 .. n /\ i \in 1 .. n + 1 /\ i \in 1 .. Len(s)
        BY <1>1, <1>2, <1>7
    <2>2. h[i] = 0
        BY <1>1, <1>3, <1>4, <1>5, <1>6, <2>1, Zenon
    <2> QED
        BY <2>1, <2>2 DEF Contains, n
<1>8. i = n + 1
    <2>1. n + 1 <= i /\ n + 1 <= Len(s) /\ n + 1 \in 1 .. Len(s) /\ n + 1 \in 1 .. n + 1
        BY <1>1, <1>2, <1>7
    <2>2. s[n + 1] = 0
        BY <1>3, <1>4, <1>5, <1>6, <2>1, Zenon
    <2>3. i <= n + 1
        BY <1>1, <2>1, <2>2
    <2> QED
        BY <1>1, <1>2, <2>1, <2>3
<1>9. Peels(s, n + 1, g, x, u)
    <2>1. n + 1 \in Nat /\ Len(g) = n + 1 /\ ~(Len(s) < n + 1)
        BY <1>1, <1>2, <1>3, <1>8
    <2> QED
        BY <1>4, <2>1, Peeled
<1>10. Behind(s, i) \in Seq(Byte) /\ Behind(s, i) \o u = x
    BY <1>8, <1>9, Zenon DEF Peels
<1>11. SubSeq(s, 1, i - 1) = h
    <2>1. Then2(h, z, x)
        BY Joining
    <2>2. PICK y \in Seq(Byte) : y = z \o x /\ s \o u = h \o y
        BY <1>3, <1>4, <2>1, Zenon DEF Then2
    <2>3. ~(Len(s) < n) /\ n = Len(h) /\ n \in Nat
        BY <1>1, <1>2, <1>8 DEF n
    <2>4. Peels(s, n, h, y, u)
        BY <2>2, <2>3, Peeled
    <2>5. First(s, n) = h /\ i - 1 = n
        BY <1>2, <1>8, <2>4 DEF Peels
    <2> QED
        BY <2>5, Zenon DEF First
<1> QED
    BY <1>10, <1>11, Zenon DEF Terminated, i

\* The eight bytes every SOCKS4 request starts with.
EightBytes(b, k, p, h) ==
    b[1] = 4 /\ b[2] = k /\ SubSeq(b, 3, 4) = p /\ SubSeq(b, 5, 8) = h /\ b \in Seq(Byte) /\ Len(b) = 8
LEMMA Eight ==
    ASSUME NEW k \in Byte, NEW p \in Seq(Byte), Len(p) = 2, NEW h \in Seq(Byte), Len(h) = 4
    PROVE  EightBytes((<<4, k>> \o p) \o h, k, p, h)
<1>0. PICK a \in Seq(Byte) : a = <<4, k>> /\ Len(a) = 2 /\ a[1] = 4 /\ a[2] = k
    <2>1. 4 \in Byte
        BY DEF Byte
    <2> QED
        BY <2>1, TwoThen
<1>1. PICK c \in Seq(Byte) : c = a \o p /\ Len(c) = 4 /\ c[1] = a[1] /\ c[2] = a[2] /\ c[3] = p[1] /\ c[4] = p[2]
    <2>1. a \o p \in Seq(Byte) /\ Len(a \o p) = Len(a) + Len(p)
          /\ \A j \in 1 .. Len(a) + Len(p) : (a \o p)[j] = IF j <= Len(a) THEN a[j] ELSE p[j - Len(a)]
        BY ConcatProperties
    <2>2. Len(a \o p) = 4 /\ \A j \in 1 .. 4 : (a \o p)[j] = IF j <= 2 THEN a[j] ELSE p[j - 2]
        BY <1>0, <2>1
    <2>3. (a \o p)[1] = a[1] /\ (a \o p)[2] = a[2] /\ (a \o p)[3] = p[1] /\ (a \o p)[4] = p[2]
        BY <2>2
    <2> QED
        BY <2>1, <2>2, <2>3, Zenon
<1>2. PICK b \in Seq(Byte) : b = c \o h /\ Len(b) = 8 /\ \A j \in 1 .. 4 : b[j] = c[j]
    <2>1. c \o h \in Seq(Byte) /\ Len(c \o h) = Len(c) + Len(h)
          /\ \A j \in 1 .. Len(c) + Len(h) : (c \o h)[j] = IF j <= Len(c) THEN c[j] ELSE h[j - Len(c)]
        BY ConcatProperties
    <2>2. Len(c \o h) = 8 /\ \A j \in 1 .. 4 : (c \o h)[j] = c[j]
        BY <1>1, <2>1
    <2> QED
        BY <2>1, <2>2, Zenon
<1>3. b[1] = 4 /\ b[2] = k /\ b[3] = p[1] /\ b[4] = p[2]
    <2>1. b[1] = c[1] /\ b[2] = c[2] /\ b[3] = c[3] /\ b[4] = c[4]
        BY <1>2
    <2> QED
        BY <1>0, <1>1, <2>1, Zenon
<1>4. SubSeq(b, 5, 8) = h
    <2>1. Behind(c \o h, Len(c)) = h
        BY Cuts
    <2>2. Behind(b, 4) = h
        BY <1>1, <1>2, <2>1, Zenon
    <2>3. SubSeq(b, 4 + 1, Len(b)) = h
        BY <2>2, Zenon DEF Behind
    <2>4. 4 + 1 = 5 /\ Len(b) = 8
        BY <1>2
    <2> QED
        BY <2>3, <2>4, Zenon
<1>5. SubSeq(b, 3, 4) = p
    <2>1. \A i \in 3 .. 4 : b[i] \in Byte
        BY <1>2, ElementOfSeq
    <2>2. SubSeq(b, 3, 4) \in Seq(Byte) /\ Len(SubSeq(b, 3, 4)) = 4 - 3 + 1
          /\ \A i \in 1 .. 4 - 3 + 1 : SubSeq(b, 3, 4)[i] = b[3 + i - 1]
        BY <1>2, <2>1, SubSeqProperties
    <2> DEFINE q == SubSeq(b, 3, 4)
    <2> HIDE DEF q
    <2>6. q \in Seq(Byte) /\ Len(q) = 4 - 3 + 1 /\ \A i \in 1 .. 4 - 3 + 1 : q[i] = b[3 + i - 1]
        BY <2>2 DEF q
    <2>3. q \in Seq(Byte) /\ Len(q) = 2 /\ q[1] = b[3] /\ q[2] = b[4]
        BY <2>6
    <2>4. \A i \in 1 .. Len(q) : q[i] = p[i]
        BY <1>3, <2>3
    <2>5. q = p
        BY <2>3, <2>4, SeqEqual
    <2> QED
        BY <2>5 DEF q
<1>6. (<<4, k>> \o p) \o h = b
    BY <1>0, <1>1, <1>2, Zenon
<1> QED
    BY <1>2, <1>3, <1>4, <1>5, <1>6, Zenon DEF EightBytes

LEMMA Commands4 ==
    \A c \in {"connect", "bind"} :
        Command4Code[c] \in Byte /\ IsCommand4(Command4Code[c]) /\ Command4(Command4Code[c]) = c
<1>1. Command4Code["connect"] = 1 /\ Command4Code["bind"] = 2
    BY DEF Command4Code
<1>2. 1 \in Byte /\ 2 \in Byte
    BY DEF Byte
<1> QED
    BY <1>1, <1>2 DEF IsCommand4, Command4

LEMMA NameMark ==
    <<0, 0, 0, 255>> \in Seq(Byte) /\ Len(<<0, 0, 0, 255>>) = 4 /\ IsSocks4a(<<0, 0, 0, 255>>)
<1>1. 0 \in Byte /\ 255 \in Byte
    BY DEF Byte
<1> DEFINE f == <<0, 0, 0, 255>>
<1>2. f \in Seq(Byte) /\ Len(f) = 4 /\ f[1] = 0 /\ f[2] = 0 /\ f[3] = 0 /\ f[4] = 255
    BY <1>1
<1> HIDE DEF f
<1>3. SubSeq(f, 1, 3) = <<0, 0, 0>>
    <2>1. \A i \in 1 .. 3 : f[i] \in Byte
        BY <1>2, ElementOfSeq
    <2>2. SubSeq(f, 1, 3) \in Seq(Byte) /\ Len(SubSeq(f, 1, 3)) = 3 - 1 + 1
          /\ \A i \in 1 .. 3 - 1 + 1 : SubSeq(f, 1, 3)[i] = f[1 + i - 1]
        BY <1>2, <2>1, SubSeqProperties
    <2> DEFINE q == SubSeq(f, 1, 3)
               z == <<0, 0, 0>>
    <2>4. z \in Seq(Byte) /\ Len(z) = 3 /\ z[1] = 0 /\ z[2] = 0 /\ z[3] = 0
        BY <1>1
    <2> HIDE DEF q, z
    <2>7. q \in Seq(Byte) /\ Len(q) = 3 - 1 + 1 /\ \A i \in 1 .. 3 - 1 + 1 : q[i] = f[1 + i - 1]
        BY <2>2 DEF q
    <2>3. q \in Seq(Byte) /\ Len(q) = 3 /\ q[1] = f[1] /\ q[2] = f[2] /\ q[3] = f[3]
        BY <2>7
    <2>5. \A i \in 1 .. Len(q) : q[i] = z[i]
        BY <1>2, <2>3, <2>4
    <2>6. q = z
        BY <2>3, <2>4, <2>5, SeqEqual
    <2> QED
        BY <2>6 DEF q, z
<1>4. f[4] # 0
    BY <1>2
<1> QED
    BY <1>2, <1>3, <1>4 DEF IsSocks4a, f

LEMMA Zero ==
    <<0>> \in Seq(Byte)
<1>1. 0 \in Byte
    BY DEF Byte
<1> QED
    BY <1>1, Bytes

\* The bytes of a SOCKS4 request, in the order they are read.
Request4Bytes(k, p, f, n, x) == ((<<4, k>> \o p) \o f) \o ((n \o <<0>>) \o x)

LEMMA Request4Head ==
    ASSUME NEW k \in Byte, NEW p \in Seq(Byte), Len(p) = 2, NEW f \in Seq(Byte), Len(f) = 4,
           NEW n \in Seq(Byte), ~Contains(n, 0), NEW x \in Seq(Byte), NEW s \in Seq(Byte), NEW u \in Seq(Byte),
           s \o u = Request4Bytes(k, p, f, n, x), ~(Len(s) < 8)
    PROVE  /\ EightBytes(First(s, 8), k, p, f)
           /\ Contains(Behind(s, 8), 0) => Terminated(Behind(s, 8), n, x, u)
           /\ Behind(s, 8) \in Seq(Byte)
<1>1. EightBytes((<<4, k>> \o p) \o f, k, p, f)
    BY Eight
<1>2. PICK h \in Seq(Byte) : h = (<<4, k>> \o p) \o f /\ Len(h) = 8
    BY <1>1, Zenon DEF EightBytes
<1>3. PICK z \in Seq(Byte) : z = <<0>>
    BY Zero
<1>4. Then2(n, z, x)
    BY Joining
<1>5. PICK m \in Seq(Byte) : m = n \o z
    BY <1>4, Zenon DEF Then2
<1>6. PICK y \in Seq(Byte) : y = m \o x
    BY ConcatProperties
<1>7. s \o u = h \o y
    BY <1>2, <1>3, <1>5, <1>6, Zenon DEF Request4Bytes
<1>8. Peels(s, 8, h, y, u)
    BY <1>2, <1>7, Peeled
<1>9. EightBytes(First(s, 8), k, p, f)
    BY <1>1, <1>2, <1>8, Zenon DEF Peels
<1>10. PICK r \in Seq(Byte) : r = Behind(s, 8) /\ r \o u = y
    BY <1>8, Zenon DEF Peels
<1>11. r \o u = (n \o <<0>>) \o x
    BY <1>3, <1>5, <1>6, <1>10, Zenon
<1>12. Contains(r, 0) => Terminated(r, n, x, u)
    BY <1>11, Until
<1> QED
    BY <1>9, <1>10, <1>12, Zenon

\* What a SOCKS4 client may ask for: an address that is not taken for a mark, or a name.
Named4(a, user) ==
    /\ WellFormed(a) /\ IsText(user) /\ ~Contains(user, 0)
    /\ \/ a.type = "v4" /\ ~IsSocks4a(a.host)
       \/ a.type = "domain" /\ ~Contains(a.host, 0)

V4Shape(k, p, f, n, t) == ((<<4, k>> \o p) \o ((f \o n) \o <<0>>)) \o t = Request4Bytes(k, p, f, n, t)
LEMMA Request4V4 ==
    ASSUME NEW k \in Byte, NEW p \in Seq(Byte), NEW f \in Seq(Byte), NEW n \in Seq(Byte), NEW t \in Seq(Byte)
    PROVE  V4Shape(k, p, f, n, t)
<1>0. PICK a \in Seq(Byte) : a = <<4, k>>
    <2>1. 4 \in Byte
        BY DEF Byte
    <2> QED
        BY <2>1, TwoThen
<1>1. PICK z \in Seq(Byte) : z = <<0>>
    BY Zero
<1>2. PICK e \in Seq(Byte) : e = a \o p
    BY ConcatProperties
<1>3. PICK m \in Seq(Byte) : m = n \o z
    BY ConcatProperties
<1>4. Then2(f, n, z) /\ Then2(e, f, m)
    BY Joining
<1>5. PICK g \in Seq(Byte) : g = f \o m
    BY ConcatProperties
<1>6. Then2(e, g, t) /\ Then2(f, m, t)
    BY Joining
<1>7. PICK y \in Seq(Byte) : y = m \o t
    BY ConcatProperties
<1>8. Then2(e, f, y)
    BY Joining
<1>9. (f \o n) \o z = g
    BY <1>3, <1>4, <1>5, Zenon DEF Then2
<1>10. (e \o g) \o t = e \o (f \o y)
    BY <1>5, <1>6, <1>7, Zenon DEF Then2
<1>11. e \o (f \o y) = (e \o f) \o y
    BY <1>8, Zenon DEF Then2
<1>12. ((a \o p) \o ((f \o n) \o z)) \o t = ((a \o p) \o f) \o ((n \o z) \o t)
    BY <1>2, <1>3, <1>7, <1>9, <1>10, <1>11, Zenon
<1> QED
    BY <1>0, <1>1, <1>12, Zenon DEF V4Shape, Request4Bytes

NameShape(k, p, f, n, d, t) ==
    ((<<4, k>> \o p) \o ((((f \o n) \o <<0>>) \o d) \o <<0>>)) \o t = Request4Bytes(k, p, f, n, (d \o <<0>>) \o t)
LEMMA Request4Name ==
    ASSUME NEW k \in Byte, NEW p \in Seq(Byte), NEW f \in Seq(Byte), NEW n \in Seq(Byte), NEW d \in Seq(Byte), NEW t \in Seq(Byte)
    PROVE  NameShape(k, p, f, n, d, t)
<1>0. PICK a \in Seq(Byte) : a = <<4, k>>
    <2>1. 4 \in Byte
        BY DEF Byte
    <2> QED
        BY <2>1, TwoThen
<1>1. PICK z \in Seq(Byte) : z = <<0>>
    BY Zero
<1>2. PICK e \in Seq(Byte) : e = a \o p
    BY ConcatProperties
<1>3. PICK g \in Seq(Byte) : g = f \o n
    BY ConcatProperties
<1>4. PICK j \in Seq(Byte) : j = g \o z
    BY ConcatProperties
<1>5. PICK c \in Seq(Byte) : c = d \o z
    BY ConcatProperties
<1>6. Then2(j, d, z)
    BY Joining
<1>7. (j \o d) \o z = j \o c
    BY <1>5, <1>6, Zenon DEF Then2
<1>8. PICK w \in Seq(Byte) : w = j \o c
    BY ConcatProperties
<1>9. Then2(e, j, c)
    BY Joining
<1>10. PICK i \in Seq(Byte) : i = e \o j
    BY ConcatProperties
<1>11. Then2(i, c, t)
    BY Joining
<1>12. PICK y \in Seq(Byte) : y = c \o t
    BY ConcatProperties
<1>13. (e \o w) \o t = i \o y
    <2>1. e \o w = i \o c
        BY <1>8, <1>9, <1>10, Zenon DEF Then2
    <2>2. (i \o c) \o t = i \o y
        BY <1>11, <1>12, Zenon DEF Then2
    <2> QED
        BY <2>1, <2>2, Zenon
<1>14. (e \o j) \o y = ((a \o p) \o f) \o ((n \o z) \o y)
    <2>1. V4Shape(k, p, f, n, y)
        BY Request4V4, Zenon
    <2> QED
        BY <2>1, <1>0, <1>1, <1>2, <1>3, <1>4, Zenon DEF V4Shape, Request4Bytes
<1>15. ((a \o p) \o ((((f \o n) \o z) \o d) \o z)) \o t = ((a \o p) \o f) \o ((n \o z) \o ((d \o z) \o t))
    <2>1. (((f \o n) \o z) \o d) \o z = w
        BY <1>3, <1>4, <1>7, <1>8, Zenon
    <2>2. ((a \o p) \o ((((f \o n) \o z) \o d) \o z)) \o t = i \o y
        BY <2>1, <1>2, <1>13, Zenon
    <2> QED
        BY <2>2, <1>5, <1>10, <1>12, <1>14, Zenon
<1> QED
    BY <1>0, <1>1, <1>15, Zenon DEF NameShape, Request4Bytes

LEMMA Request4Means ==
    ASSUME NEW c \in {"connect", "bind"}, NEW a, NEW user, Named4(a, user),
           NEW s \in Seq(Byte), NEW u \in Seq(Byte), NEW t \in Seq(Byte), s \o u = WriteRequest4(c, a, user) \o t
    PROVE  Means(ReadRequest4(s), [command |-> c, addr |-> a, user |-> user], t, u)
<1> DEFINE v == [command |-> c, addr |-> a, user |-> user]
           R == ReadRequest4(s)
<1>0. PICK k \in Byte, p \in Seq(Byte), h \in Seq(Byte), n \in Seq(Byte) :
          /\ k = Command4Code[c] /\ IsCommand4(k) /\ Command4(k) = c
          /\ p = U16(a.port) /\ Len(p) = 2 /\ FromU16(p) = a.port /\ h = a.host /\ n = user
          /\ ~Contains(n, 0)
    <2>1. Command4Code[c] \in Byte /\ IsCommand4(Command4Code[c]) /\ Command4(Command4Code[c]) = c
        BY Commands4
    <2>2. WellFormed(a) /\ IsText(user) /\ ~Contains(user, 0)
        BY DEF Named4
    <2>3. a.host \in Seq(Byte) /\ U16(a.port) \in Seq(Byte) /\ Len(U16(a.port)) = 2 /\ FromU16(U16(a.port)) = a.port
        BY <2>2, Fields
    <2>4. user \in Seq(Byte)
        BY <2>2, TextLength
    <2> QED
        BY <2>1, <2>2, <2>3, <2>4, Zenon
<1> DEFINE f == IF a.type = "v4" THEN h ELSE <<0, 0, 0, 255>>
           x == IF a.type = "v4" THEN t ELSE (h \o <<0>>) \o t
<1>1. a.type = "v4" \/ (a.type = "domain" /\ a.type # "v4" /\ ~Contains(h, 0))
    <2>1. a.type = "v4" \/ (a.type = "domain" /\ ~Contains(a.host, 0))
        BY Zenon DEF Named4
    <2>2. a.type = "domain" => a.type # "v4"
        OBVIOUS
    <2> QED
        BY <1>0, <2>1, <2>2, Zenon
<1>2. f \in Seq(Byte) /\ Len(f) = 4 /\ (a.type = "v4" => ~IsSocks4a(f)) /\ (a.type # "v4" => IsSocks4a(f))
    <2>1. CASE a.type = "v4"
        <3>1. WellFormed(a) /\ ~IsSocks4a(a.host)
            BY <2>1 DEF Named4
        <3>2. Len(a.host) = 4
            BY <2>1, <3>1, Fields
        <3> QED
            BY <1>0, <2>1, <3>1, <3>2, Zenon
    <2>2. CASE a.type # "v4"
        BY <2>2, NameMark, Zenon
    <2> QED
        BY <2>1, <2>2
<1>3. x \in Seq(Byte)
    <2>1. PICK z \in Seq(Byte) : z = <<0>>
        BY Zero
    <2>2. Then2(h, z, t)
        BY Joining
    <2>3. PICK y \in Seq(Byte) : y = h \o z
        BY <2>2, Zenon DEF Then2
    <2>4. y \o t \in Seq(Byte)
        BY ConcatProperties
    <2> QED
        BY <2>1, <2>3, <2>4, Zenon
<1>4. s \o u = Request4Bytes(k, p, f, n, x)
    <2>1. CASE a.type = "v4"
        <3>1. V4Shape(k, p, h, n, t)
            BY Request4V4, Zenon
        <3>2. WriteRequest4(c, a, user) = (<<4, k>> \o p) \o ((h \o n) \o <<0>>)
            BY <1>0, <2>1, Zenon DEF WriteRequest4, Version4
        <3> QED
            BY <2>1, <3>1, <3>2, Zenon DEF V4Shape
    <2>2. CASE a.type # "v4"
        <3>1. NameShape(k, p, f, n, h, t)
            BY <1>2, Request4Name, Zenon
        <3>2. WriteRequest4(c, a, user) = (<<4, k>> \o p) \o ((((f \o n) \o <<0>>) \o h) \o <<0>>)
            BY <1>0, <2>2, Zenon DEF WriteRequest4, Version4
        <3> QED
            BY <2>2, <3>1, <3>2, Zenon DEF NameShape
    <2> QED
        BY <2>1, <2>2, Zenon
<1> DEFINE b == First(s, 8)
           r == Behind(s, 8)
           name == SubSeq(r, 1, FirstZero(r) - 1)
           q == Behind(r, FirstZero(r))
           host == SubSeq(q, 1, FirstZero(q) - 1)
           w == Behind(q, FirstZero(q))
           port == FromU16(SubSeq(b, 3, 4))
<1>5. R =      IF Len(s) < 8 THEN Err("eof")
               ELSE IF b[1] # 4 \/ ~IsCommand4(b[2]) THEN Err("UnsupportedSocksVersion")
               ELSE IF ~Contains(r, 0) THEN Err("eof")
               ELSE IF ~IsSocks4a(SubSeq(b, 5, 8))
               THEN Ok([command |-> Command4(b[2]), addr |-> Address("v4", SubSeq(b, 5, 8), port), user |-> name], q)
               ELSE IF ~Contains(q, 0) THEN Err("eof")
               ELSE IF Utf8(host)
               THEN Ok([command |-> Command4(b[2]), addr |-> Address("domain", host, port), user |-> name], w)
               ELSE Err("AddressHostInvalidEncoding")
    BY Zenon DEF ReadRequest4, Exact, Until0, First, Behind, FirstZero, Version4
<1>6. Means(Err("eof"), v, t, u) /\ Means(Err("AddressHostInvalidEncoding"), v, t, u)
    BY ErrMeans
<1> SUFFICES Means(R, v, t, u)
    OBVIOUS
<1> HIDE DEF R, v, f, x
<1>7. CASE Len(s) < 8
    BY <1>5, <1>6, <1>7, Zenon
<1>8. CASE ~(Len(s) < 8)
    <2>1. /\ EightBytes(b, k, p, f) /\ r \in Seq(Byte)
          /\ Contains(r, 0) => Terminated(r, n, x, u)
        <3>2. Len(p) = 2 /\ ~Contains(n, 0) /\ Len(f) = 4
            BY <1>0, <1>2
        <3>3. PICK ff \in Seq(Byte), xx \in Seq(Byte) : ff = f /\ xx = x /\ Len(ff) = 4
            BY <1>2, <1>3, Zenon
        <3>4. s \o u = Request4Bytes(k, p, ff, n, xx)
            BY <1>4, <3>3, Zenon
        <3>5. /\ EightBytes(First(s, 8), k, p, ff)
              /\ Contains(Behind(s, 8), 0) => Terminated(Behind(s, 8), n, xx, u)
              /\ Behind(s, 8) \in Seq(Byte)
            BY <1>8, <3>2, <3>3, <3>4, Request4Head
        <3> QED
            BY <3>3, <3>5, Zenon
    <2>2. b[1] = 4 /\ b[2] = k /\ IsCommand4(b[2]) /\ Command4(b[2]) = c /\ SubSeq(b, 5, 8) = f /\ port = a.port
        BY <1>0, <2>1, Zenon DEF EightBytes
    <2>3. CASE ~Contains(r, 0)
        BY <1>5, <1>6, <1>8, <2>2, <2>3, Zenon
    <2>4. CASE Contains(r, 0)
        <3>1. name = user /\ q \in Seq(Byte) /\ q \o u = x
            BY <1>0, <2>1, <2>4, Zenon DEF Terminated
        <3>2. CASE a.type = "v4"
            <4>1. a = Address("v4", f, port)
                <5>1. a = Address(a.type, a.host, a.port)
                    BY Zenon DEF Named4, WellFormed
                <5>2. f = a.host
                    BY <1>0, <3>2 DEF f
                <5> QED
                    BY <5>1, <5>2, <2>2, <3>2, Zenon
            <4>2. R = Ok(v, q)
                BY <1>2, <1>5, <1>8, <2>2, <2>4, <3>1, <3>2, <4>1, Zenon DEF v
            <4>3. q \o u = t
                BY <3>1, <3>2 DEF x
            <4> HIDE DEF q
            <4>4. Means(Ok(v, q), v, t, u)
                BY <3>1, <4>3, OkMeans
            <4> QED
                BY <4>2, <4>4, Zenon
        <3>3. CASE a.type # "v4"
            <4>0. a.type = "domain" /\ ~Contains(h, 0)
                BY <1>1, <3>3
            <4>1. CASE ~Contains(q, 0)
                BY <1>2, <1>5, <1>6, <1>8, <2>2, <2>4, <3>3, <4>1, Zenon
            <4>2. CASE Contains(q, 0)
                <5>1. PICK qq \in Seq(Byte) : qq = q /\ qq \o u = (h \o <<0>>) \o t
                    BY <3>1, <3>3, Zenon DEF x
                <5>2. Terminated(qq, h, t, u)
                    BY <4>0, <4>2, <5>1, Until
                <5>3. host = h /\ w \in Seq(Byte) /\ w \o u = t
                    BY <5>1, <5>2, Zenon DEF Terminated
                <5>4. CASE ~Utf8(host)
                    BY <1>2, <1>5, <1>6, <1>8, <2>2, <2>4, <3>3, <4>2, <5>4, Zenon
                <5>5. CASE Utf8(host)
                    <6>1. a = Address("domain", host, port)
                        <7>1. a = Address(a.type, a.host, a.port)
                            BY Zenon DEF Named4, WellFormed
                        <7> QED
                            BY <7>1, <1>0, <2>2, <4>0, <5>3, Zenon
                    <6>2. R = Ok(v, w)
                        BY <1>2, <1>5, <1>8, <2>2, <2>4, <3>1, <3>3, <4>2, <5>5, <6>1, Zenon DEF v
                    <6> HIDE DEF w
                    <6>3. Means(Ok(v, w), v, t, u)
                        BY <5>3, OkMeans
                    <6> QED
                        BY <6>2, <6>3, Zenon
                <5> QED
                    BY <5>4, <5>5, Zenon
            <4> QED
                BY <4>1, <4>2, Zenon
        <3> QED
            BY <3>2, <3>3, Zenon
    <2> QED
        BY <2>3, <2>4, Zenon
<1> QED
    BY <1>7, <1>8, Zenon

LEMMA UdpHeaderIs ==
    ASSUME NEW s
    PROVE  /\ Len(s) < 3 => ReadUdpHeader(s) = Err("eof")
           /\ ~(Len(s) < 3) => LET b == First(s, 3)
                                   a == ReadAddress(Behind(s, 3)) IN
                 ReadUdpHeader(s) = IF a.err = "ok" THEN Ok([frag |-> b[3], addr |-> a.v], a.rest) ELSE a
BY DEF ReadUdpHeader, Exact, First, Behind

LEMMA UdpHeaderMeans ==
    ASSUME NEW k \in Byte, NEW a, WellFormed(a),
           NEW s \in Seq(Byte), NEW u \in Seq(Byte), NEW t \in Seq(Byte), s \o u = WriteUdpHeader(k, a) \o t
    PROVE  Means(ReadUdpHeader(s), [frag |-> k, addr |-> a], t, u)
<1>1. CASE Len(s) < 3
    BY <1>1, UdpHeaderIs, ErrMeans
<1>2. CASE ~(Len(s) < 3)
    <2> DEFINE g == <<0, 0, k>>
    <2>0. g \in Seq(Byte) /\ Len(g) = 3 /\ g[3] = k
        <3>1. 0 \in Byte
            BY DEF Byte
        <3> QED
            BY <3>1, Bytes
    <2> HIDE DEF g
    <2>1. PICK h \in Seq(Byte) : h = g /\ Len(h) = 3 /\ h[3] = k
        BY <2>0
    <2>2. s \o u = (h \o WriteAddress(a)) \o t
        BY <2>1, Zenon DEF WriteUdpHeader, g
    <2>3. First(s, 3) = h /\ Means(ReadAddress(Behind(s, 3)), a, t, u)
        BY <1>2, <2>1, <2>2, HeadAndAddress, Zenon
    <2> DEFINE r == ReadAddress(Behind(s, 3))
    <2>4. ReadUdpHeader(s) = IF r.err = "ok" THEN Ok([frag |-> k, addr |-> r.v], r.rest) ELSE r
        <3>1. First(s, 3)[3] = k
            BY <2>1, <2>3, Zenon
        <3>2. ReadUdpHeader(s) = IF r.err = "ok" THEN Ok([frag |-> First(s, 3)[3], addr |-> r.v], r.rest) ELSE r
            BY <1>2, UdpHeaderIs
        <3> HIDE DEF r
        <3> QED
            BY <3>1, <3>2, Zenon
    <2> HIDE DEF r
    <2>5. CASE r.err = "ok"
        <3>1. r.v = a /\ r.rest \o u = t /\ r.rest \in Seq(Byte)
            BY <2>3, <2>5, Zenon DEF Means, r
        <3>2. ReadUdpHeader(s) = Ok([frag |-> k, addr |-> a], r.rest)
            BY <2>4, <2>5, <3>1, Zenon
        <3> QED
            BY <3>1, <3>2, OkMeans, Zenon
    <2>6. CASE r.err # "ok"
        <3>1. ReadUdpHeader(s) = r
            BY <2>4, <2>6, Zenon
        <3> QED
            BY <3>1, <2>3, <2>6, Zenon DEF Means, r
    <2> QED
        BY <2>5, <2>6, Zenon
<1> QED
    BY <1>1, <1>2, Zenon

\* The first bytes of an address.
LEMMA AddressStart ==
    ASSUME NEW a, WellFormed(a), NEW t \in Seq(Byte), NEW s, s = WriteAddress(a) \o t
    PROVE  /\ s \in Seq(Byte) /\ Len(s) = AddressLen(a) + Len(t)
           /\ s[1] = CASE a.type = "v4" -> 1 [] a.type = "v6" -> 4 [] OTHER -> 3
           /\ a.type = "domain" => s[2] = Len(a.host)
<1>1. PICK w \in Seq(Byte) : w = WriteAddress(a) /\ Len(w) = AddressLen(a)
    BY AddressTyped
<1>2. PICK k \in Seq(Byte), h \in Seq(Byte), p \in Seq(Byte) :
               /\ k = Head4(a) /\ h = a.host /\ p = U16(a.port) /\ Len(p) = 2 /\ w = k \o h \o p
               /\ Len(k) = (IF a.type = "domain" THEN 2 ELSE 1)
               /\ k[1] = (CASE a.type = "v4" -> 1 [] a.type = "v6" -> 4 [] OTHER -> 3)
               /\ a.type = "domain" => k[2] = Len(h)
    BY <1>1, AddressPieces, Fields, Zenon
<1>3. PICK x \in Seq(Byte) : x = (h \o p) \o t /\ (k \o h \o p) \o t = k \o x
    <2>1. PICK m \in Seq(Byte) : m = h \o p
        BY ConcatProperties
    <2>2. m \o t \in Seq(Byte)
        BY ConcatProperties
    <2>3. Joined(k, h, p, t)
        BY Reassociate, Zenon
    <2> QED
        BY <2>1, <2>2, <2>3, Zenon DEF Joined
<1>4. s = k \o x /\ s = w \o t
    BY <1>1, <1>2, <1>3, Zenon
<1>5. Len(w \o t) = Len(w) + Len(t) /\ w \o t \in Seq(Byte)
    BY ConcatProperties
<1>6. \A i \in 1 .. Len(k) + Len(x) : (k \o x)[i] = IF i <= Len(k) THEN k[i] ELSE x[i - Len(k)]
    BY ConcatProperties
<1>7. Len(x) \in Nat /\ Len(k) \in Nat /\ Len(k) >= 1
    BY <1>2, LenProperties
<1>8. (k \o x)[1] = k[1] /\ (a.type = "domain" => (k \o x)[2] = k[2])
    <2>1. 1 \in 1 .. Len(k) + Len(x) /\ 1 <= Len(k)
        BY <1>7
    <2>2. a.type = "domain" => 2 \in 1 .. Len(k) + Len(x) /\ 2 <= Len(k)
        BY <1>2, <1>7
    <2> QED
        BY <1>6, <2>1, <2>2
<1> QED
    BY <1>1, <1>2, <1>4, <1>5, <1>8, Zenon

\* A packet that holds an address is read like a stream.
LEMMA CursorReads ==
    ASSUME NEW a, WellFormed(a), NEW t \in Seq(Byte)
    PROVE  ReadCursor(WriteAddress(a) \o t) = ReadAddress(WriteAddress(a) \o t)
<1>1. PICK s \in Seq(Byte) :
          /\ s = WriteAddress(a) \o t /\ Len(s) = AddressLen(a) + Len(t)
          /\ s[1] = (CASE a.type = "v4" -> 1 [] a.type = "v6" -> 4 [] OTHER -> 3)
          /\ a.type = "domain" => s[2] = Len(a.host)
    BY AddressStart, Zenon
<1>2. Len(t) \in Nat /\ Len(s) \in Nat
    BY LenProperties
<1>3. ReadCursor(s) = ReadAddress(s)
    <2>1. CASE a.type = "v4"
        <3>1. s[1] = 1 /\ Len(s) = 7 + Len(t)
            BY <1>1, <2>1 DEF AddressLen
        <3>2. ~(Len(s) < 2) /\ ~(Len(Tail(s)) < 6)
            BY <1>2, <3>1
        <3> QED
            BY <3>1, <3>2 DEF ReadCursor
    <2>2. CASE a.type = "v6"
        <3>1. s[1] = 4 /\ Len(s) = 19 + Len(t)
            BY <1>1, <2>2 DEF AddressLen
        <3>2. ~(Len(s) < 2) /\ ~(Len(Tail(s)) < 18)
            BY <1>2, <3>1
        <3> QED
            BY <3>1, <3>2 DEF ReadCursor
    <2>3. CASE a.type = "domain"
        <3>0. PICK n \in Nat : n = Len(a.host)
            BY Fields, Bytes
        <3>1. s[1] = 3 /\ s[2] = n /\ Len(s) = 4 + n + Len(t)
            BY <1>1, <2>3, <3>0 DEF AddressLen
        <3>2. ~(Len(s) < 2) /\ Tail(s)[1] = n /\ Len(Tail(Tail(s))) = n + 2 + Len(t)
            <4>1. s # <<>> /\ 1 \in 1 .. Len(s) - 1 /\ ~(Len(s) < 2)
                BY <1>2, <3>0, <3>1
            <4> DEFINE r == Tail(s)
            <4>2. r \in Seq(Byte) /\ Len(r) = Len(s) - 1 /\ \A i \in 1 .. Len(r) : r[i] = s[i + 1]
                BY <4>1, HeadTailProperties
            <4> HIDE DEF r
            <4>3. Len(r) = 3 + n + Len(t) /\ 1 \in 1 .. Len(r) /\ r # <<>>
                BY <1>2, <3>0, <3>1, <4>2
            <4>4. Len(Tail(r)) = Len(r) - 1
                BY <4>2, <4>3, HeadTailProperties
            <4>6. Len(Tail(r)) = n + 2 + Len(t)
                BY <1>2, <3>0, <4>3, <4>4
            <4>5. r[1] = n
                BY <3>1, <4>2, <4>3
            <4> QED
                BY <4>1, <4>5, <4>6, Zenon DEF r
        <3>3. ~(Len(Tail(Tail(s))) < n) /\ ~(Len(Tail(Tail(s))) < n + 2)
            BY <1>2, <3>0, <3>2
        <3> QED
            BY <3>1, <3>2, <3>3 DEF ReadCursor
    <2> QED
        BY <2>1, <2>2, <2>3, Fields
<1> QED
    BY <1>1, <1>3, Zenon

\* No part of an address is one.
LEMMA PartIsShort ==
    ASSUME NEW a, WellFormed(a), NEW s \in Seq(Byte), NEW u \in Seq(Byte), s \o u = WriteAddress(a),
           Len(s) < Len(WriteAddress(a))
    PROVE  ReadAddress(s) = Err("eof") /\ ReadCursor(s).err # "ok"
<1>0. Len(s) \in Nat /\ Len(u) \in Nat
    BY LenProperties
<1>1. s \o u = WriteAddress(a) \o <<>> /\ <<>> \in Seq(Byte) /\ Len(<<>>) = 0 /\ AddressLen(a) \in Nat
    <2>1. WriteAddress(a) \in Seq(Byte) /\ AddressLen(a) \in Nat
        BY AddressTyped
    <2>2. Empties(WriteAddress(a)) /\ <<>> \in Seq(Byte)
        BY <2>1, Nothing, Zenon
    <2>3. Len(<<>>) = 0
        OBVIOUS
    <2> QED
        BY <2>1, <2>2, <2>3, Zenon DEF Empties
<1>2. PICK y \in Seq(Byte) :
          /\ y = s \o u /\ Len(y) = AddressLen(a) + Len(<<>>)
          /\ y[1] = (CASE a.type = "v4" -> 1 [] a.type = "v6" -> 4 [] OTHER -> 3)
          /\ a.type = "domain" => y[2] = Len(a.host)
    BY <1>1, AddressStart, Zenon
<1>3. Len(s) < AddressLen(a) /\ Len(s) + Len(u) = AddressLen(a)
    <2>1. Len(s \o u) = Len(s) + Len(u)
        BY ConcatProperties
    <2>2. Len(y) = AddressLen(a)
        BY <1>1, <1>2
    <2> QED
        BY <1>2, <2>1, <2>2, <1>0
<1>4. \A i \in 1 .. Len(s) : y[i] = s[i]
    <2>1. \A i \in 1 .. Len(s) + Len(u) : (s \o u)[i] = IF i <= Len(s) THEN s[i] ELSE u[i - Len(s)]
        BY ConcatProperties
    <2> QED
        BY <1>0, <1>2, <2>1
<1>5. ReadAddress(s) = Err("eof")
    <2>1. CASE Len(s) < 1
        BY <2>1, ReadAddressIs
    <2>2. CASE ~(Len(s) < 1)
        <3>1. 1 \in 0 .. Len(s) /\ 1 \in 1 .. Len(s) /\ 1 \in 1 .. 1
            BY <1>0, <2>2
        <3>2. First(s, 1)[1] = s[1] /\ Len(Behind(s, 1)) = Len(s) - 1 /\ Behind(s, 1) \in Seq(Byte)
              /\ \A i \in 1 .. Len(s) - 1 : Behind(s, 1)[i] = s[1 + i]
            BY <3>1, Parts
        <3>3. First(s, 1)[1] = CASE a.type = "v4" -> 1 [] a.type = "v6" -> 4 [] OTHER -> 3
            BY <1>2, <1>4, <3>1, <3>2, Zenon
        <3>4. PICK r \in Seq(Byte) : r = Behind(s, 1) /\ Len(r) = Len(s) - 1 /\ \A i \in 1 .. Len(s) - 1 : r[i] = s[1 + i]
            BY <3>2
        <3>5. CASE a.type = "v4"
            <4>1. First(s, 1)[1] = 1 /\ AddressLen(a) = 7
                BY <3>3, <3>5 DEF AddressLen
            <4>2. Len(r) < 6
                BY <1>0, <1>3, <3>4, <4>1
            <4> QED
                BY <2>2, <3>4, <4>1, <4>2, ReadsV4
        <3>6. CASE a.type = "v6"
            <4>1. First(s, 1)[1] = 4 /\ AddressLen(a) = 19
                BY <3>3, <3>6 DEF AddressLen
            <4>2. Len(r) < 18
                BY <1>0, <1>3, <3>4, <4>1
            <4> QED
                BY <2>2, <3>4, <4>1, <4>2, ReadsV6
        <3>7. CASE a.type = "domain"
            <4>0. PICK n \in Nat : n = Len(a.host)
                BY Fields, Bytes
            <4>1. First(s, 1)[1] = 3 /\ AddressLen(a) = 4 + n /\ y[2] = n
                BY <1>2, <3>3, <3>7, <4>0 DEF AddressLen
            <4>2. CASE Len(r) < 1
                BY <2>2, <3>4, <4>1, <4>2, ReadsDomain
            <4>3. CASE ~(Len(r) < 1)
                <5>1. 1 \in 1 .. Len(s) - 1 /\ 2 \in 1 .. Len(s) /\ 1 \in 0 .. Len(r) /\ 1 \in 1 .. 1
                    BY <1>0, <3>4, <4>3
                <5>2. r[1] = n
                    BY <1>4, <3>4, <4>1, <5>1
                <5>3. First(r, 1)[1] = n /\ Len(Behind(r, 1)) = Len(r) - 1
                    BY <5>1, <5>2, Parts
                <5>4. Len(Behind(r, 1)) < n + 2
                    BY <1>0, <1>3, <3>4, <4>0, <4>1, <5>3
                <5> DEFINE q == Behind(r, 1)
                <5>5. q = Behind(r, 1) /\ Len(q) < n + 2
                    BY <5>4
                <5> HIDE DEF q
                <5> QED
                    BY <2>2, <3>4, <4>1, <4>3, <5>3, <5>5, ReadsDomain
            <4> QED
                BY <4>2, <4>3
        <3> QED
            BY <3>5, <3>6, <3>7, Fields
    <2> QED
        BY <2>1, <2>2
<1>6. \/ ReadCursor(s) = Err("invalid buf") \/ ReadCursor(s) = Err("AddressDomainInvalidEncoding")
      \/ ReadCursor(s) = Err("panic") \/ ReadCursor(s) = Err("AddressTypeNotSupported")
      \/ ReadCursor(s) = ReadAddress(s)
    <2> DEFINE e == ReadAddress(s)
    <2>1. \/ ReadCursor(s) = Err("invalid buf") \/ ReadCursor(s) = Err("AddressDomainInvalidEncoding")
          \/ ReadCursor(s) = Err("panic") \/ ReadCursor(s) = Err("AddressTypeNotSupported")
          \/ ReadCursor(s) = e
        <3>1. CASE Len(s) < 2
            BY <3>1, Zenon DEF ReadCursor
        <3>2. CASE ~(Len(s) < 2) /\ s[1] = 1
            BY <3>2 DEF ReadCursor
        <3>3. CASE ~(Len(s) < 2) /\ s[1] = 4
            BY <3>3 DEF ReadCursor
        <3>4. CASE ~(Len(s) < 2) /\ s[1] = 3
            <4>1. s[1] # 1 /\ s[1] # 4 /\ s[1] = 3 /\ ~(Len(s) < 2)
                BY <3>4
            <4> QED
                BY <4>1, Zenon DEF ReadCursor
        <3>5. CASE ~(Len(s) < 2) /\ s[1] # 1 /\ s[1] # 4 /\ s[1] # 3
            BY <3>5, Zenon DEF ReadCursor
        <3> QED
            BY <3>1, <3>2, <3>3, <3>4, <3>5, Zenon
    <2> QED
        BY <2>1
<1>7. /\ Err("invalid buf").err # "ok" /\ Err("AddressDomainInvalidEncoding").err # "ok" /\ Err("panic").err # "ok"
      /\ Err("AddressTypeNotSupported").err # "ok" /\ Err("eof").err # "ok"
    BY DEF Err
<1> QED
    BY <1>5, <1>6, <1>7, Zenon

LEMMA StatusReads ==
    ASSUME NEW k \in Byte
    PROVE  ReadPasswdStatus(WritePasswdStatus(k)) = Ok(k, <<>>)
<1> DEFINE g == <<1, k>>
           z == <<0, 0>>
<1>1. g \in Seq(Byte) /\ Len(g) = 2 /\ g[1] = 1 /\ g[2] = k /\ z \in Seq(Byte)
    <2>1. 1 \in Byte /\ 0 \in Byte
        BY DEF Byte
    <2> QED
        BY <2>1, TwoThen
<1>2. WritePasswdStatus(k) = g
    BY DEF WritePasswdStatus
<1> HIDE DEF g, z
<1>3. First(g \o z, Len(g)) = g /\ First(g \o <<>>, Len(g)) = g /\ Behind(g \o <<>>, Len(g)) = <<>>
    BY <1>1, Cuts, Nothing
<1>4. g \o <<>> = g
    BY <1>1, Nothing, Zenon DEF Empties
<1>5. First(g \o z, 2) = g /\ Behind(g, 2) = <<>>
    BY <1>1, <1>3, <1>4
<1>6. SubSeq(g \o z, 1, 2) = g /\ SubSeq(g, 3, Len(g)) = <<>>
    <2>1. SubSeq(g, 2 + 1, Len(g)) = <<>> /\ SubSeq(g \o z, 1, 2) = g
        BY <1>5, Zenon DEF First, Behind
    <2>2. 2 + 1 = 3
        OBVIOUS
    <2> QED
        BY <2>1, <2>2, Zenon
<1>7. ReadPasswdStatus(g) = IF SubSeq(g \o z, 1, 2)[1] # 1 THEN Err("UnsupportedPasswdAuthVersion")
                            ELSE Ok(SubSeq(g \o z, 1, 2)[2], SubSeq(g, 3, Len(g)))
    BY Zenon DEF ReadPasswdStatus, z
<1> QED
    BY <1>1, <1>2, <1>6, <1>7, Zenon

-----------------------------------------------------------------------------
(***************************************************************************)
(* The steps of the stream keep StreamInv: the network's, the client's     *)
(* going and the failures first, then the handler's, then the client's.    *)
(***************************************************************************)

LEMMA SessionTyped ==
    ASSUME session \in Cases
    PROVE  /\ session.kind \in Socks5Kinds \cup Socks4Kinds
           /\ session.command \in {"connect", "bind", "associate"}
           /\ WellFormed(session.addr) /\ session.data \in Seq(Byte)
           /\ IsText(session.methods) /\ IsText(session.user) /\ IsText(session.passwd)
           /\ session.kind \in Socks4Kinds => Named4(session.addr, session.user) /\ session.command \in {"connect", "bind"}
<1>1. /\ session.kind \in {"connect", "associate", "socks4", "raw", "raw4", "plain"}
      /\ session.command \in {"connect", "bind", "associate"}
      /\ WellFormed(session.addr) /\ IsText(session.methods) /\ IsText(session.user) /\ IsText(session.passwd) /\ session.data \in Seq(Byte)
      /\ session.kind \in {"socks4", "raw4"} =>
           /\ session.command # "associate" /\ ~Contains(session.user, 0)
           /\ \/ session.addr.type = "v4" /\ ~IsSocks4a(session.addr.host)
              \/ session.addr.type = "domain" /\ ~Contains(session.addr.host, 0)
    BY CasesAssumption, Zenon
<1>2. session.kind \in Socks4Kinds => Named4(session.addr, session.user)
    BY <1>1, Zenon DEF Named4, Socks4Kinds
<1>3. session.kind \in Socks5Kinds \cup Socks4Kinds
    BY <1>1 DEF Socks5Kinds, Socks4Kinds
<1>4. session.kind \in Socks4Kinds => session.command \in {"connect", "bind"}
    BY <1>1 DEF Socks4Kinds
<1> QED
    BY <1>1, <1>2, <1>3, <1>4, Zenon

\* What depends on the session alone.
LEMMA SessionSame ==
    ASSUME session' = session
    PROVE  /\ TheRequest' = TheRequest /\ ThePasswd' = ThePasswd /\ OwnRequest' = OwnRequest /\ Opening' = Opening
           /\ FirstPc' = FirstPc /\ Entitled' = Entitled /\ Authorised' = Authorised
           /\ enable_udp' = enable_udp /\ enable_tcp' = enable_tcp /\ auth_required' = auth_required
BY DEF TheRequest, ThePasswd, OwnRequest, Opening, FirstPc, Entitled, Authorised, enable_udp, enable_tcp, auth_required,
       check_user

\* A step that changes none of what the invariant is about, but for how far a byte got.
LEMMA Flowing ==
    ASSUME StreamInv, session' = session, client'.pc = client.pc, client'.result = client.result, Unread' = Unread,
           down' = down, handler' = handler, remote' = remote, Shapes'
    PROVE  StreamInv'
<1>1. /\ TheRequest' = TheRequest /\ ThePasswd' = ThePasswd /\ OwnRequest' = OwnRequest /\ Opening' = Opening
      /\ FirstPc' = FirstPc /\ Authorised' = Authorised /\ enable_udp' = enable_udp
    BY SessionSame
<1>2. Passed' = Passed /\ Gave' = Gave
    BY DEF Passed, Gave
<1>3. AtOpening' = AtOpening /\ AtPasswd' = AtPasswd /\ AtRequest' = AtRequest
    BY <1>1 DEF AtOpening, AtPasswd, AtRequest
<1>4. AtTarget' = AtTarget /\ AtConnect' = AtConnect /\ AtTunnel' = AtTunnel
    BY <1>2 DEF AtTarget, AtConnect, AtTunnel
<1>5. PhaseInv'
    BY <1>3, <1>4 DEF StreamInv, PhaseInv
<1>6. AwaitsChoice' = AwaitsChoice /\ AwaitsReply' = AwaitsReply /\ AwaitsResult' = AwaitsResult
    BY <1>1 DEF AwaitsChoice, AwaitsReply, AwaitsResult
<1>7. ClientInv'
    BY <1>6 DEF StreamInv, ClientInv
<1>8. SaidInv'
    BY <1>1 DEF StreamInv, SaidInv, Honest
<1> QED
    BY <1>5, <1>7, <1>8 DEF StreamInv

LEMMA UdpSteps ==
    ASSUME StreamInv, UNCHANGED <<session, client, up, down, handler, remote>>
    PROVE  StreamInv'
<1>1. Shapes'
    BY DEF StreamInv, Shapes
<1>2. Unread' = Unread
    BY DEF Unread
<1> QED
    BY <1>1, <1>2, Flowing

LEMMA ByteArrivesKeeps ==
    ASSUME StreamInv, ByteArrives
    PROVE  StreamInv'
<1>0. Shapes
    BY DEF StreamInv
<1>1. client.unsent # <<>> /\ client.unsent \in Seq(Byte) /\ up \in Seq(Byte)
    BY <1>0 DEF Shapes, ByteArrives
<1> DEFINE h == Head(client.unsent)
           w == Tail(client.unsent)
<1>2. h \in Byte /\ w \in Seq(Byte)
    BY <1>1, HeadTailProperties
<1>3. client.unsent = <<h>> \o w
    BY <1>1, <1>2
<1>4. up' = Append(up, h) /\ client' = [client EXCEPT !.unsent = w] /\ UNCHANGED <<session, down, handler, remote, udp>>
    BY DEF ByteArrives
<1> HIDE DEF h, w
<1>5. client' = [pc |-> client.pc, unsent |-> w, result |-> client.result, gone |-> client.gone]
    BY <1>0, <1>4 DEF Shapes
<1>6. up' = up \o <<h>> /\ up' \in Seq(Byte)
    BY <1>1, <1>2, <1>4
<1>7. Unread' = Unread
    <2>1. PICK y \in Seq(Byte), x \in Seq(Byte), z \in Seq(Byte) : y = up /\ x = <<h>> /\ z = w
        BY <1>1, <1>2, Bytes
    <2>2. (y \o x) \o z = y \o (x \o z)
        BY ConcatAssociative
    <2>3. Unread' = up' \o w
        BY <1>5 DEF Unread
    <2> QED
        BY <1>3, <1>6, <2>1, <2>2, <2>3, Zenon DEF Unread
<1>8. Shapes'
    <2>1. client' = [pc |-> client'.pc, unsent |-> client'.unsent, result |-> client'.result, gone |-> client'.gone]
          /\ client'.pc = client.pc /\ client'.unsent = w /\ client'.gone = client.gone
        BY <1>5
    <2> QED
        BY <1>0, <1>2, <1>4, <1>6, <2>1 DEF Shapes
<1> QED
    BY <1>4, <1>5, <1>7, <1>8, Flowing

LEMMA ClientGoesKeeps ==
    ASSUME StreamInv, ClientGoes
    PROVE  StreamInv'
<1>0. Shapes
    BY DEF StreamInv
<1>1. client' = [pc |-> client.pc, unsent |-> client.unsent, result |-> client.result, gone |-> TRUE]
      /\ UNCHANGED <<session, up, down, handler, remote>>
    BY <1>0 DEF ClientGoes, Shapes
<1>2. Unread' = Unread
    BY <1>1 DEF Unread
<1>3. Shapes'
    BY <1>0, <1>1 DEF Shapes
<1> QED
    BY <1>1, <1>2, <1>3, Flowing

\* The handler is done.
LEMMA Ending ==
    ASSUME StreamInv, session' = session, client' = client, remote' = remote, Shapes', handler'.pc = "done",
           handler'.command = handler.command, Honest',
           client.pc = "start" => Unread' = <<>> /\ down' = <<>>,
           client.pc = "handshake" => AwaitsChoice', client.pc = "response" => AwaitsReply',
           client.pc = "result4" => AwaitsResult'
    PROVE  StreamInv'
<1>1. Authorised' = Authorised /\ enable_udp' = enable_udp
    BY SessionSame
<1>2. PhaseInv'
    BY DEF PhaseInv, Unserved
<1>3. ClientInv'
    BY DEF StreamInv, ClientInv
<1>4. SaidInv'
    BY <1>1 DEF StreamInv, SaidInv
<1> QED
    BY <1>2, <1>3, <1>4 DEF StreamInv

LEMMA EndingQuietly ==
    ASSUME StreamInv, session' = session, client' = client, remote' = remote, Shapes', handler'.pc = "done",
           handler'.command = handler.command, handler'.replies = handler.replies, down' = down,
           client.pc = "start" => Unread' = <<>>
    PROVE  StreamInv'
<1>1. enable_udp' = enable_udp
    BY SessionSame
<1>2. Honest'
    BY DEF StreamInv, SaidInv, Honest
<1>3. client.pc = "start" => down' = <<>>
    BY DEF StreamInv, ClientInv
<1>4. client.pc = "handshake" => AwaitsChoice'
    BY DEF StreamInv, ClientInv, AwaitsChoice
<1>5. client.pc = "response" => AwaitsReply'
    BY <1>1 DEF StreamInv, ClientInv, AwaitsReply
<1>6. client.pc = "result4" => AwaitsResult'
    BY DEF StreamInv, ClientInv, AwaitsResult
<1> QED
    BY <1>2, <1>3, <1>4, <1>5, <1>6, Ending

\* The handler's record, when only where it is changes.
Went(pc) ==
    handler' = [pc |-> pc, command |-> handler.command, addr |-> handler.addr, buf |-> handler.buf,
                authed |-> handler.authed, replies |-> handler.replies]
LEMMA Moving ==
    ASSUME Shapes, NEW pc, Moves(pc)
    PROVE  Went(pc)
BY DEF Shapes, Moves, Went

LEMMA WriteFailsKeeps ==
    ASSUME StreamInv, WriteFails
    PROVE  StreamInv'
<1>0. Shapes /\ Moves("done") /\ UNCHANGED <<session, client, up, down, remote>>
    BY DEF StreamInv, WriteFails
<1>1. Went("done")
    BY <1>0, Moving
<1>2. Shapes'
    BY <1>0, <1>1 DEF Shapes, Went
<1>3. Unread' = Unread /\ (client.pc = "start" => Unread = <<>>)
    BY <1>0 DEF Unread, StreamInv, ClientInv
<1> QED
    BY <1>0, <1>1, <1>2, <1>3, EndingQuietly DEF Went

LEMMA EndsKeeps ==
    ASSUME StreamInv, Ends
    PROVE  StreamInv'
<1>0. Shapes /\ Moves("done") /\ up' = <<>> /\ UNCHANGED <<session, client, down, remote>> /\ handler.pc \in {"tunnel", "hold"}
    BY DEF StreamInv, Ends
<1>1. Went("done")
    BY <1>0, Moving
<1>2. Shapes'
    BY <1>0, <1>1 DEF Shapes, Went
<1>3. client.pc # "start"
    BY <1>0 DEF StreamInv, ClientInv
<1> QED
    BY <1>0, <1>1, <1>2, <1>3, EndingQuietly DEF Went

\* Bytes of a message, and the first of them.
Message(s, k) == s \in Seq(Byte) /\ Len(s) >= 1 /\ s[1] = k

LEMMA MessageThen ==
    ASSUME NEW k, NEW s \in Seq(Byte), Message(s, k), NEW t \in Seq(Byte)
    PROVE  Message(s \o t, k)
<1>1. Len(s) \in Nat /\ Len(t) \in Nat /\ Len(s) >= 1
    BY LenProperties DEF Message
<1>2. s \o t \in Seq(Byte) /\ Len(s \o t) = Len(s) + Len(t)
      /\ \A i \in 1 .. Len(s) + Len(t) : (s \o t)[i] = IF i <= Len(s) THEN s[i] ELSE t[i - Len(s)]
    BY ConcatProperties
<1>3. 1 \in 1 .. Len(s) + Len(t) /\ 1 <= Len(s) /\ Len(s) + Len(t) >= 1
    BY <1>1
<1>4. (s \o t)[1] = s[1]
    BY <1>2, <1>3
<1>5. Len(s \o t) >= 1
    BY <1>2, <1>3
<1> QED
    BY <1>2, <1>4, <1>5 DEF Message

LEMMA HandshakeMessage ==
    ASSUME NEW x, IsText(x)
    PROVE  Message(WriteHandshake(x), 5)
<1>0. PICK y \in Seq(Byte), n \in Byte : y = x /\ n = Len(x)
    BY TextLength, Zenon
<1> DEFINE h == <<5, n>>
<1>1. h \in Seq(Byte) /\ Len(h) = 2 /\ h[1] = 5
    <2>1. 5 \in Byte
        BY DEF Byte
    <2> QED
        BY <2>1, TwoThen
<1>2. WriteHandshake(x) = h \o y
    BY <1>0, Zenon DEF WriteHandshake, Version5
<1> HIDE DEF h
<1>3. Message(h, 5)
    BY <1>1 DEF Message
<1>4. Message(h \o y, 5)
    BY <1>1, <1>3, MessageThen
<1> QED
    BY <1>2, <1>4, Zenon

LEMMA RequestMessage ==
    ASSUME NEW c \in {"connect", "bind", "associate"}, NEW a, WellFormed(a)
    PROVE  Message(WriteRequest(c, a), 5)
<1> DEFINE k == CommandCode[c]
<1>0. k \in Byte /\ 5 \in Byte /\ 0 \in Byte
    <2>1. 5 \in Byte /\ 0 \in Byte
        BY DEF Byte
    <2> QED
        BY <2>1, Commands, Zenon
<1> HIDE DEF k
<1> DEFINE h == <<5, k, 0>>
<1>1. h \in Seq(Byte) /\ Len(h) = 3 /\ h[1] = 5
    BY <1>0, Bytes
<1>2. PICK y \in Seq(Byte) : y = WriteAddress(a)
    BY AddressTyped
<1>3. WriteRequest(c, a) = h \o y
    BY <1>2, Zenon DEF WriteRequest, Version5, k
<1> HIDE DEF h
<1>4. Message(h, 5)
    BY <1>1 DEF Message
<1>5. Message(h \o y, 5)
    BY <1>1, <1>4, MessageThen
<1> QED
    BY <1>3, <1>5, Zenon

LEMMA PasswdMessage ==
    ASSUME NEW x, IsText(x), NEW y, IsText(y)
    PROVE  Message(WritePasswd(x, y), 1)
<1>0. PICK u \in Seq(Byte), n \in Byte, p \in Seq(Byte), m \in Byte : u = x /\ n = Len(x) /\ p = y /\ m = Len(y)
    BY TextLength, Zenon
<1> DEFINE h == <<1, n>>
<1>1. h \in Seq(Byte) /\ Len(h) = 2 /\ h[1] = 1
    <2>1. 1 \in Byte
        BY DEF Byte
    <2> QED
        BY <2>1, TwoThen
<1>2. PICK z \in Seq(Byte) : z = <<m>>
    BY Bytes
<1>3. WritePasswd(x, y) = ((h \o u) \o z) \o p
    BY <1>0, <1>2, Zenon DEF WritePasswd
<1> HIDE DEF h
<1>4. Message(h, 1)
    BY <1>1 DEF Message
<1>5. PICK a \in Seq(Byte) : a = h \o u /\ Message(a, 1)
    <2>1. Message(h \o u, 1)
        BY <1>1, <1>4, MessageThen
    <2> QED
        BY <2>1 DEF Message
<1>6. PICK b \in Seq(Byte) : b = a \o z /\ Message(b, 1)
    <2>1. Message(a \o z, 1)
        BY <1>5, MessageThen
    <2> QED
        BY <2>1 DEF Message
<1>7. Message(b \o p, 1)
    BY <1>6, MessageThen
<1> QED
    BY <1>3, <1>5, <1>6, <1>7, Zenon

LEMMA Request4Message ==
    ASSUME NEW c \in {"connect", "bind"}, NEW a, NEW user, Named4(a, user)
    PROVE  Message(WriteRequest4(c, a, user), 4)
<1> DEFINE k == Command4Code[c]
<1>0. k \in Byte
    BY Commands4, Zenon
<1> HIDE DEF k
<1> DEFINE h == <<4, k>>
<1>1. h \in Seq(Byte) /\ Len(h) = 2 /\ h[1] = 4
    <2>1. 4 \in Byte
        BY DEF Byte
    <2> QED
        BY <1>0, <2>1, TwoThen
<1>2. PICK p \in Seq(Byte), d \in Seq(Byte), n \in Seq(Byte) : p = U16(a.port) /\ d = a.host /\ n = user
    <2>1. WellFormed(a) /\ IsText(user)
        BY DEF Named4
    <2> QED
        BY <2>1, Fields, TextLength, Zenon
<1>3. PICK z \in Seq(Byte), f \in Seq(Byte) : z = <<0>> /\ f = <<0, 0, 0, 255>>
    BY Zero, NameMark, Zenon
<1> DEFINE y == IF a.type = "v4" THEN (d \o n) \o z ELSE (((f \o n) \o z) \o d) \o z
<1>4. y \in Seq(Byte)
    <2>1. PICK g \in Seq(Byte) : g = d \o n
        BY ConcatProperties
    <2>2. PICK g2 \in Seq(Byte) : g2 = g \o z
        BY ConcatProperties
    <2>3. PICK e \in Seq(Byte) : e = f \o n
        BY ConcatProperties
    <2>4. PICK e2 \in Seq(Byte) : e2 = e \o z
        BY ConcatProperties
    <2>5. PICK e3 \in Seq(Byte) : e3 = e2 \o d
        BY ConcatProperties
    <2>6. PICK e4 \in Seq(Byte) : e4 = e3 \o z
        BY ConcatProperties
    <2> QED
        BY <2>1, <2>2, <2>3, <2>4, <2>5, <2>6, Zenon
<1>5. WriteRequest4(c, a, user) = (h \o p) \o y
    BY <1>2, <1>3, Zenon DEF WriteRequest4, Version4, k
<1> HIDE DEF h, y
<1>6. Message(h, 4)
    BY <1>1 DEF Message
<1>7. PICK b \in Seq(Byte) : b = h \o p /\ Message(b, 4)
    <2>1. Message(h \o p, 4)
        BY <1>1, <1>6, MessageThen
    <2> QED
        BY <2>1 DEF Message
<1>8. Message(b \o y, 4)
    BY <1>4, <1>7, MessageThen
<1> QED
    BY <1>5, <1>7, <1>8, Zenon

\* What is sent in a session.
LEMMA SessionSpeaks ==
    ASSUME session \in Cases, session.kind \in Socks5Kinds
    PROVE  /\ Message(TheRequest, 5) /\ Message(ThePasswd, 1) /\ Message(ThePasswd \o TheRequest, 1)
           /\ session.kind \in OwnKinds => Message(OwnRequest, 5)
           /\ Message(Opening, 5)
<1>1. /\ session.command \in {"connect", "bind", "associate"}
      /\ WellFormed(session.addr) /\ session.data \in Seq(Byte)
      /\ IsText(session.methods) /\ IsText(session.user) /\ IsText(session.passwd)
    BY SessionTyped
<1>2. PICK r \in Seq(Byte), d \in Seq(Byte) : r = WriteRequest(session.command, session.addr) /\ d = session.data /\ Message(r, 5)
    <2>1. Message(WriteRequest(session.command, session.addr), 5)
        BY <1>1, RequestMessage, Zenon
    <2> QED
        BY <1>1, <2>1, Zenon DEF Message
<1>3. Message(TheRequest, 5)
    <2>1. Message(r \o d, 5)
        BY <1>2, MessageThen
    <2> QED
        BY <1>2, <2>1, Zenon DEF TheRequest
<1>4. Message(ThePasswd, 1)
    BY <1>1, PasswdMessage, Zenon DEF ThePasswd
<1>5. PICK p \in Seq(Byte), q \in Seq(Byte) : p = ThePasswd /\ q = TheRequest /\ Message(p, 1)
    BY <1>3, <1>4, Zenon DEF Message
<1>6. Message(p \o q, 1)
    BY <1>5, MessageThen
<1>7. PICK y \in Seq(Byte) : y = p \o q
    BY <1>6, Zenon DEF Message
<1>8. ASSUME session.kind \in OwnKinds PROVE Message(OwnRequest, 5)
    <2>1. session.kind \in {"connect", "bind", "associate"}
        BY <1>8 DEF OwnKinds
    <2> QED
        BY <1>1, <2>1, RequestMessage, Zenon DEF OwnRequest
<1>9. Message(Opening, 5)
    <2>1. CASE session.kind \in OwnKinds
        <3>1. IsText(<<MethodNone>>)
            <4>1. <<0>> \in Seq(Byte) /\ Len(<<0>>) <= 255
                BY Zero
            <4> QED
                BY <4>1 DEF IsText, MethodNone
        <3>2. Message(WriteHandshake(<<MethodNone>>), 5)
            BY <3>1, HandshakeMessage
        <3>3. Opening = WriteHandshake(<<MethodNone>>)
            <4>1. session.kind # "socks4" /\ session.kind # "raw4" /\ session.kind # "raw" /\ session.kind # "plain"
                BY <2>1 DEF OwnKinds
            <4> QED
                BY <2>1, <4>1 DEF Opening
        <3> QED
            BY <3>2, <3>3, Zenon
    <2>2. PICK h \in Seq(Byte) : h = WriteHandshake(session.methods) /\ Message(h, 5)
        BY <1>1, HandshakeMessage, Zenon DEF Message
    <2>3. Message(h \o y, 5) /\ Message(h \o q, 5)
        BY <2>2, MessageThen
    <2>4. CASE session.kind = "raw"
        <3>1. Opening = h \o y
            BY <1>5, <1>7, <2>2, <2>4 DEF Opening, OwnKinds
        <3> QED
            BY <2>3, <3>1, Zenon
    <2>5. CASE session.kind = "plain"
        <3>1. Opening = h \o q
            BY <1>5, <2>2, <2>5 DEF Opening, OwnKinds
        <3> QED
            BY <2>3, <3>1, Zenon
    <2> QED
        BY <2>1, <2>4, <2>5 DEF Socks5Kinds, OwnKinds
<1> QED
    BY <1>3, <1>4, <1>5, <1>6, <1>8, <1>9, Zenon

LEMMA SessionSpeaks4 ==
    ASSUME session \in Cases, session.kind \in Socks4Kinds
    PROVE  Message(Opening, 4)
<1>1. Named4(session.addr, session.user) /\ session.command \in {"connect", "bind"} /\ session.data \in Seq(Byte)
    BY SessionTyped
<1>2. CASE session.kind = "socks4"
    <2>1. Message(WriteRequest4("connect", session.addr, session.user), 4)
        BY <1>1, Request4Message
    <2> QED
        BY <1>2, <2>1 DEF Opening, OwnKinds
<1>3. CASE session.kind = "raw4"
    <2>1. Message(WriteRequest4(session.command, session.addr, session.user), 4)
        BY <1>1, Request4Message
    <2>2. PICK r \in Seq(Byte), d \in Seq(Byte) :
              r = WriteRequest4(session.command, session.addr, session.user) /\ d = session.data /\ Message(r, 4)
        BY <1>1, <2>1, Zenon DEF Message
    <2>3. Message(r \o d, 4)
        BY <2>2, MessageThen
    <2>4. Opening = WriteRequest4(session.command, session.addr, session.user) \o session.data
        BY <1>3 DEF Opening, OwnKinds
    <2> QED
        BY <2>2, <2>3, <2>4, Zenon
<1> QED
    BY <1>2, <1>3 DEF Socks4Kinds

\* A step of the handler: the client stays where it is.
LEMMA Serving ==
    ASSUME StreamInv, session' = session, client' = client, Shapes', PhaseInv', SaidInv',
           client.pc = "start" => Unread' = <<>> /\ down' = <<>> /\ handler'.pc \in {"peek", "done"},
           client.pc = "handshake" => AwaitsChoice', client.pc = "response" => AwaitsReply',
           client.pc = "result4" => AwaitsResult',
           client.pc = "end" /\ session.kind \notin RawKinds =>
               handler'.pc \in {"tunnel", "hold", "done"} /\ (handler'.pc = "tunnel" => client.result = "connected")
    PROVE  StreamInv'
BY DEF StreamInv, ClientInv

\* The first byte that arrived is the first of what the client says.
LEMMA FirstArrived ==
    ASSUME StreamInv, up # <<>>
    PROVE  /\ client.pc # "start"
           /\ AtOpening => Unread = Opening /\ up[1] = Opening[1]
<1>0. up \in Seq(Byte) /\ client.unsent \in Seq(Byte)
    BY DEF StreamInv, Shapes
<1>1. PICK s \in Seq(Byte), u \in Seq(Byte) : s = up /\ u = client.unsent
    BY <1>0
<1>2. Unread = s \o u
    BY <1>1, Zenon DEF Unread
<1>3. Len(s) # 0 /\ Len(s) \in Nat /\ Len(u) \in Nat
    BY <1>1 , EmptySeq, LenProperties
<1>4. s \o u # <<>>
    <2>1. Len(s \o u) = Len(s) + Len(u)
        BY ConcatProperties
    <2>2. Len(s \o u) # 0
        BY <1>3, <2>1
    <2>3. Len(<<>>) = 0
        OBVIOUS
    <2> QED
        BY <2>2, <2>3, Zenon
<1>5. client.pc # "start"
    BY <1>2, <1>4 DEF StreamInv, ClientInv
<1>6. s[1] = (s \o u)[1]
    <2>1. 1 \in Nat \ {0} /\ ~(Len(s) < 1)
        BY <1>3
    <2> QED
        BY <2>1, SameStart
<1>7. ASSUME AtOpening PROVE Unread = Opening
    BY <1>5, <1>7 DEF AtOpening
<1> QED
    BY <1>1, <1>2, <1>5, <1>6, <1>7, Zenon

LEMMA PeekKeeps ==
    ASSUME StreamInv, Peek
    PROVE  StreamInv'
<1>0. Shapes /\ UNCHANGED <<session, client, up, down, remote, udp>> /\ handler.pc = "peek" /\ AtOpening
    BY DEF StreamInv, PhaseInv, Peek
<1>1. Unread' = Unread /\ (client.pc = "start" => Unread = <<>>)
    BY <1>0 DEF Unread, StreamInv, ClientInv
<1>2. CASE Moves("done")
    <2>1. Went("done")
        BY <1>0, <1>2, Moving
    <2>2. Shapes'
        BY <1>0, <2>1 DEF Shapes, Went
    <2> QED
        BY <1>0, <1>1, <2>1, <2>2, EndingQuietly DEF Went
<1>3. ASSUME NEW pc \in {"handshake", "request4"}, Moves(pc), up # <<>>,
             up[1] = IF pc = "handshake" THEN 5 ELSE 4
      PROVE  StreamInv'
    <2>1. Went(pc)
        BY <1>0, <1>3, Moving
    <2>2. Shapes'
        BY <1>0, <1>3, <2>1 DEF Shapes, Went, Unserved
    <2>3. client.pc # "start" /\ Unread = Opening /\ up[1] = Opening[1]
        BY <1>0, <1>3, FirstArrived
    <2>4. session.kind \in Socks5Kinds => Opening[1] = 5
        BY <1>0, SessionSpeaks DEF Shapes, Message
    <2>5. session.kind \in Socks4Kinds => Opening[1] = 4
        BY <1>0, SessionSpeaks4 DEF Shapes, Message
    <2>6. session.kind \in Socks5Kinds \cup Socks4Kinds
        BY <1>0, SessionTyped DEF Shapes
    <2>7. IF pc = "handshake" THEN session.kind \in Socks5Kinds ELSE session.kind \in Socks4Kinds
        BY <1>3, <2>3, <2>4, <2>5, <2>6
    <2>8. Opening' = Opening /\ FirstPc' = FirstPc /\ Authorised' = Authorised /\ enable_udp' = enable_udp
        BY <1>0, SessionSame
    <2>9. PhaseInv'
        <3>1. AtOpening'
            BY <1>0, <1>1, <1>3, <2>1, <2>3, <2>7, <2>8 DEF AtOpening, Went
        <3> QED
            BY <1>0, <1>3, <2>1, <3>1 DEF StreamInv, PhaseInv, Went, Unserved
    <2>10. SaidInv'
        BY <1>0, <2>1, <2>8 DEF StreamInv, SaidInv, Honest, Went
    <2>11. down = <<>>
        BY <1>0 DEF AtOpening
    <2>12. client.pc \in {"handshake", "result4", "end"} /\ (client.pc = "end" => session.kind \in RawKinds)
           /\ (client.pc = "handshake" => pc = "handshake") /\ (client.pc = "result4" => pc = "request4")
        BY <1>0, <2>3, <2>6, <2>7 DEF AtOpening, FirstPc, Socks5Kinds, Socks4Kinds, RawKinds, OwnKinds
    <2>13. client.pc = "handshake" => AwaitsChoice'
        BY <1>0, <2>1, <2>11, <2>12 DEF AwaitsChoice, Went
    <2>14. client.pc = "result4" => AwaitsResult'
        BY <1>0, <2>1, <2>11, <2>12 DEF AwaitsResult, Went
    <2> QED
        BY <1>0, <2>2, <2>3, <2>9, <2>10, <2>12, <2>13, <2>14, Serving
<1>4. \/ Moves("done")
      \/ \E pc \in {"handshake", "request4"} : Moves(pc) /\ up # <<>> /\ up[1] = IF pc = "handshake" THEN 5 ELSE 4
    BY DEF Peek, Version4, Version5
<1> QED
    BY <1>2, <1>3, <1>4, Zenon

LEMMA AcceptedIs ==
    ASSUME NEW s \in Seq(Byte), Accepted(s) # 0
    PROVE  /\ Accepted(s) \in 1 .. Len(s) /\ s[Accepted(s)] \in {MethodNone, MethodPassword}
           /\ s[Accepted(s)] = MethodNone => ~auth_required
<1> DEFINE I == {i \in 1 .. Len(s) : s[i] = MethodPassword \/ (s[i] = MethodNone /\ ~auth_required)}
<1>1. Accepted(s) = IF I # {} THEN Min(I) ELSE 0
    BY DEF Accepted, SelectInSeq
<1>2. I # {} /\ I \subseteq Nat
    BY <1>1
<1>3. Min(I) \in I
    <2> HIDE DEF I
    <2> QED
        BY <1>2, MinIs
<1>4. Accepted(s) \in I
    BY <1>1, <1>2, <1>3
<1> QED
    BY <1>4 DEF MethodNone, MethodPassword

\* The greeting that arrived is the client's.
Behind5 == CASE session.kind \in OwnKinds -> <<>> [] session.kind = "raw" -> ThePasswd \o TheRequest [] OTHER -> TheRequest
Methods5 == IF session.kind \in OwnKinds THEN <<MethodNone>> ELSE session.methods
LEMMA Greeting ==
    ASSUME session \in Cases, session.kind \in Socks5Kinds, up \in Seq(Byte), client.unsent \in Seq(Byte), Unread = Opening
    PROVE  Means(ReadHandshake(up), Methods5, Behind5, client.unsent)
<1>1. PICK s \in Seq(Byte), u \in Seq(Byte) : s = up /\ u = client.unsent
    OBVIOUS
<1>2. PICK t \in Seq(Byte) : t = Behind5
    <2>1. ThePasswd \o TheRequest \in Seq(Byte) /\ TheRequest \in Seq(Byte)
        BY SessionSpeaks DEF Message
    <2>2. <<>> \in Seq(Byte)
        BY Nothing
    <2> QED
        BY <2>1, <2>2 DEF Behind5
<1>3. IsText(Methods5)
    <2>1. IsText(session.methods)
        BY SessionTyped
    <2>2. <<0>> \in Seq(Byte) /\ Len(<<0>>) <= 255
        BY Zero
    <2> QED
        BY <2>1, <2>2 DEF IsText, MethodNone, Methods5
<1>4. PICK m : m = Methods5 /\ IsText(m)
    BY <1>3
<1>5. s \o u = WriteHandshake(m) \o t
    <2>1. CASE session.kind \in OwnKinds
        <3>1. session.kind # "socks4" /\ session.kind # "raw4" /\ session.kind # "raw" /\ session.kind # "plain"
            BY <2>1 DEF OwnKinds
        <3>2. Opening = WriteHandshake(m) /\ t = <<>>
            BY <1>2, <1>4, <2>1, <3>1 DEF Opening, Methods5, Behind5
        <3>3. WriteHandshake(m) \in Seq(Byte)
            BY <1>4, HandshakeMessage DEF Message
        <3>4. Empties(WriteHandshake(m))
            BY <3>3, Nothing
        <3> QED
            BY <1>1, <3>2, <3>4, Zenon DEF Empties, Unread
    <2>2. CASE session.kind = "raw"
        <3>1. Opening = WriteHandshake(m) \o t
            BY <1>2, <1>4, <2>2 DEF Opening, Methods5, Behind5, OwnKinds
        <3> QED
            BY <1>1, <3>1, Zenon DEF Unread
    <2>3. CASE session.kind = "plain"
        <3>1. Opening = WriteHandshake(m) \o t
            BY <1>2, <1>4, <2>3 DEF Opening, Methods5, Behind5, OwnKinds
        <3> QED
            BY <1>1, <3>1, Zenon DEF Unread
    <2> QED
        BY <2>1, <2>2, <2>3 DEF Socks5Kinds, OwnKinds
<1>6. Means(ReadHandshake(s), m, t, u)
    BY <1>4, <1>5, HandshakeMeans
<1> QED
    BY <1>1, <1>2, <1>4, <1>6, Zenon

LEMMA HandshakeKeeps ==
    ASSUME StreamInv, Handshake
    PROVE  StreamInv'
<1> DEFINE r == ReadHandshake(up)
           i == Accepted(r.v)
<1>0. Shapes /\ UNCHANGED <<session, client, remote, udp>> /\ handler.pc = "handshake" /\ AtOpening /\ down = <<>>
      /\ session.kind \in Socks5Kinds /\ client.pc # "start" /\ Unread = Opening /\ client.pc = FirstPc
      /\ handler.replies = <<>> /\ remote.got = <<>> /\ handler.buf = <<>>
    BY DEF StreamInv, PhaseInv, Handshake, AtOpening, Unserved
<1>1. session \in Cases /\ up \in Seq(Byte) /\ client.unsent \in Seq(Byte)
    BY <1>0 DEF Shapes
<1>2. Means(r, Methods5, Behind5, client.unsent)
    BY <1>0, <1>1, Greeting
<1>3. /\ up' = r.rest
      /\ IF r.err # "ok" THEN Moves("done") /\ UNCHANGED down
         ELSE IF i = 0 THEN Moves("done") /\ down' = down \o WriteChosen(MethodNotAcceptable)
              ELSE /\ down' = down \o WriteChosen(r.v[i])
                   /\ handler' = [handler EXCEPT !.pc = IF r.v[i] = MethodPassword THEN "passwd" ELSE "request",
                                                 !.authed = r.v[i] = MethodNone]
    BY Zenon DEF Handshake
<1> HIDE DEF r
<1>4. r.rest \in Seq(Byte) /\ (r.err = "ok" => r.v = Methods5 /\ r.rest \o client.unsent = Behind5)
    BY <1>2 DEF Means
<1>5. client.pc \in {"handshake", "end"} /\ (client.pc = "end" <=> session.kind \in RawKinds)
    BY <1>0 DEF FirstPc, Socks5Kinds, RawKinds, OwnKinds
<1>6. CASE r.err # "ok"
    <2>1. Went("done") /\ down' = down
        BY <1>0, <1>3, <1>6, Moving
    <2>2. Shapes'
        BY <1>0, <1>3, <1>4, <2>1 DEF Shapes, Went
    <2> QED
        BY <1>0, <2>1, <2>2, EndingQuietly DEF Went
<1>7. ASSUME NEW m \in Byte, down' = down \o WriteChosen(m) PROVE down' = WriteChosen(m) /\ down' \in Seq(Byte)
    <2>1. WriteChosen(m) \in Seq(Byte)
        <3>1. <<>> \in Seq(Byte)
            BY Nothing
        <3> QED
            BY <3>1, ChosenReads
    <2>2. Empties(WriteChosen(m))
        BY <2>1, Nothing
    <2> QED
        BY <1>0, <1>7, <2>1, <2>2, Zenon DEF Empties
<1>8. CASE r.err = "ok" /\ i = 0
    <2>1. Went("done")
        BY <1>0, <1>3, <1>8, Moving
    <2>2. MethodNotAcceptable \in Byte
        BY DEF MethodNotAcceptable, Byte
    <2>3. down' = WriteChosen(MethodNotAcceptable) /\ down' \in Seq(Byte)
        BY <1>3, <1>7, <1>8, <2>2
    <2>4. Shapes'
        BY <1>0, <1>3, <1>4, <2>1, <2>3 DEF Shapes, Went
    <2>5. AwaitsChoice'
        BY <2>1, <2>3 DEF AwaitsChoice, Went
    <2>6. Honest'
        BY <1>0, <2>1 DEF Honest, Went
    <2> QED
        BY <1>0, <1>5, <2>1, <2>4, <2>5, <2>6, Ending DEF Went
<1>9. CASE r.err = "ok" /\ i # 0
    <2>0. Methods5 \in Seq(Byte)
        <3>1. session.methods \in Seq(Byte) /\ <<0>> \in Seq(Byte)
            BY <1>1, SessionTyped, Zero DEF IsText
        <3> QED
            BY <3>1 DEF Methods5, MethodNone
    <2>1. PICK x \in Seq(Byte) : x = r.v /\ x = Methods5
        BY <1>4, <1>9, <2>0
    <2>2. i \in 1 .. Len(x) /\ x[i] \in {MethodNone, MethodPassword} /\ (x[i] = MethodNone => ~auth_required)
        BY <1>9, <2>1, AcceptedIs
    <2>3. PICK k \in {0, 2} : k = x[i]
        BY <2>2 DEF MethodNone, MethodPassword
    <2>4. k = 0 => ~auth_required
        BY <2>2, <2>3 DEF MethodNone
    <2>5. session.kind \in OwnKinds => k = 0
        <3>1. ASSUME session.kind \in OwnKinds PROVE k = 0
            <4>1. x = <<0>>
                BY <2>1, <3>1 DEF Methods5, MethodNone
            <4> QED
                BY <2>2, <2>3, <4>1
        <3> QED
            BY <3>1
    <2>6. k \in Byte
        BY DEF Byte
    <2>7. down' = WriteChosen(k) /\ down' \in Seq(Byte)
        <3>1. down' = down \o WriteChosen(k)
            BY <1>3, <1>9, <2>1, <2>3, Zenon
        <3> QED
            BY <1>7, <2>6, <3>1
    <2>8. \E c \in BOOLEAN : handler' = [handler EXCEPT !.pc = IF k = 2 THEN "passwd" ELSE "request", !.authed = c]
        <3>1. handler' = [handler EXCEPT !.pc = IF k = MethodPassword THEN "passwd" ELSE "request", !.authed = k = MethodNone]
            BY <1>3, <1>9, <2>1, <2>3, Zenon
        <3> QED
            BY <3>1 DEF MethodPassword
    <2>9. \E c \in BOOLEAN : handler' = [pc |-> IF k = 2 THEN "passwd" ELSE "request", command |-> handler.command, addr |-> handler.addr,
                                         buf |-> handler.buf, authed |-> c, replies |-> handler.replies]
        BY <1>0, <2>8 DEF Shapes
    <2> HIDE DEF i
    <2>10. Shapes'
        BY <1>0, <1>3, <1>4, <2>7, <2>9 DEF Shapes, Unserved
    <2>11. Unread' = Behind5
        BY <1>0, <1>3, <1>4, <1>9, Zenon DEF Unread
    <2>12. TheRequest' = TheRequest /\ ThePasswd' = ThePasswd /\ Authorised' = Authorised /\ enable_udp' = enable_udp
        BY <1>0, SessionSame
    <2>13. PhaseInv'
        <3>1. k = 2 => AtPasswd'
            BY <1>0, <2>5, <2>11, <2>12 DEF AtPasswd, Behind5, Socks5Kinds, OwnKinds
        <3>2. k = 0 => AtRequest'
            BY <1>0, <1>5, <2>4, <2>7, <2>11, <2>12 DEF AtRequest, Behind5, Socks5Kinds, OwnKinds, RawKinds, Authorised, MethodNone
        <3> QED
            BY <1>0, <2>9, <3>1, <3>2 DEF PhaseInv, Unserved
    <2>14. SaidInv'
        BY <1>0, <2>9, <2>12 DEF StreamInv, SaidInv, Honest
    <2>15. client.pc = "handshake" => AwaitsChoice'
        BY <1>5, <2>5, <2>7, <2>9, <1>0 DEF AwaitsChoice, MethodNone, RawKinds, OwnKinds, Socks5Kinds
    <2> QED
        BY <1>0, <1>5, <2>10, <2>13, <2>14, <2>15, Serving
<1> QED
    BY <1>6, <1>8, <1>9

LEMMA AsReplyIs ==
    ASSUME NEW e
    PROVE  AsReply(e) \in Replies5 /\ AsReply(e) # "Succeeded" /\ AsReply(e) \in Refusals5 /\ ReplyCode[AsReply(e)] \in Byte
<1>1. AsReply(e) \in {"AddressTypeNotSupported", "CommandNotSupported", "GeneralFailure"}
    BY DEF AsReply
<1>2. AsReply(e) \in Replies5 /\ AsReply(e) # "Succeeded"
    BY <1>1 DEF Replies5
<1>3. AsReply(e) \in Refusals5 /\ ReplyCode[AsReply(e)] \in Byte
    BY <1>2, ReplyCodes, Zenon DEF Refusals5
<1> QED
    BY <1>2, <1>3

LEMMA CheckAuthPasswordKeeps ==
    ASSUME StreamInv, CheckAuthPassword
    PROVE  StreamInv'
<1> DEFINE r == ReadPasswd(up)
           granted == r.err = "ok" /\ Utf8(r.v.uname) /\ Utf8(r.v.passwd) /\ check_user(r.v.uname, r.v.passwd)
           status == IF granted THEN 0 ELSE IF r.err # "ok" THEN ReplyCode[AsReply(r.err)] ELSE StatusFailure
<1>0. Shapes /\ UNCHANGED <<session, client, remote, udp>> /\ handler.pc = "passwd" /\ AtPasswd
      /\ session.kind \in {"raw", "plain"} /\ client.pc = "end"
      /\ handler.replies = <<>> /\ remote.got = <<>> /\ handler.buf = <<>>
    <2>1. Shapes /\ UNCHANGED <<session, client, remote, udp>> /\ handler.pc = "passwd" /\ AtPasswd
        BY DEF StreamInv, PhaseInv, CheckAuthPassword
    <2>2. handler.replies = <<>> /\ remote.got = <<>> /\ handler.buf = <<>>
        BY <2>1 DEF StreamInv, PhaseInv, Unserved
    <2>3. session.kind \in {"raw", "plain"}
        BY <2>1 DEF AtPasswd
    <2>4. client.pc \in {"start", "handshake", "response", "result4", "end"}
        BY <2>1 DEF Shapes
    <2>5. client.pc = "end"
        BY <2>1, <2>3, <2>4 DEF StreamInv, ClientInv, OwnKinds
    <2> QED
        BY <2>1, <2>2, <2>3, <2>5
<1>1. session \in Cases /\ up \in Seq(Byte) /\ client.unsent \in Seq(Byte) /\ down \in Seq(Byte) /\ session.kind \in Socks5Kinds
    BY <1>0 DEF Shapes, Socks5Kinds
<1>2. PICK s \in Seq(Byte), u \in Seq(Byte), p \in Seq(Byte), q \in Seq(Byte) :
          /\ s = up /\ u = client.unsent /\ p = ThePasswd \o TheRequest /\ q = TheRequest /\ Message(q, 5)
    BY <1>1, SessionSpeaks, Zenon DEF Message
<1>3. r.rest \in Seq(Byte) /\ (r.err = "ok" => session.kind = "raw" /\ r.rest \o u = q
                                               /\ r.v.uname = session.user /\ r.v.passwd = session.passwd)
    <2>1. CASE session.kind = "raw"
        <3>1. s \o u = WritePasswd(session.user, session.passwd) \o q
            BY <1>0, <1>2, <2>1, Zenon DEF AtPasswd, Unread, ThePasswd, TheRequest
        <3>2. IsText(session.user) /\ IsText(session.passwd)
            BY <1>1, SessionTyped
        <3>3. Means(ReadPasswd(s), [uname |-> session.user, passwd |-> session.passwd], q, u)
            BY <3>1, <3>2, PasswdMeans
        <3>4. Means(r, [uname |-> session.user, passwd |-> session.passwd], q, u)
            BY <1>2, <3>3, Zenon
        <3> HIDE DEF r
        <3> QED
            BY <2>1, <3>4 DEF Means
    <2>2. CASE session.kind = "plain"
        <3>1. s \o u = q
            BY <1>0, <1>2, <2>2 DEF AtPasswd, Unread
        <3>2. (s \o u)[1] # 1
            BY <1>2, <3>1 DEF Message
        <3>3. ReadPasswd(s).err # "ok" /\ ReadPasswd(s).rest = <<>>
            BY <3>2, WrongStart
        <3>4. <<>> \in Seq(Byte)
            BY Nothing
        <3> QED
            BY <1>2, <3>3, <3>4, Zenon
    <2> QED
        BY <1>0, <2>1, <2>2
<1>4. /\ up' = r.rest /\ down' = down \o WritePasswdStatus(status)
      /\ handler' = [handler EXCEPT !.pc = IF granted THEN "request" ELSE "done", !.authed = granted]
    BY Zenon DEF CheckAuthPassword
<1>5. status \in Byte
    <2>1. 0 \in Byte /\ StatusFailure \in Byte
        BY DEF Byte, StatusFailure
    <2>2. ReplyCode[AsReply(r.err)] \in Byte
        BY AsReplyIs
    <2> HIDE DEF granted
    <2> QED
        BY <2>1, <2>2, Zenon
<1>6. PICK g \in BOOLEAN : g = granted
    OBVIOUS
<1> HIDE DEF status
<1>7. down' \in Seq(Byte)
    <2>1. PICK w \in Seq(Byte) : w = WritePasswdStatus(status)
        <3>1. 1 \in Byte
            BY DEF Byte
        <3>2. <<1, status>> \in Seq(Byte)
            BY <1>5, <3>1, TwoThen
        <3> QED
            BY <3>2, Zenon DEF WritePasswdStatus
    <2>2. PICK d \in Seq(Byte) : d = down
        BY <1>1
    <2>3. d \o w \in Seq(Byte)
        BY ConcatProperties
    <2> QED
        BY <1>4, <2>1, <2>2, <2>3, Zenon
<1>8. handler' = [pc |-> IF g THEN "request" ELSE "done", command |-> handler.command, addr |-> handler.addr,
                  buf |-> handler.buf, authed |-> g, replies |-> handler.replies]
    <2>1. handler' = [handler EXCEPT !.pc = IF g THEN "request" ELSE "done", !.authed = g]
        BY <1>4, <1>6, Zenon
    <2> QED
        BY <1>0, <2>1 DEF Shapes
<1>9. g => session.kind = "raw" /\ check_user(session.user, session.passwd) /\ r.rest \o u = q
    BY <1>3, <1>6, Zenon
<1> HIDE DEF granted, r
<1>10. Shapes'
    BY <1>0, <1>3, <1>4, <1>7, <1>8 DEF Shapes, Unserved
<1>11. TheRequest' = TheRequest /\ ThePasswd' = ThePasswd /\ Authorised' = Authorised /\ enable_udp' = enable_udp
    BY <1>0, SessionSame
<1>12. Honest'
    BY <1>0, <1>8 DEF Honest
<1>13. CASE ~g
    BY <1>0, <1>8, <1>10, <1>12, <1>13, Ending
<1>14. CASE g
    <2>1. Unread' = TheRequest /\ Authorised
        BY <1>0, <1>2, <1>4, <1>9, <1>14, Zenon DEF Unread, Authorised, Entitled
    <2>2. AtRequest'
        BY <1>0, <1>1, <1>9, <1>11, <1>14, <2>1 DEF AtRequest, OwnKinds, Socks5Kinds
    <2>3. PhaseInv'
        BY <1>0, <1>8, <1>14, <2>2 DEF PhaseInv, Unserved
    <2>4. SaidInv'
        BY <1>0, <1>8, <1>11, <1>12 DEF StreamInv, SaidInv
    <2>5. session.kind \in RawKinds
        BY <1>0 DEF RawKinds
    <2> QED
        BY <1>0, <1>10, <2>3, <2>4, <2>5, Serving
<1> QED
    BY <1>13, <1>14

\* The request that arrived is the client's.
Asks5 == [command |-> IF session.kind \in OwnKinds THEN session.kind ELSE session.command, addr |-> session.addr]
Data5 == IF session.kind \in OwnKinds THEN <<>> ELSE session.data

LEMMA RequestReads ==
    ASSUME NEW c \in {"connect", "bind", "associate"}, WellFormed(session.addr),
           up \in Seq(Byte), client.unsent \in Seq(Byte), NEW t, t \in Seq(Byte),
           Unread = WriteRequest(c, session.addr) \o t
    PROVE  Means(ReadRequest(up), [command |-> c, addr |-> session.addr], t, client.unsent)
<1>1. PICK s \in Seq(Byte), u \in Seq(Byte), w \in Seq(Byte) : s = up /\ u = client.unsent /\ w = t
    OBVIOUS
<1>2. s \o u = WriteRequest(c, session.addr) \o w
    BY <1>1, Zenon DEF Unread
<1>3. Means(ReadRequest(s), [command |-> c, addr |-> session.addr], w, u)
    BY <1>2, RequestMeans
<1> QED
    BY <1>1, <1>3, Zenon

LEMMA Asked ==
    ASSUME session \in Cases, up \in Seq(Byte), client.unsent \in Seq(Byte), AtRequest
    PROVE  \/ Means(ReadRequest(up), Asks5, Data5, client.unsent)
              /\ (session.kind \in OwnKinds => client.pc = "response" /\ down = <<>>)
           \/ ReadRequest(up).err # "ok" /\ ReadRequest(up).rest = <<>>
<1>0. session.kind \in Socks5Kinds /\ WellFormed(session.addr) /\ session.command \in {"connect", "bind", "associate"}
      /\ session.data \in Seq(Byte)
    BY SessionTyped DEF AtRequest
<1>1. PICK s \in Seq(Byte), u \in Seq(Byte), p \in Seq(Byte), q \in Seq(Byte) :
          /\ s = up /\ u = client.unsent /\ p = ThePasswd \o TheRequest /\ q = TheRequest /\ Message(p, 1)
    BY <1>0, SessionSpeaks, Zenon DEF Message
<1>2. CASE session.kind \in OwnKinds /\ client.pc = "handshake"
    <2>1. Unread = <<>>
        BY <1>2 DEF AtRequest
    <2>2. s \o u = <<>>
        BY <1>1, <2>1, Zenon DEF Unread
    <2>3. Len(s) < 3
        <3>1. Len(s \o u) = Len(s) + Len(u) /\ Len(s) \in Nat /\ Len(u) \in Nat
            BY ConcatProperties, LenProperties
        <3>2. Len(<<>>) = 0
            OBVIOUS
        <3>3. Len(s \o u) = 0
            BY <2>2, <3>2, Zenon
        <3> QED
            BY <3>1, <3>3
    <2>4. ReadRequest(s) = Err("eof")
        BY <2>3, RequestIs
    <2>5. Err("eof").err # "ok" /\ Err("eof").rest = <<>>
        BY DEF Err
    <2> QED
        BY <1>1, <2>4, <2>5, Zenon
<1>3. CASE session.kind \in OwnKinds /\ client.pc # "handshake"
    <2>1. client.pc = "response" /\ down = <<>> /\ Unread = OwnRequest
        BY <1>3 DEF AtRequest
    <2>2. session.kind \in {"connect", "bind", "associate"}
        BY <1>3 DEF OwnKinds
    <2>3. Message(WriteRequest(session.kind, session.addr), 5)
        BY <1>0, <2>2, RequestMessage
    <2>4. Empties(WriteRequest(session.kind, session.addr)) /\ <<>> \in Seq(Byte)
        BY <2>3, Nothing DEF Message
    <2>5. Unread = WriteRequest(session.kind, session.addr) \o <<>>
        BY <2>1, <2>4, Zenon DEF OwnRequest, Empties
    <2>6. Means(ReadRequest(up), [command |-> session.kind, addr |-> session.addr], <<>>, client.unsent)
        BY <1>0, <2>2, <2>4, <2>5, RequestReads
    <2>7. Asks5 = [command |-> session.kind, addr |-> session.addr] /\ Data5 = <<>>
        BY <1>3 DEF Asks5, Data5
    <2> QED
        BY <2>1, <2>6, <2>7, Zenon
<1>4. CASE session.kind \notin OwnKinds /\ Unread = TheRequest
    <2>1. Means(ReadRequest(up), [command |-> session.command, addr |-> session.addr], session.data, client.unsent)
        BY <1>0, <1>4, RequestReads DEF TheRequest
    <2>2. Asks5 = [command |-> session.command, addr |-> session.addr] /\ Data5 = session.data
        BY <1>4 DEF Asks5, Data5
    <2> QED
        BY <1>4, <2>1, <2>2, Zenon
<1>5. CASE Unread = ThePasswd \o TheRequest
    <2>1. s \o u = p
        BY <1>1, <1>5, Zenon DEF Unread
    <2>2. (s \o u)[1] # 5
        BY <1>1, <2>1 DEF Message
    <2>3. ReadRequest(s).err # "ok" /\ ReadRequest(s).rest = <<>>
        BY <2>2, WrongStart
    <2> QED
        BY <1>1, <2>3, Zenon
<1> QED
    BY <1>0, <1>2, <1>3, <1>4, <1>5 DEF AtRequest, Socks5Kinds, OwnKinds

LEMMA RefusalIs ==
    ASSUME NEW reply \in Refusals5, NEW a, WellFormed(a)
    PROVE  /\ WriteResponse(reply, a) \in Seq(Byte) /\ Empties(WriteResponse(reply, a)) /\ reply \in DOMAIN ReplyCode
           /\ reply \notin {"Succeeded", "RequestGranted"}
<1>1. reply \in Replies5 /\ reply \in DOMAIN ReplyCode /\ reply # "Succeeded"
    BY ReplyCodes, Zenon DEF Refusals5
<1>2. reply # "RequestGranted"
    BY <1>1 DEF Replies5
<1>3. WriteResponse(reply, a) \in Seq(Byte)
    BY <1>1, ResponseReads
<1>4. Empties(WriteResponse(reply, a))
    BY <1>3, Nothing
<1> QED
    BY <1>1, <1>2, <1>3, <1>4

\* A SOCKS5 client's request is refused.
LEMMA Refusing ==
    ASSUME StreamInv, handler.pc = "request", UNCHANGED <<session, client, remote>>, up' \in Seq(Byte),
           NEW reply \in Refusals5, NEW a \in {BindAddr, session.addr}, client.pc = "handshake" => a = BindAddr,
           Replies(reply), down' = down \o WriteResponse(reply, a)
    PROVE  StreamInv'
<1>0. Shapes /\ AtRequest /\ handler.replies = <<>> /\ session.kind \in Socks5Kinds
    BY DEF StreamInv, PhaseInv, Unserved, AtRequest
<1>1. WellFormed(a)
    <2>1. WellFormed(session.addr)
        BY <1>0, SessionTyped DEF Shapes
    <2>2. WellFormed(BindAddr)
        BY BindAssumption
    <2> QED
        BY <2>1, <2>2, Zenon
<1>2. PICK w \in Seq(Byte) : w = WriteResponse(reply, a) /\ Empties(w)
    BY <1>1, RefusalIs, Zenon
<1>3. reply \in DOMAIN ReplyCode /\ reply \notin {"Succeeded", "RequestGranted"}
    BY <1>1, RefusalIs
<1>4. handler' = [pc |-> "done", command |-> handler.command, addr |-> handler.addr, buf |-> handler.buf,
                  authed |-> handler.authed, replies |-> <<reply>>]
    <2>1. Append(handler.replies, reply) = <<reply>>
        BY <1>0
    <2>2. handler' = [handler EXCEPT !.pc = "done", !.replies = <<reply>>]
        BY <2>1 DEF Replies
    <2> QED
        BY <1>0, <2>2 DEF Shapes
<1>5. down' \in Seq(Byte)
    <2>1. PICK d \in Seq(Byte) : d = down
        BY <1>0 DEF Shapes
    <2>2. d \o w \in Seq(Byte)
        BY ConcatProperties
    <2> QED
        BY <1>2, <2>1, <2>2, Zenon
<1>6. Shapes'
    BY <1>0, <1>4, <1>5 DEF Shapes
<1>7. Honest'
    BY <1>3, <1>4 DEF Honest
<1>8. client.pc # "start" /\ client.pc # "result4"
    BY <1>0 DEF StreamInv, ClientInv, Socks5Kinds
<1>9. ASSUME client.pc = "handshake" PROVE AwaitsChoice'
    <2>1. down = WriteChosen(MethodNone) /\ a = BindAddr
        BY <1>0, <1>9 DEF StreamInv, ClientInv, AtRequest
    <2>2. down' = WriteChosen(MethodNone) \o WriteResponse(reply, BindAddr)
        BY <2>1, Zenon
    <2> QED
        BY <1>4, <2>2, Zenon DEF AwaitsChoice
<1>10. ASSUME client.pc = "response" PROVE AwaitsReply'
    <2>1. down = <<>>
        BY <1>0, <1>10 DEF StreamInv, ClientInv, AtRequest
    <2>2. down' = WriteResponse(reply, a)
        BY <1>2, <2>1, Zenon DEF Empties
    <2>3. down' = WriteResponse(reply, BindAddr) \/ down' = WriteResponse(reply, session'.addr)
        BY <2>2, Zenon
    <2>4. handler'.pc = "done"
        BY <1>4
    <2> QED
        BY <2>3, <2>4, Zenon DEF AwaitsReply
<1> QED
    BY <1>4, <1>6, <1>7, <1>8, <1>9, <1>10, Ending

LEMMA RequestIsOne ==
    ASSUME Request
    PROVE  LET r == ReadRequest(up)
           IN  /\ up' = r.rest /\ UNCHANGED <<session, client, remote, udp>> /\ handler.pc = "request"
               /\ \/ \E reply \in Refusals5 : r.err # "ok" /\ Replies(reply) /\ down' = down \o WriteResponse(reply, BindAddr)
                  \/ /\ r.err = "ok" /\ r.v.command = "connect" /\ down' = down
                     /\ handler' = [handler EXCEPT !.pc = "connect", !.command = "connect", !.addr = r.v.addr]
                  \/ /\ r.err = "ok" /\ r.v.command = "associate" /\ enable_udp
                     /\ handler' = [handler EXCEPT !.pc = "hold", !.command = "associate", !.replies = <<"Succeeded">>]
                     /\ down' = down \o WriteResponse("Succeeded", BindAddr)
                  \/ \E reply \in Refusals5 : r.err = "ok" /\ Replies(reply) /\ down' = down \o WriteResponse(reply, r.v.addr)
<1> DEFINE r == ReadRequest(up)
<1>1. AsReply(r.err) \in Refusals5
    BY AsReplyIs
<1>2. "CommandNotSupported" \in Refusals5
    <2>1. "CommandNotSupported" \in Replies5 /\ "CommandNotSupported" # "Succeeded"
        BY DEF Replies5
    <2> QED
        BY <2>1, ReplyCodes, Zenon DEF Refusals5
<1>3. up' = r.rest /\ UNCHANGED <<session, client, remote, udp>> /\ handler.pc = "request"
    BY Zenon DEF Request
<1>4. IF r.err # "ok" THEN Replies(AsReply(r.err)) /\ down' = down \o WriteResponse(AsReply(r.err), BindAddr)
      ELSE CASE r.v.command = "connect" /\ enable_tcp ->
                    /\ handler' = [handler EXCEPT !.pc = "connect", !.command = "connect", !.addr = r.v.addr]
                    /\ UNCHANGED down
             [] r.v.command = "associate" /\ enable_udp ->
                    /\ handler' = [handler EXCEPT !.pc = "hold", !.command = "associate", !.replies = <<"Succeeded">>]
                    /\ down' = down \o WriteResponse("Succeeded", BindAddr)
             [] OTHER -> Replies("CommandNotSupported") /\ down' = down \o WriteResponse("CommandNotSupported", r.v.addr)
    BY DEF Request
<1> HIDE DEF r
<1>5. CASE r.err # "ok"
    BY <1>1, <1>3, <1>4, <1>5 DEF r
<1>6. CASE r.err = "ok"
    BY <1>2, <1>3, <1>4, <1>6 DEF r
<1> QED
    BY <1>5, <1>6

LEMMA GrantedTyped ==
    /\ Granted5 \in Seq(Byte) /\ Granted4 \in Seq(Byte) /\ Empties(Granted5) /\ Empties(Granted4)
<1>1. Granted5 \in Seq(Byte)
    <2>1. "Succeeded" \in Replies5
        BY DEF Replies5
    <2>2. WellFormed(BindAddr)
        BY BindAssumption
    <2> QED
        BY <2>1, <2>2, ResponseReads DEF Granted5
<1>2. Granted4 \in Seq(Byte)
    BY Result4Reads DEF Granted4, Results4
<1> QED
    BY <1>1, <1>2, Nothing

\* What the handler has of the client's bytes, and what the target is to get.
LEMMA PassedIs ==
    ASSUME NEW w, Data5 \in Seq(Byte), remote'.got = <<>>, handler'.buf = <<>>, up' = w, w \o client'.unsent = Data5,
           session' = session, client'.result = "none", session.kind \in Socks5Kinds
    PROVE  Passed' = Gave'
<1>1. Empties(Data5)
    BY Nothing
<1>2. Passed' = <<>> \o (<<>> \o Data5)
    BY Zenon DEF Passed, Unread
<1>3. Passed' = Data5
    BY <1>1, <1>2, Zenon DEF Empties
<1>4. Gave' = Data5
    BY DEF Gave, Data5, RawKinds, OwnKinds, Socks5Kinds
<1> QED
    BY <1>3, <1>4

LEMMA RequestKeeps ==
    ASSUME StreamInv, Request
    PROVE  StreamInv'
<1> DEFINE r == ReadRequest(up)
<1>0. Shapes /\ AtRequest /\ handler.replies = <<>> /\ handler.buf = <<>> /\ remote.got = <<>> /\ handler.pc = "request"
      /\ UNCHANGED <<session, client, remote, udp>>
    BY RequestIsOne DEF StreamInv, PhaseInv, Unserved
<1>1. session \in Cases /\ up \in Seq(Byte) /\ client.unsent \in Seq(Byte) /\ session.kind \in Socks5Kinds /\ Authorised
      /\ WellFormed(session.addr) /\ session.data \in Seq(Byte)
    BY <1>0, SessionTyped DEF Shapes, AtRequest
<1>2. \/ Means(r, Asks5, Data5, client.unsent) /\ (session.kind \in OwnKinds => client.pc = "response" /\ down = <<>>)
      \/ r.err # "ok" /\ r.rest = <<>>
    BY <1>0, <1>1, Asked
<1>3. /\ up' = r.rest
      /\ \/ \E reply \in Refusals5 : r.err # "ok" /\ Replies(reply) /\ down' = down \o WriteResponse(reply, BindAddr)
         \/ /\ r.err = "ok" /\ r.v.command = "connect" /\ down' = down
            /\ handler' = [handler EXCEPT !.pc = "connect", !.command = "connect", !.addr = r.v.addr]
         \/ /\ r.err = "ok" /\ r.v.command = "associate" /\ enable_udp
            /\ handler' = [handler EXCEPT !.pc = "hold", !.command = "associate", !.replies = <<"Succeeded">>]
            /\ down' = down \o WriteResponse("Succeeded", BindAddr)
         \/ \E reply \in Refusals5 : r.err = "ok" /\ Replies(reply) /\ down' = down \o WriteResponse(reply, r.v.addr)
    BY RequestIsOne
<1> HIDE DEF r
<1>4. r.rest \in Seq(Byte)
    <2>1. <<>> \in Seq(Byte)
        BY Nothing
    <2> QED
        BY <1>2, <2>1 DEF Means
<1>5. up' \in Seq(Byte)
    BY <1>3, <1>4
<1>6. ASSUME r.err = "ok"
      PROVE  /\ r.v.addr = session.addr /\ r.rest \o client.unsent = Data5
             /\ session.kind \in OwnKinds => r.v.command = session.kind /\ client.pc = "response" /\ down = <<>>
    <2>1. Means(r, Asks5, Data5, client.unsent) /\ (session.kind \in OwnKinds => client.pc = "response" /\ down = <<>>)
        BY <1>2, <1>6, Zenon
    <2>2. r.v = Asks5 /\ r.rest \o client.unsent = Data5
        BY <1>6, <2>1, Zenon DEF Means
    <2>3. Asks5.addr = session.addr /\ (session.kind \in OwnKinds => Asks5.command = session.kind)
        BY DEF Asks5
    <2> QED
        BY <2>1, <2>2, <2>3, Zenon
<1>7. client.pc # "start" /\ client.pc # "result4"
      /\ (client.pc = "end" => session.kind \in RawKinds) /\ (client.pc \in {"handshake", "response"} => session.kind \in OwnKinds)
    BY <1>0, <1>1 DEF StreamInv, ClientInv, Socks5Kinds
<1>8. client.result = "none"
    BY <1>7 DEF StreamInv, ClientInv
<1>9. ASSUME NEW reply \in Refusals5, r.err # "ok", Replies(reply), down' = down \o WriteResponse(reply, BindAddr)
      PROVE  StreamInv'
    BY <1>0, <1>5, <1>9, Refusing
<1>10. ASSUME NEW reply \in Refusals5, r.err = "ok", Replies(reply), down' = down \o WriteResponse(reply, r.v.addr)
       PROVE  StreamInv'
    <2>1. r.v.addr = session.addr /\ client.pc # "handshake"
        BY <1>6, <1>7, <1>10
    <2>2. down' = down \o WriteResponse(reply, session.addr)
        BY <1>10, <2>1, Zenon
    <2> QED
        BY <1>0, <1>5, <1>10, <2>1, <2>2, Refusing
<1>11. Authorised' = Authorised /\ enable_udp' = enable_udp /\ session' = session
    BY <1>0, SessionSame
<1>12. CASE /\ r.err = "ok" /\ r.v.command = "connect" /\ down' = down
            /\ handler' = [handler EXCEPT !.pc = "connect", !.command = "connect", !.addr = r.v.addr]
    <2>1. r.v.addr = session.addr /\ r.rest \o client.unsent = Data5
          /\ (session.kind \in OwnKinds => session.kind = "connect" /\ client.pc = "response" /\ down = <<>>)
        BY <1>6, <1>12
    <2>2. handler' = [pc |-> "connect", command |-> "connect", addr |-> session.addr, buf |-> <<>>,
                      authed |-> handler.authed, replies |-> <<>>]
        BY <1>0, <1>12, <2>1 DEF Shapes
    <2>3. Shapes'
        BY <1>0, <1>5, <1>12, <2>2 DEF Shapes, Unserved
    <2>4. Data5 \in Seq(Byte)
        <3>1. <<>> \in Seq(Byte)
            BY Nothing
        <3> QED
            BY <1>1, <3>1 DEF Data5
    <2>5. Passed' = Gave'
        BY <1>0, <1>1, <1>3, <1>8, <2>1, <2>2, <2>4, PassedIs
    <2>6. AtConnect'
        <3>1. session.kind \in RawKinds \/ (session.kind = "connect" /\ client.pc = "response" /\ down = <<>>)
            BY <1>1, <2>1 DEF RawKinds, OwnKinds, Socks5Kinds
        <3>2. AtTarget'
            BY <1>0, <2>2, <2>5, <3>1 DEF AtTarget, RawKinds
        <3> QED
            BY <1>0, <1>1, <1>8, <1>12, <2>2, <3>1, <3>2 DEF AtConnect, RawKinds, Socks5Kinds
    <2>7. PhaseInv'
        BY <1>0, <2>2, <2>6 DEF PhaseInv, Unserved
    <2>8. SaidInv'
        BY <1>0, <1>1, <1>11, <2>2 DEF StreamInv, SaidInv, Honest
    <2>9. client.pc = "response" => AwaitsReply'
        BY <1>7, <1>12, <2>1, <2>2 DEF AwaitsReply
    <2>10. client.pc # "handshake"
        BY <1>7, <2>1
    <2> QED
        BY <1>0, <1>7, <2>3, <2>7, <2>8, <2>9, <2>10, Serving
<1>13. CASE /\ r.err = "ok" /\ r.v.command = "associate" /\ enable_udp
            /\ handler' = [handler EXCEPT !.pc = "hold", !.command = "associate", !.replies = <<"Succeeded">>]
            /\ down' = down \o WriteResponse("Succeeded", BindAddr)
    <2>1. session.kind \in OwnKinds => session.kind = "associate" /\ client.pc = "response" /\ down = <<>>
        BY <1>6, <1>13
    <2>2. handler' = [pc |-> "hold", command |-> "associate", addr |-> handler.addr, buf |-> handler.buf,
                      authed |-> handler.authed, replies |-> <<"Succeeded">>]
        BY <1>0, <1>13 DEF Shapes
    <2>3. down' \in Seq(Byte) /\ (session.kind \in OwnKinds => down' = Granted5)
        <3>1. PICK w \in Seq(Byte) : w = Granted5 /\ Empties(w)
            BY GrantedTyped, Zenon
        <3>2. PICK d \in Seq(Byte) : d = down
            BY <1>0 DEF Shapes
        <3>3. d \o w \in Seq(Byte)
            BY ConcatProperties
        <3>4. down' = d \o w
            BY <1>13, <3>1, <3>2, Zenon DEF Granted5
        <3>5. session.kind \in OwnKinds => down' = Granted5
            BY <2>1, <3>1, <3>2, <3>4, Zenon DEF Empties
        <3> QED
            BY <3>3, <3>4, <3>5, Zenon
    <2>4. Shapes'
        BY <1>0, <1>5, <2>2, <2>3 DEF Shapes
    <2>5. PhaseInv'
        BY <2>2 DEF PhaseInv, Unserved
    <2>6. Honest'
        <3>1. "Succeeded" \in DOMAIN ReplyCode
            BY ReplyCodes DEF Replies5
        <3> QED
            BY <2>2, <3>1 DEF Honest
    <2>7. SaidInv'
        BY <1>0, <1>1, <1>11, <2>6, <2>2 DEF StreamInv, SaidInv
    <2>8. client.pc = "response" => AwaitsReply'
        BY <1>7, <1>11, <1>13, <2>1, <2>2, <2>3 DEF AwaitsReply
    <2>9. client.pc # "handshake"
        BY <1>7, <2>1
    <2> QED
        BY <1>0, <1>7, <2>2, <2>4, <2>5, <2>7, <2>8, <2>9, Serving
<1> QED
    BY <1>3, <1>9, <1>10, <1>12, <1>13, Zenon

Asks4 == [command |-> IF session.kind = "socks4" THEN "connect" ELSE session.command, addr |-> session.addr, user |-> session.user]
Data4 == IF session.kind = "socks4" THEN <<>> ELSE session.data

LEMMA Asked4 ==
    ASSUME session \in Cases, session.kind \in Socks4Kinds, up \in Seq(Byte), client.unsent \in Seq(Byte), Unread = Opening
    PROVE  Means(ReadRequest4(up), Asks4, Data4, client.unsent) /\ Data4 \in Seq(Byte)
<1>1. PICK s \in Seq(Byte), u \in Seq(Byte) : s = up /\ u = client.unsent
    OBVIOUS
<1>2. Named4(session.addr, session.user) /\ session.command \in {"connect", "bind"} /\ session.data \in Seq(Byte)
    BY SessionTyped
<1>3. PICK c \in {"connect", "bind"} : c = IF session.kind = "socks4" THEN "connect" ELSE session.command
    BY <1>2
<1>4. PICK t \in Seq(Byte) : t = Data4
    <2>1. <<>> \in Seq(Byte)
        BY Nothing
    <2> QED
        BY <1>2, <2>1 DEF Data4
<1>5. s \o u = WriteRequest4(c, session.addr, session.user) \o t
    <2>1. CASE session.kind = "socks4"
        <3>1. Opening = WriteRequest4(c, session.addr, session.user) /\ t = <<>>
            BY <1>3, <1>4, <2>1 DEF Opening, Data4, OwnKinds
        <3>2. WriteRequest4(c, session.addr, session.user) \in Seq(Byte)
            BY <1>2, Request4Message DEF Message
        <3>3. Empties(WriteRequest4(c, session.addr, session.user))
            BY <3>2, Nothing
        <3> QED
            BY <1>1, <3>1, <3>3, Zenon DEF Empties, Unread
    <2>2. CASE session.kind = "raw4"
        <3>1. Opening = WriteRequest4(c, session.addr, session.user) \o t
            BY <1>3, <1>4, <2>2 DEF Opening, Data4, OwnKinds
        <3> QED
            BY <1>1, <3>1, Zenon DEF Unread
    <2> QED
        BY <2>1, <2>2 DEF Socks4Kinds
<1>6. Means(ReadRequest4(s), [command |-> c, addr |-> session.addr, user |-> session.user], t, u)
    BY <1>2, <1>5, Request4Means
<1> QED
    BY <1>1, <1>3, <1>4, <1>6, Zenon DEF Asks4

\* The reader's part of what followed, and the rest.
LEMMA Divided ==
    ASSUME NEW w \in Seq(Byte), NEW n \in 0 .. Len(w), NEW u, u \in Seq(Byte), NEW x, x \in Seq(Byte), w \o u = x,
           remote'.got = <<>>, handler'.buf = SubSeq(w, 1, n), up' = SubSeq(w, n + 1, Len(w)), client'.unsent = u
    PROVE  Passed' = x
<1>1. PICK a \in Seq(Byte), b \in Seq(Byte), v \in Seq(Byte) : a = First(w, n) /\ b = Behind(w, n) /\ a \o b = w /\ v = u
    <2>1. First(w, n) \in Seq(Byte) /\ Behind(w, n) \in Seq(Byte) /\ First(w, n) \o Behind(w, n) = w
        BY Parts
    <2> QED
        BY <2>1, Zenon
<1>2. Then2(a, b, v)
    BY Joining
<1>3. a \o (b \o v) = x
    BY <1>1, <1>2, Zenon DEF Then2
<1>4. Empties(x)
    BY Nothing
<1>5. Passed' = <<>> \o (a \o (b \o v))
    BY <1>1, Zenon DEF Passed, Unread, First, Behind
<1> QED
    BY <1>3, <1>4, <1>5, Zenon DEF Empties

LEMMA Request4Keeps ==
    ASSUME StreamInv, Request4
    PROVE  StreamInv'
<1> DEFINE r == ReadRequest4(up)
<1>0. Shapes /\ handler.replies = <<>> /\ remote.got = <<>> /\ handler.pc = "request4" /\ UNCHANGED <<session, client, remote>>
      /\ session.kind \in Socks4Kinds /\ client.pc # "start" /\ Unread = Opening /\ client.pc = FirstPc /\ down = <<>>
    BY DEF StreamInv, PhaseInv, Unserved, Request4, AtOpening
<1>1. session \in Cases /\ up \in Seq(Byte) /\ client.unsent \in Seq(Byte)
    BY <1>0 DEF Shapes
<1>2. Means(r, Asks4, Data4, client.unsent) /\ Data4 \in Seq(Byte)
    BY <1>0, <1>1, Asked4
<1>3. PICK n \in 0 .. Len(r.rest) :
          /\ up' = SubSeq(r.rest, n + 1, Len(r.rest))
          /\ IF r.err # "ok" THEN Moves("done") /\ UNCHANGED down
             ELSE IF r.v.command = "connect" /\ enable_tcp
             THEN /\ handler' = [handler EXCEPT !.pc = "connect4", !.command = "connect", !.addr = r.v.addr,
                                                !.buf = SubSeq(r.rest, 1, n)]
                  /\ UNCHANGED down
             ELSE Replies("RequestRejectedOrFailed") /\ down' = down \o WriteResult4("RequestRejectedOrFailed")
    BY Zenon DEF Request4
<1> HIDE DEF r
<1>4. PICK w \in Seq(Byte) : w = r.rest
    BY <1>2, Zenon DEF Means
<1>5. n \in 0 .. Len(w) /\ up' = SubSeq(w, n + 1, Len(w))
    BY <1>3, <1>4, Zenon
<1>6. up' \in Seq(Byte) /\ SubSeq(w, 1, n) \in Seq(Byte)
    BY <1>5, Parts DEF First, Behind
<1>7. client.pc \in {"result4", "end"} /\ (client.pc = "end" => session.kind \in RawKinds) /\ (client.pc = "result4" => session.kind = "socks4")
    BY <1>0 DEF FirstPc, Socks4Kinds, RawKinds, OwnKinds
<1>8. CASE r.err # "ok"
    <2>1. Went("done") /\ down' = down
        BY <1>0, <1>3, <1>8, Moving
    <2>2. Shapes'
        BY <1>0, <1>6, <2>1 DEF Shapes, Went
    <2> QED
        BY <1>0, <2>1, <2>2, EndingQuietly DEF Went
<1>9. CASE Replies("RequestRejectedOrFailed") /\ down' = down \o WriteResult4("RequestRejectedOrFailed")
    <2>0. "RequestRejectedOrFailed" \in Refusals4 /\ "RequestRejectedOrFailed" \in Results4
        <3>1. "RequestRejectedOrFailed" \in Results4 /\ "RequestRejectedOrFailed" # "RequestGranted"
            BY DEF Results4
        <3> QED
            BY <3>1, ResultCodes, Zenon DEF Refusals4
    <2>1. handler' = [pc |-> "done", command |-> handler.command, addr |-> handler.addr, buf |-> handler.buf,
                      authed |-> handler.authed, replies |-> <<"RequestRejectedOrFailed">>]
        <3>1. Append(handler.replies, "RequestRejectedOrFailed") = <<"RequestRejectedOrFailed">>
            BY <1>0
        <3>2. handler' = [handler EXCEPT !.pc = "done", !.replies = <<"RequestRejectedOrFailed">>]
            BY <1>9, <3>1 DEF Replies
        <3> QED
            BY <1>0, <3>2 DEF Shapes
    <2>2. down' = WriteResult4("RequestRejectedOrFailed") /\ down' \in Seq(Byte)
        <3>1. WriteResult4("RequestRejectedOrFailed") \in Seq(Byte)
            BY <2>0, Result4Reads
        <3>2. Empties(WriteResult4("RequestRejectedOrFailed"))
            BY <3>1, Nothing
        <3> QED
            BY <1>0, <1>9, <3>1, <3>2, Zenon DEF Empties
    <2>3. Shapes'
        BY <1>0, <1>6, <2>1, <2>2 DEF Shapes
    <2>4. Honest'
        <3>1. "RequestRejectedOrFailed" \in DOMAIN ResultCode
            BY <2>0, ResultCodes, Zenon
        <3> QED
            BY <2>1, <3>1 DEF Honest
    <2>5. AwaitsResult'
        BY <2>0, <2>1, <2>2 DEF AwaitsResult
    <2> QED
        BY <1>0, <1>7, <2>1, <2>3, <2>4, <2>5, Ending
<1>10. CASE /\ r.err = "ok" /\ r.v.command = "connect" /\ down' = down
            /\ handler' = [handler EXCEPT !.pc = "connect4", !.command = "connect", !.addr = r.v.addr,
                                          !.buf = SubSeq(r.rest, 1, n)]
    <2>1. r.v = Asks4 /\ w \o client.unsent = Data4
        BY <1>2, <1>4, <1>10, Zenon DEF Means
    <2>2. r.v.addr = session.addr
        BY <2>1 DEF Asks4
    <2>3. handler' = [pc |-> "connect4", command |-> "connect", addr |-> session.addr, buf |-> SubSeq(w, 1, n),
                      authed |-> handler.authed, replies |-> <<>>]
        BY <1>0, <1>4, <1>10, <2>2 DEF Shapes
    <2>4. Shapes'
        <3>1. PICK b \in Seq(Byte) : b = SubSeq(w, 1, n)
            BY <1>6
        <3>2. handler' = [pc |-> "connect4", command |-> "connect", addr |-> session.addr, buf |-> b,
                          authed |-> handler.authed, replies |-> <<>>]
            BY <2>3, <3>1, Zenon
        <3>3. up' \in Seq(Byte) /\ down' = down /\ UNCHANGED <<session, client, remote>> /\ Shapes
            BY <1>0, <1>6, <1>10
        <3> QED
            BY <3>1, <3>2, <3>3 DEF Shapes, Unserved
    <2>5. client.result = "none"
        BY <1>7 DEF StreamInv, ClientInv
    <2>6. Passed' = Data4
        <3>1. remote'.got = <<>> /\ handler'.buf = SubSeq(w, 1, n) /\ client'.unsent = client.unsent
            BY <1>0, <2>3
        <3> QED
            BY <1>1, <1>2, <1>5, <2>1, <3>1, Divided
    <2>7. Gave' = Data4
        BY <1>0, <2>5 DEF Gave, Data4, RawKinds, Socks4Kinds
    <2>8. AtTarget'
        BY <1>0, <2>3, <2>6, <2>7 DEF AtTarget, Socks4Kinds
    <2>9. AtConnect'
        BY <1>0, <1>7, <1>10, <2>3, <2>5, <2>8 DEF AtConnect, Socks4Kinds, RawKinds
    <2>10. PhaseInv'
        BY <1>0, <2>3, <2>9 DEF PhaseInv, Unserved
    <2>11. enable_udp' = enable_udp
        BY <1>0, SessionSame
    <2>12. SaidInv'
        BY <1>0, <2>3, <2>11 DEF StreamInv, SaidInv, Honest, Socks4Kinds, Socks5Kinds
    <2>13. client.pc = "result4" => AwaitsResult'
        BY <1>0, <1>10, <2>3 DEF AwaitsResult
    <2> QED
        BY <1>0, <1>7, <2>4, <2>10, <2>12, <2>13, Serving
<1> QED
    BY <1>3, <1>8, <1>9, <1>10, Zenon

LEMMA BothBytes ==
    ASSUME NEW d, d \in Seq(Byte), NEW w, w \in Seq(Byte)
    PROVE  d \o w \in Seq(Byte)
BY ConcatProperties

LEMMA ConnectIsOne ==
    ASSUME Shapes, NEW outcome, Connect(outcome), handler.replies = <<>>
    PROVE  /\ UNCHANGED <<session, client, up, udp>>
           /\ \/ /\ down' = down \o Granted5
                 /\ remote' = [state |-> "connected", addr |-> handler.addr, got |-> remote.got]
                 /\ handler' = [pc |-> "tunnel", command |-> handler.command, addr |-> handler.addr, buf |-> handler.buf,
                                authed |-> handler.authed, replies |-> <<"Succeeded">>]
              \/ \E reply \in Refusals5 :
                    /\ down' = down \o WriteResponse(reply, BindAddr) /\ remote' = remote
                    /\ handler' = [pc |-> "done", command |-> handler.command, addr |-> handler.addr, buf |-> handler.buf,
                                   authed |-> handler.authed, replies |-> <<reply>>]
<1> DEFINE reply == CASE outcome = "ok" -> "Succeeded"
                      [] outcome = "refused" -> "ConnectionRefused"
                      [] outcome = "aborted" -> "HostUnreachable"
                      [] OTHER -> "NetworkUnreachable"
<1>1. /\ down' = down \o WriteResponse(reply, BindAddr) /\ UNCHANGED <<session, client, up, udp>>
      /\ IF outcome = "ok"
         THEN TargetConnected /\ handler' = [handler EXCEPT !.pc = "tunnel", !.replies = <<reply>>]
         ELSE Replies(reply) /\ UNCHANGED remote
    BY Zenon DEF Connect
<1>2. CASE outcome = "ok"
    <2>1. reply = "Succeeded"
        BY <1>2
    <2> HIDE DEF reply
    <2>2. down' = down \o Granted5
        BY <1>1, <2>1, Zenon DEF Granted5
    <2>3. remote' = [state |-> "connected", addr |-> handler.addr, got |-> remote.got]
        BY <1>1, <1>2 DEF TargetConnected, Shapes
    <2>4. handler' = [pc |-> "tunnel", command |-> handler.command, addr |-> handler.addr, buf |-> handler.buf,
                      authed |-> handler.authed, replies |-> <<"Succeeded">>]
        BY <1>1, <1>2, <2>1 DEF Shapes
    <2> QED
        BY <1>1, <2>2, <2>3, <2>4, Zenon
<1>3. CASE outcome # "ok"
    <2>1. reply \in {"ConnectionRefused", "HostUnreachable", "NetworkUnreachable"}
        BY <1>3
    <2> HIDE DEF reply
    <2>2. reply \in Refusals5
        <3>1. reply \in Replies5 /\ reply # "Succeeded"
            BY <2>1 DEF Replies5
        <3> QED
            BY <3>1, ReplyCodes, Zenon DEF Refusals5
    <2>3. Append(handler.replies, reply) = <<reply>>
        OBVIOUS
    <2>4. handler' = [pc |-> "done", command |-> handler.command, addr |-> handler.addr, buf |-> handler.buf,
                      authed |-> handler.authed, replies |-> <<reply>>]
        BY <1>1, <1>3, <2>3 DEF Replies, Shapes
    <2> QED
        BY <1>1, <1>3, <2>2, <2>4, Zenon
<1> QED
    BY <1>2, <1>3

LEMMA ConnectKeeps ==
    ASSUME StreamInv, NEW outcome, Connect(outcome)
    PROVE  StreamInv'
<1>0. Shapes /\ AtConnect /\ AtTarget /\ handler.pc = "connect" /\ handler.replies = <<>> /\ remote.got = <<>>
      /\ handler.buf = <<>> /\ session.kind \in Socks5Kinds
    BY DEF StreamInv, PhaseInv, Unserved, AtConnect, Connect
<1>1. /\ UNCHANGED <<session, client, up, udp>>
      /\ \/ /\ down' = down \o Granted5
            /\ remote' = [state |-> "connected", addr |-> handler.addr, got |-> remote.got]
            /\ handler' = [pc |-> "tunnel", command |-> handler.command, addr |-> handler.addr, buf |-> handler.buf,
                           authed |-> handler.authed, replies |-> <<"Succeeded">>]
         \/ \E reply \in Refusals5 :
               /\ down' = down \o WriteResponse(reply, BindAddr) /\ remote' = remote
               /\ handler' = [pc |-> "done", command |-> handler.command, addr |-> handler.addr, buf |-> handler.buf,
                              authed |-> handler.authed, replies |-> <<reply>>]
    BY <1>0, ConnectIsOne
<1>2. client.pc \in {"response", "end"} /\ (client.pc = "end" => session.kind \in RawKinds)
      /\ (client.pc = "response" => session.kind = "connect" /\ down = <<>>)
    <2>1. client.pc \in {"start", "handshake", "response", "result4", "end"}
        BY <1>0 DEF Shapes
    <2>2. client.pc # "start" /\ client.pc # "result4" /\ client.pc # "handshake"
        BY <1>0 DEF StreamInv, ClientInv, AwaitsChoice, Socks5Kinds
    <2>3. client.pc = "end" => session.kind \in RawKinds
        BY <1>0 DEF StreamInv, ClientInv
    <2>4. client.pc = "response" => session.kind = "connect" /\ down = <<>>
        BY <1>0 DEF StreamInv, ClientInv, OwnKinds, AtTarget, AtConnect, RawKinds
    <2> QED
        BY <2>1, <2>2, <2>3, <2>4
<1>3. enable_udp' = enable_udp /\ Authorised' = Authorised
    BY <1>1, SessionSame
<1>4. Unread' = Unread /\ down \in Seq(Byte)
    BY <1>0, <1>1 DEF Unread, Shapes
<1>5. CASE /\ down' = down \o Granted5
           /\ remote' = [state |-> "connected", addr |-> handler.addr, got |-> remote.got]
           /\ handler' = [pc |-> "tunnel", command |-> handler.command, addr |-> handler.addr, buf |-> handler.buf,
                          authed |-> handler.authed, replies |-> <<"Succeeded">>]
    <2>1. down' \in Seq(Byte) /\ (down = <<>> => down' = Granted5)
        <3>1. down \o Granted5 \in Seq(Byte)
            BY <1>4, GrantedTyped, BothBytes
        <3>2. Empties(Granted5)
            BY GrantedTyped
        <3> QED
            BY <1>5, <3>1, <3>2, Zenon DEF Empties
    <2>2. Shapes'
        BY <1>0, <1>1, <1>5, <2>1 DEF Shapes
    <2>3. Passed' = Passed /\ Gave' = Gave
        BY <1>1, <1>4, <1>5 DEF Passed, Gave
    <2>4. AtTunnel'
        BY <1>0, <1>1, <1>5, <2>3 DEF AtTunnel, AtTarget
    <2>5. PhaseInv'
        BY <1>5, <2>4 DEF PhaseInv, Unserved
    <2>6. Honest'
        <3>1. "Succeeded" \in DOMAIN ReplyCode
            BY ReplyCodes DEF Replies5
        <3> QED
            BY <1>5, <3>1 DEF Honest
    <2>7. SaidInv'
        BY <1>0, <1>1, <1>3, <1>5, <2>6 DEF StreamInv, SaidInv, AtTarget
    <2>8. client.pc = "response" => AwaitsReply'
        BY <1>1, <1>2, <1>5, <2>1 DEF AwaitsReply
    <2> QED
        BY <1>1, <1>2, <2>2, <2>5, <2>7, <2>8, Serving
<1>6. ASSUME NEW reply \in Refusals5, down' = down \o WriteResponse(reply, BindAddr), remote' = remote,
             handler' = [pc |-> "done", command |-> handler.command, addr |-> handler.addr, buf |-> handler.buf,
                         authed |-> handler.authed, replies |-> <<reply>>]
      PROVE  StreamInv'
    <2>1. PICK w \in Seq(Byte) : w = WriteResponse(reply, BindAddr) /\ Empties(w)
        BY BindAssumption, RefusalIs, Zenon
    <2>2. reply \in DOMAIN ReplyCode /\ reply \notin {"Succeeded", "RequestGranted"}
        BY BindAssumption, RefusalIs
    <2>3. down' \in Seq(Byte) /\ (down = <<>> => down' = WriteResponse(reply, BindAddr))
        <3>1. down \o w \in Seq(Byte)
            BY <1>4, BothBytes
        <3> QED
            BY <1>6, <2>1, <3>1, Zenon DEF Empties
    <2>4. Shapes'
        BY <1>0, <1>1, <1>6, <2>3 DEF Shapes
    <2>5. Honest'
        BY <1>6, <2>2 DEF Honest
    <2>6. client.pc = "response" => AwaitsReply'
        BY <1>2, <1>6, <2>3 DEF AwaitsReply
    <2> QED
        BY <1>1, <1>2, <1>6, <2>4, <2>5, <2>6, Ending
<1> QED
    BY <1>1, <1>5, <1>6, Zenon

LEMMA Connect4IsOne ==
    ASSUME Shapes, NEW outcome, Connect4(outcome), handler.replies = <<>>
    PROVE  /\ UNCHANGED <<session, client, up, udp>>
           /\ \/ /\ down' = down \o Granted4
                 /\ remote' = [state |-> "connected", addr |-> handler.addr, got |-> handler.buf]
                 /\ handler' = [pc |-> "tunnel", command |-> handler.command, addr |-> handler.addr, buf |-> <<>>,
                                authed |-> handler.authed, replies |-> <<"RequestGranted">>]
              \/ \E result \in Refusals4 :
                    /\ down' = down \o WriteResult4(result) /\ remote' = remote
                    /\ handler' = [pc |-> "done", command |-> handler.command, addr |-> handler.addr, buf |-> handler.buf,
                                   authed |-> handler.authed, replies |-> <<result>>]
<1> DEFINE result == CASE outcome = "ok" -> "RequestGranted"
                       [] outcome \in {"refused", "aborted"} -> "RequestRejectedCannotConnect"
                       [] OTHER -> "RequestRejectedOrFailed"
<1>1. /\ down' = down \o WriteResult4(result) /\ UNCHANGED <<session, client, up, udp>>
      /\ IF outcome = "ok"
         THEN /\ remote' = [state |-> "connected", addr |-> handler.addr, got |-> handler.buf]
              /\ handler' = [handler EXCEPT !.pc = "tunnel", !.replies = <<result>>, !.buf = <<>>]
         ELSE Replies(result) /\ UNCHANGED remote
    BY Zenon DEF Connect4
<1>2. CASE outcome = "ok"
    <2>1. result = "RequestGranted"
        BY <1>2
    <2> HIDE DEF result
    <2>2. down' = down \o Granted4
        BY <1>1, <2>1, Zenon DEF Granted4
    <2>3. handler' = [pc |-> "tunnel", command |-> handler.command, addr |-> handler.addr, buf |-> <<>>,
                      authed |-> handler.authed, replies |-> <<"RequestGranted">>]
        BY <1>1, <1>2, <2>1 DEF Shapes
    <2> QED
        BY <1>1, <1>2, <2>2, <2>3, Zenon
<1>3. CASE outcome # "ok"
    <2>1. result \in {"RequestRejectedCannotConnect", "RequestRejectedOrFailed"}
        BY <1>3
    <2> HIDE DEF result
    <2>2. result \in Refusals4
        <3>1. result \in Results4 /\ result # "RequestGranted"
            BY <2>1 DEF Results4
        <3> QED
            BY <3>1, ResultCodes, Zenon DEF Refusals4
    <2>3. Append(handler.replies, result) = <<result>>
        OBVIOUS
    <2>4. handler' = [pc |-> "done", command |-> handler.command, addr |-> handler.addr, buf |-> handler.buf,
                      authed |-> handler.authed, replies |-> <<result>>]
        BY <1>1, <1>3, <2>3 DEF Replies, Shapes
    <2> QED
        BY <1>1, <1>3, <2>2, <2>4, Zenon
<1> QED
    BY <1>2, <1>3

LEMMA Refusal4Is ==
    ASSUME NEW result \in Refusals4
    PROVE  /\ WriteResult4(result) \in Seq(Byte) /\ Empties(WriteResult4(result)) /\ result \in DOMAIN ResultCode
           /\ result \notin {"Succeeded", "RequestGranted"} /\ result \in Results4
<1>1. result \in Results4 /\ result \in DOMAIN ResultCode /\ result # "RequestGranted"
    BY ResultCodes, Zenon DEF Refusals4
<1>2. result # "Succeeded"
    BY <1>1 DEF Results4
<1>3. WriteResult4(result) \in Seq(Byte)
    BY <1>1, Result4Reads
<1>4. Empties(WriteResult4(result))
    BY <1>3, Nothing
<1> QED
    BY <1>1, <1>2, <1>3, <1>4

LEMMA Connect4Keeps ==
    ASSUME StreamInv, NEW outcome, Connect4(outcome)
    PROVE  StreamInv'
<1>0. Shapes /\ AtConnect /\ AtTarget /\ handler.pc = "connect4" /\ handler.replies = <<>> /\ remote.got = <<>>
      /\ session.kind \in Socks4Kinds
    BY DEF StreamInv, PhaseInv, Unserved, AtConnect, Connect4
<1>1. /\ UNCHANGED <<session, client, up, udp>>
      /\ \/ /\ down' = down \o Granted4
            /\ remote' = [state |-> "connected", addr |-> handler.addr, got |-> handler.buf]
            /\ handler' = [pc |-> "tunnel", command |-> handler.command, addr |-> handler.addr, buf |-> <<>>,
                           authed |-> handler.authed, replies |-> <<"RequestGranted">>]
         \/ \E result \in Refusals4 :
               /\ down' = down \o WriteResult4(result) /\ remote' = remote
               /\ handler' = [pc |-> "done", command |-> handler.command, addr |-> handler.addr, buf |-> handler.buf,
                              authed |-> handler.authed, replies |-> <<result>>]
    BY <1>0, Connect4IsOne
<1>2. client.pc \in {"result4", "end"} /\ (client.pc = "end" => session.kind \in RawKinds)
      /\ (client.pc = "result4" => session.kind = "socks4" /\ down = <<>>)
    <2>1. client.pc \in {"start", "handshake", "response", "result4", "end"}
        BY <1>0 DEF Shapes
    <2>2. client.pc # "start" /\ client.pc # "response" /\ client.pc # "handshake"
        BY <1>0 DEF StreamInv, ClientInv, OwnKinds, Socks4Kinds
    <2>3. client.pc = "end" => session.kind \in RawKinds
        BY <1>0 DEF StreamInv, ClientInv
    <2>4. client.pc = "result4" => session.kind = "socks4" /\ down = <<>>
        BY <1>0 DEF StreamInv, ClientInv, AtConnect, RawKinds
    <2> QED
        BY <2>1, <2>2, <2>3, <2>4
<1>3. enable_udp' = enable_udp /\ Authorised' = Authorised
    BY <1>1, SessionSame
<1>4. Unread' = Unread /\ down \in Seq(Byte)
    BY <1>0, <1>1 DEF Unread, Shapes
<1>5. CASE /\ down' = down \o Granted4
           /\ remote' = [state |-> "connected", addr |-> handler.addr, got |-> handler.buf]
           /\ handler' = [pc |-> "tunnel", command |-> handler.command, addr |-> handler.addr, buf |-> <<>>,
                          authed |-> handler.authed, replies |-> <<"RequestGranted">>]
    <2>1. down' \in Seq(Byte) /\ (down = <<>> => down' = Granted4)
        <3>1. down \o Granted4 \in Seq(Byte)
            BY <1>4, GrantedTyped, BothBytes
        <3>2. Empties(Granted4)
            BY GrantedTyped
        <3> QED
            BY <1>5, <3>1, <3>2, Zenon DEF Empties
    <2>2. Shapes'
        <3>1. <<>> \in Seq(Byte)
            BY Nothing
        <3> QED
            BY <1>0, <1>1, <1>5, <2>1, <3>1 DEF Shapes
    <2>3. Passed' = Passed /\ Gave' = Gave
        <3>1. PICK b \in Seq(Byte), n \in Seq(Byte) : b = handler.buf /\ n = Unread
            <4>1. up \in Seq(Byte) /\ client.unsent \in Seq(Byte) /\ handler.buf \in Seq(Byte)
                BY <1>0 DEF Shapes
            <4>2. up \o client.unsent \in Seq(Byte)
                BY <4>1, BothBytes
            <4> QED
                BY <4>1, <4>2 DEF Unread
        <3>2. b \o n \in Seq(Byte)
            BY BothBytes
        <3>3. Empties(b \o n) /\ Empties(n)
            BY <3>2, Nothing
        <3>4. Passed = <<>> \o (b \o n)
            BY <1>0, <3>1, Zenon DEF Passed
        <3>5. remote'.got = b /\ handler'.buf = <<>> /\ Unread' = n
            BY <1>4, <1>5, <3>1
        <3>6. Passed' = b \o (<<>> \o n)
            BY <3>5, Zenon DEF Passed
        <3>7. Passed' = Passed
            BY <3>3, <3>4, <3>6, Zenon DEF Empties
        <3> QED
            BY <1>1, <3>7 DEF Gave
    <2>4. AtTunnel'
        BY <1>0, <1>1, <1>5, <2>3 DEF AtTunnel, AtTarget
    <2>5. PhaseInv'
        BY <1>5, <2>4 DEF PhaseInv, Unserved
    <2>6. Honest'
        <3>1. "RequestGranted" \in DOMAIN ResultCode
            BY ResultCodes DEF Results4
        <3> QED
            BY <1>5, <3>1 DEF Honest
    <2>7. SaidInv'
        BY <1>0, <1>1, <1>3, <1>5, <2>6 DEF StreamInv, SaidInv, AtTarget
    <2>8. client.pc = "result4" => AwaitsResult'
        BY <1>1, <1>2, <1>5, <2>1 DEF AwaitsResult
    <2> QED
        BY <1>1, <1>2, <2>2, <2>5, <2>7, <2>8, Serving
<1>6. ASSUME NEW result \in Refusals4, down' = down \o WriteResult4(result), remote' = remote,
             handler' = [pc |-> "done", command |-> handler.command, addr |-> handler.addr, buf |-> handler.buf,
                         authed |-> handler.authed, replies |-> <<result>>]
      PROVE  StreamInv'
    <2>1. PICK w \in Seq(Byte) : w = WriteResult4(result) /\ Empties(w)
        BY Refusal4Is, Zenon
    <2>2. result \in DOMAIN ResultCode /\ result \notin {"Succeeded", "RequestGranted"}
        BY Refusal4Is
    <2>3. down' \in Seq(Byte) /\ (down = <<>> => down' = WriteResult4(result))
        <3>1. down \o w \in Seq(Byte)
            BY <1>4, BothBytes
        <3> QED
            BY <1>6, <2>1, <3>1, Zenon DEF Empties
    <2>4. Shapes'
        BY <1>0, <1>1, <1>6, <2>3 DEF Shapes
    <2>5. Honest'
        BY <1>6, <2>2 DEF Honest
    <2>6. client.pc = "result4" => AwaitsResult'
        BY <1>2, <1>6, <2>3 DEF AwaitsResult
    <2> QED
        BY <1>1, <1>2, <1>6, <2>4, <2>5, <2>6, Ending
<1> QED
    BY <1>1, <1>5, <1>6, Zenon

LEMMA TunnelKeeps ==
    ASSUME StreamInv, Tunnel
    PROVE  StreamInv'
<1>0. Shapes /\ AtTunnel /\ AtTarget /\ handler.pc = "tunnel" /\ UNCHANGED <<session, client, down, handler>>
      /\ remote' = [remote EXCEPT !.got = @ \o up] /\ up' = <<>> /\ handler.buf = <<>>
    BY DEF StreamInv, PhaseInv, AtTunnel, Tunnel
<1>1. PICK g \in Seq(Byte), s \in Seq(Byte), u \in Seq(Byte) : g = remote.got /\ s = up /\ u = client.unsent
    BY <1>0 DEF Shapes
<1>2. Then2(g, s, u)
    BY Joining
<1>3. PICK w \in Seq(Byte) : w = g \o s
    BY BothBytes
<1>4. remote' = [state |-> remote.state, addr |-> remote.addr, got |-> w]
    BY <1>0, <1>1, <1>3 DEF Shapes
<1>5. Shapes'
    <2>1. <<>> \in Seq(Byte)
        BY Nothing
    <2>2. Shapes /\ UNCHANGED <<session, client, down, handler>> /\ up' \in Seq(Byte)
        BY <1>0, <2>1
    <2> QED
        BY <1>3, <1>4, <2>2 DEF Shapes
<1>6. Passed' = Passed
    <2>1. PICK su \in Seq(Byte) : su = s \o u
        BY BothBytes
    <2>2. Empties(u) /\ Empties(su)
        BY Nothing
    <2>3. Passed = g \o (<<>> \o (s \o u))
        BY <1>0, <1>1, Zenon DEF Passed, Unread
    <2>4. remote'.got = w /\ handler'.buf = <<>> /\ client'.unsent = u
        BY <1>0, <1>1, <1>4
    <2>5. Passed' = w \o (<<>> \o (<<>> \o u))
        BY <1>0, <2>4, Zenon DEF Passed, Unread
    <2> QED
        BY <1>2, <1>3, <2>1, <2>2, <2>3, <2>5, Zenon DEF Empties, Then2
<1>7. Gave' = Gave /\ enable_udp' = enable_udp /\ Authorised' = Authorised
    BY <1>0, SessionSame DEF Gave
<1>8. AtTunnel'
    BY <1>0, <1>4, <1>6, <1>7 DEF AtTunnel, AtTarget
<1>9. PhaseInv'
    BY <1>0, <1>8 DEF PhaseInv, Unserved
<1>10. SaidInv'
    BY <1>0, <1>4, <1>7 DEF StreamInv, SaidInv, Honest
<1>11. client.pc # "start" /\ client.pc # "handshake"
    BY <1>0 DEF StreamInv, ClientInv, AwaitsChoice
<1>12. client.pc = "response" => AwaitsReply'
    BY <1>0, <1>4, <1>7 DEF StreamInv, ClientInv, AwaitsReply
<1>13. client.pc = "result4" => AwaitsResult'
    BY <1>0, <1>4 DEF StreamInv, ClientInv, AwaitsResult
<1>14. client.pc = "end" /\ session.kind \notin RawKinds => client.result = "connected"
    BY <1>0 DEF StreamInv, ClientInv
<1> QED
    BY <1>0, <1>5, <1>9, <1>10, <1>11, <1>12, <1>13, <1>14, Serving

LEMMA BothEmpty ==
    ASSUME NEW s, s \in Seq(Byte), NEW u, u \in Seq(Byte), s \o u = <<>>
    PROVE  s = <<>> /\ u = <<>>
<1>1. Len(s \o u) = Len(s) + Len(u) /\ Len(s) \in Nat /\ Len(u) \in Nat
    BY ConcatProperties, LenProperties
<1>2. Len(<<>>) = 0
    OBVIOUS
<1>3. Len(s \o u) = 0
    BY <1>2, Zenon
<1>4. Len(s) = 0 /\ Len(u) = 0
    BY <1>1, <1>3
<1> QED
    BY <1>4, EmptySeq

\* What a client says first is said in another order of its parts.
Start ==
    CASE session.kind \in OwnKinds -> WriteHandshake(<<MethodNone>>)
      [] session.kind = "socks4" -> WriteRequest4("connect", session.addr, session.user)
      [] session.kind = "raw4" -> WriteRequest4(session.command, session.addr, session.user) \o session.data
      [] session.kind = "raw" -> WriteHandshake(session.methods) \o WritePasswd(session.user, session.passwd)
                                     \o WriteRequest(session.command, session.addr) \o session.data
      [] session.kind = "plain" -> WriteHandshake(session.methods) \o WriteRequest(session.command, session.addr) \o session.data

LEMMA StartsSo ==
    ASSUME session \in Cases
    PROVE  Start = Opening /\ Opening \in Seq(Byte)
<1>1. /\ session.kind \in Socks5Kinds \cup Socks4Kinds
      /\ session.command \in {"connect", "bind", "associate"}
      /\ WellFormed(session.addr) /\ session.data \in Seq(Byte)
      /\ IsText(session.methods) /\ IsText(session.user) /\ IsText(session.passwd)
    BY SessionTyped
<1>2. Opening \in Seq(Byte)
    BY <1>1, SessionSpeaks, SessionSpeaks4 DEF Message
<1>3. PICK h \in Seq(Byte), p \in Seq(Byte), r \in Seq(Byte), d \in Seq(Byte) :
          /\ h = WriteHandshake(session.methods) /\ p = WritePasswd(session.user, session.passwd)
          /\ r = WriteRequest(session.command, session.addr) /\ d = session.data
    <2>1. WriteHandshake(session.methods) \in Seq(Byte)
        BY <1>1, HandshakeMessage DEF Message
    <2>2. WritePasswd(session.user, session.passwd) \in Seq(Byte)
        BY <1>1, PasswdMessage DEF Message
    <2>3. WriteRequest(session.command, session.addr) \in Seq(Byte)
        BY <1>1, RequestMessage DEF Message
    <2> QED
        BY <1>1, <2>1, <2>2, <2>3, Zenon
<1>4. CASE session.kind = "raw"
    <2>1. PICK hp \in Seq(Byte), rd \in Seq(Byte) : hp = h \o p /\ rd = r \o d
        BY BothBytes
    <2>2. Then2(h, p, rd) /\ Then2(hp, r, d)
        BY Joining
    <2>3. Start = (hp \o r) \o d
        BY <1>3, <1>4, <2>1 DEF Start, OwnKinds
    <2>4. Opening = h \o (p \o rd)
        BY <1>3, <1>4, <2>1 DEF Opening, OwnKinds, ThePasswd, TheRequest
    <2> QED
        BY <1>2, <2>1, <2>2, <2>3, <2>4, Zenon DEF Then2
<1>5. CASE session.kind = "plain"
    <2>1. Then2(h, r, d)
        BY Joining
    <2>2. Start = (h \o r) \o d
        BY <1>3, <1>5 DEF Start, OwnKinds
    <2>3. Opening = h \o (r \o d)
        BY <1>3, <1>5 DEF Opening, OwnKinds, TheRequest
    <2> QED
        BY <1>2, <2>1, <2>2, <2>3, Zenon DEF Then2
<1>6. CASE session.kind \in OwnKinds \cup {"socks4", "raw4"}
    BY <1>2, <1>6 DEF Start, Opening, OwnKinds
<1> QED
    BY <1>1, <1>4, <1>5, <1>6 DEF Socks5Kinds, Socks4Kinds, OwnKinds

LEMMA ClientStartsKeeps ==
    ASSUME StreamInv, ClientStarts
    PROVE  StreamInv'
<1>0. Shapes /\ UNCHANGED <<session, up, down, handler, remote>> /\ client.pc = "start" /\ session \in Cases
    BY DEF StreamInv, Shapes, ClientStarts
<1>1. Unread = <<>> /\ down = <<>> /\ handler.pc \in {"peek", "done"} /\ client.result = "none"
    BY <1>0 DEF StreamInv, ClientInv
<1>2. up = <<>> /\ client.unsent = <<>>
    BY <1>0, <1>1, BothEmpty DEF Shapes, Unread
<1>3. session.kind \in Socks5Kinds \cup Socks4Kinds
    BY <1>0, SessionTyped
<1>4. Says(FirstPc, Start)
    BY <1>3 DEF ClientStarts, FirstPc, Start, OwnKinds, Socks5Kinds, Socks4Kinds
<1>5. Empties(Opening) /\ Start = Opening /\ Opening \in Seq(Byte)
    BY <1>0, StartsSo, Nothing
<1>6. client' = [pc |-> FirstPc, unsent |-> Opening, result |-> "none", gone |-> client.gone]
    <2>1. client.unsent \o Start = Opening
        BY <1>2, <1>5, Zenon DEF Empties
    <2>2. client' = [client EXCEPT !.pc = FirstPc, !.unsent = Opening]
        BY <1>4, <2>1 DEF Says
    <2> QED
        BY <1>0, <1>1, <2>2 DEF Shapes
<1>7. Unread' = Opening
    BY <1>0, <1>2, <1>5, <1>6, Zenon DEF Unread, Empties
<1>8. FirstPc \in {"handshake", "result4", "end"} /\ (FirstPc = "handshake" => session.kind \in OwnKinds)
      /\ (FirstPc = "result4" => session.kind = "socks4") /\ (FirstPc = "end" => session.kind \in RawKinds)
    BY <1>3 DEF FirstPc, OwnKinds, RawKinds, Socks5Kinds, Socks4Kinds
<1>9. Shapes'
    BY <1>0, <1>5, <1>6, <1>8 DEF Shapes
<1>10. Opening' = Opening /\ FirstPc' = FirstPc /\ enable_udp' = enable_udp /\ Authorised' = Authorised
    BY <1>0, SessionSame
<1>11. PhaseInv'
    <2>1. handler.pc = "peek" => AtOpening'
        BY <1>0, <1>1, <1>6, <1>7, <1>10 DEF AtOpening
    <2> QED
        BY <1>0, <1>1, <2>1 DEF StreamInv, PhaseInv, Unserved
<1>12. ClientInv'
    <2>1. FirstPc = "handshake" => AwaitsChoice'
        BY <1>0, <1>1 DEF AwaitsChoice
    <2>2. FirstPc = "result4" => AwaitsResult'
        BY <1>0, <1>1 DEF AwaitsResult
    <2> QED
        BY <1>0, <1>6, <1>8, <2>1, <2>2 DEF ClientInv
<1>13. SaidInv'
    BY <1>0, <1>6, <1>10 DEF StreamInv, SaidInv, Honest
<1> QED
    BY <1>9, <1>11, <1>12, <1>13 DEF StreamInv

\* The client gives up on a handler that is done, or has what it asked for.
LEMMA GivingUp ==
    ASSUME StreamInv, UNCHANGED <<session, up, handler, remote>>, handler.pc = "done", session.kind \notin RawKinds,
           down' \in Seq(Byte), NEW result, result \notin {"connected", "associated", "misled"}, Gives(result)
    PROVE  StreamInv'
<1>0. Shapes
    BY DEF StreamInv
<1>1. client' = [pc |-> "end", unsent |-> client.unsent, result |-> result, gone |-> client.gone]
    BY <1>0 DEF Shapes, Gives
<1>2. Shapes'
    BY <1>0, <1>1 DEF Shapes
<1>3. enable_udp' = enable_udp /\ Authorised' = Authorised
    BY SessionSame
<1>4. PhaseInv'
    BY DEF PhaseInv, Unserved
<1>5. ClientInv'
    BY <1>1 DEF ClientInv
<1>6. SaidInv'
    BY <1>1, <1>3 DEF StreamInv, SaidInv, Honest
<1> QED
    BY <1>2, <1>4, <1>5, <1>6 DEF StreamInv

LEMMA GettingIn ==
    ASSUME StreamInv, UNCHANGED <<session, up, handler, remote>>, handler.pc \in {"tunnel", "hold", "done"},
           session.kind \in {"connect", "socks4"}, remote.state = "connected", client.result = "none", down' \in Seq(Byte),
           client' = [client EXCEPT !.pc = "end", !.result = "connected", !.unsent = session.data]
    PROVE  StreamInv'
<1>0. Shapes /\ session.kind \notin RawKinds
    BY DEF StreamInv, RawKinds
<1>1. PICK d \in Seq(Byte) : d = session.data
    BY <1>0, SessionTyped DEF Shapes
<1>2. client' = [pc |-> "end", unsent |-> d, result |-> "connected", gone |-> client.gone]
    BY <1>0, <1>1 DEF Shapes
<1>9. client'.unsent = d /\ client'.result = "connected"
    BY <1>0, <1>1, <1>2 DEF Shapes
<1>3. Shapes'
    BY <1>0, <1>1, <1>2 DEF Shapes
<1>4. enable_udp' = enable_udp /\ Authorised' = Authorised
    BY SessionSame
<1>5. ASSUME handler.pc = "tunnel" PROVE AtTunnel'
    <2>1. AtTunnel /\ Passed = <<>> /\ handler.buf = <<>>
        BY <1>0, <1>5 DEF StreamInv, PhaseInv, AtTunnel, AtTarget, Gave
    <2>2. PICK g \in Seq(Byte), s \in Seq(Byte), u \in Seq(Byte) : g = remote.got /\ s = up /\ u = client.unsent
        BY <1>0 DEF Shapes
    <2>3. PICK su \in Seq(Byte) : su = s \o u
        BY BothBytes
    <2>4. Empties(su) /\ Empties(d)
        BY Nothing
    <2>5. g \o su = <<>>
        BY <2>1, <2>2, <2>3, <2>4, Zenon DEF Passed, Unread, Empties
    <2>6. g = <<>> /\ su = <<>>
        BY <2>5, BothEmpty
    <2>7. s = <<>>
        BY <2>3, <2>6, BothEmpty
    <2>8. Passed' = <<>> \o (<<>> \o (<<>> \o d))
        <3>1. remote'.got = <<>> /\ handler'.buf = <<>> /\ up' = <<>> /\ client'.unsent = d
            <4>1. remote.got = <<>> /\ up = <<>>
                BY <2>2, <2>6, <2>7, Zenon
            <4> QED
                BY <1>9, <2>1, <4>1
        <3> QED
            BY <3>1, Zenon DEF Passed, Unread
    <2>9. Passed' = d
        BY <2>4, <2>8, Zenon DEF Empties
    <2>10. Gave' = d
        BY <1>1, <1>2 DEF Gave
    <2> QED
        BY <2>1, <2>9, <2>10 DEF AtTunnel, AtTarget
<1>6. PhaseInv'
    BY <1>5 DEF StreamInv, PhaseInv, Unserved
<1>7. ClientInv'
    BY <1>0, <1>2 DEF ClientInv
<1>8. SaidInv'
    BY <1>2, <1>4 DEF StreamInv, SaidInv, Honest
<1> QED
    BY <1>3, <1>6, <1>7, <1>8 DEF StreamInv

\* Messages that are not each other.
LEMMA ChosenDiffer ==
    /\ WriteChosen(MethodNone) # <<>> /\ WriteChosen(MethodNotAcceptable) # <<>>
    /\ WriteChosen(MethodNotAcceptable) # WriteChosen(MethodNone)
    /\ \A w \in Seq(Byte) : w # <<>> => WriteChosen(MethodNone) \o w # <<>> /\ WriteChosen(MethodNone) \o w # WriteChosen(MethodNone)
<1>1. MethodNone \in Byte /\ MethodNotAcceptable \in Byte /\ MethodNone # MethodNotAcceptable
    BY DEF MethodNone, MethodNotAcceptable, Byte
<1>2. <<>> \in Seq(Byte)
    BY Nothing
<1>3. /\ ReadChosen(<<>>) = Err("eof") /\ ReadChosen(WriteChosen(MethodNone)) = Ok(MethodNone, <<>>)
      /\ ReadChosen(WriteChosen(MethodNotAcceptable)) = Ok(MethodNotAcceptable, <<>>)
    BY <1>1, <1>2, ChosenReads
<1>4. Err("eof") # Ok(MethodNone, <<>>) /\ Err("eof") # Ok(MethodNotAcceptable, <<>>)
      /\ Ok(MethodNone, <<>>) # Ok(MethodNotAcceptable, <<>>)
    <2>1. Err("eof").err # Ok(MethodNone, <<>>).err /\ Err("eof").err # Ok(MethodNotAcceptable, <<>>).err
        BY DEF Err, Ok
    <2>2. Ok(MethodNone, <<>>).v = MethodNone /\ Ok(MethodNotAcceptable, <<>>).v = MethodNotAcceptable
        BY DEF Ok
    <2> QED
        BY <1>1, <2>1, <2>2, Zenon
<1>5. ASSUME NEW w \in Seq(Byte), w # <<>>
      PROVE  WriteChosen(MethodNone) \o w # <<>> /\ WriteChosen(MethodNone) \o w # WriteChosen(MethodNone)
    <2>1. ReadChosen(WriteChosen(MethodNone) \o w) = Ok(MethodNone, w)
        BY <1>1, ChosenReads
    <2>2. Ok(MethodNone, w).err # Err("eof").err /\ Ok(MethodNone, w).rest = w /\ Ok(MethodNone, <<>>).rest = <<>>
        BY DEF Err, Ok
    <2> QED
        BY <1>3, <1>5, <2>1, <2>2, Zenon
<1> QED
    BY <1>3, <1>4, <1>5, Zenon

LEMMA RefusalReads ==
    ASSUME NEW reply \in Refusals5, NEW a, WellFormed(a)
    PROVE  /\ \/ ReadResponse(WriteResponse(reply, a)) = Ok([reply |-> reply, addr |-> a], <<>>)
              \/ ReadResponse(WriteResponse(reply, a)) = Err("AddressDomainInvalidEncoding")
           /\ WriteResponse(reply, a) # <<>>
<1>1. reply \in Replies5
    BY ReplyCodes, Zenon DEF Refusals5
<1>2. \/ ReadResponse(WriteResponse(reply, a)) = Ok([reply |-> reply, addr |-> a], <<>>)
      \/ ReadResponse(WriteResponse(reply, a)) = Err("AddressDomainInvalidEncoding")
    BY <1>1, ResponseReads, Zenon
<1>3. ReadResponse(<<>>) = Err("eof")
    BY <1>1, ResponseReads, Zenon
<1>4. Err("eof").err # Ok([reply |-> reply, addr |-> a], <<>>).err /\ Err("eof").err # Err("AddressDomainInvalidEncoding").err
    BY DEF Err, Ok
<1> QED
    BY <1>2, <1>3, <1>4, Zenon

LEMMA EofIs == Err("eof").err = "eof" /\ Err("eof").err # "ok" /\ Err("eof").rest = <<>>
BY DEF Err

LEMMA OkIs ==
    ASSUME NEW v, NEW w
    PROVE  Ok(v, w).err = "ok" /\ Ok(v, w).v = v /\ Ok(v, w).rest = w
BY DEF Ok

\* What a client that waits for the method finds.
LEMMA FindsChoice ==
    ASSUME StreamInv, client.pc = "handshake", NEW r, r = ReadChosen(down)
    PROVE  \/ r.err = "eof" /\ r.rest = <<>>
           \/ handler.pc = "done" /\ r.err = "ok" /\ r.v = MethodNotAcceptable /\ r.rest = <<>>
           \/ handler.pc \in {"request", "done"} /\ r.err = "ok" /\ r.v = MethodNone /\ r.rest = <<>>
           \/ /\ handler.pc = "done" /\ r.err = "ok" /\ r.v = MethodNone
              /\ \E reply \in Refusals5 : r.rest = WriteResponse(reply, BindAddr)
<1>0. session.kind \in OwnKinds /\ AwaitsChoice /\ Shapes
    BY DEF StreamInv, ClientInv
<1>1. MethodNone \in Byte /\ MethodNotAcceptable \in Byte
    BY DEF MethodNone, MethodNotAcceptable, Byte
<1>2. <<>> \in Seq(Byte)
    BY Nothing
<1>3. handler.pc \in {"peek", "handshake"} => down = <<>>
    BY DEF StreamInv, PhaseInv, AtOpening
<1>4. handler.pc = "request" => down = WriteChosen(MethodNone)
    BY <1>0 DEF StreamInv, PhaseInv, AtRequest
<1>5. handler.pc \in {"peek", "handshake", "request", "done"}
    BY <1>0 DEF AwaitsChoice
<1>6. CASE down = <<>>
    <2>1. r = Err("eof")
        BY <1>1, <1>2, <1>6, ChosenReads, Zenon
    <2> QED
        BY <2>1, EofIs, Zenon
<1>7. CASE down = WriteChosen(MethodNotAcceptable)
    <2>1. r = Ok(MethodNotAcceptable, <<>>)
        BY <1>1, <1>2, <1>7, ChosenReads, Zenon
    <2>2. down # <<>> /\ down # WriteChosen(MethodNone)
        BY <1>7, ChosenDiffer, Zenon
    <2>3. handler.pc = "done"
        BY <1>3, <1>4, <1>5, <2>2
    <2>4. r.err = "ok" /\ r.v = MethodNotAcceptable /\ r.rest = <<>>
        BY <2>1 DEF Ok
    <2> QED
        BY <2>3, <2>4, Zenon
<1>8. CASE down = WriteChosen(MethodNone)
    <2>1. r = Ok(MethodNone, <<>>)
        BY <1>1, <1>2, <1>8, ChosenReads, Zenon
    <2>2. down # <<>>
        BY <1>8, ChosenDiffer, Zenon
    <2>3. handler.pc \in {"request", "done"}
        BY <1>3, <1>5, <2>2
    <2>4. r.err = "ok" /\ r.v = MethodNone /\ r.rest = <<>>
        BY <2>1 DEF Ok
    <2> QED
        BY <2>3, <2>4, Zenon
<1>9. ASSUME NEW reply \in Refusals5, down = WriteChosen(MethodNone) \o WriteResponse(reply, BindAddr)
      PROVE  handler.pc = "done" /\ r.err = "ok" /\ r.v = MethodNone /\ r.rest = WriteResponse(reply, BindAddr)
    <2>1. PICK w \in Seq(Byte) : w = WriteResponse(reply, BindAddr)
        BY BindAssumption, RefusalIs, Zenon
    <2>2. w # <<>>
        BY <2>1, BindAssumption, RefusalReads, Zenon
    <2>3. ReadChosen(WriteChosen(MethodNone) \o w) = Ok(MethodNone, w)
        BY <1>1, ChosenReads
    <2>4. r = Ok(MethodNone, w)
        BY <1>9, <2>1, <2>3, Zenon
    <2>5. down # <<>> /\ down # WriteChosen(MethodNone)
        BY <1>9, <2>1, <2>2, ChosenDiffer, Zenon
    <2>6. handler.pc = "done"
        BY <1>3, <1>4, <1>5, <2>5
    <2>7. r.err = "ok" /\ r.v = MethodNone /\ r.rest = w
        BY <2>4 DEF Ok
    <2> QED
        BY <2>1, <2>6, <2>7, Zenon
<1> QED
    BY <1>0, <1>6, <1>7, <1>8, <1>9, Zenon DEF AwaitsChoice

LEMMA ClientChosenKeeps ==
    ASSUME StreamInv, ClientChosen
    PROVE  StreamInv'
<1> DEFINE r == ReadChosen(down)
<1>0. Shapes /\ UNCHANGED <<session, up, handler, remote>> /\ client.pc = "handshake" /\ session \in Cases
      /\ session.kind \in OwnKinds /\ session.kind \notin RawKinds
    BY DEF StreamInv, Shapes, ClientChosen, ClientInv, OwnKinds, RawKinds
<1>1. /\ r.err # "eof" \/ handler.pc = "done"
      /\ IF r.err # "ok" THEN Gives("error")
         ELSE IF r.v # MethodNone THEN Gives("panic")
         ELSE Says("response", WriteRequest(session.kind, session.addr))
      /\ down' = r.rest
    BY Zenon DEF ClientChosen
<1>2. \/ r.err = "eof" /\ r.rest = <<>>
      \/ handler.pc = "done" /\ r.err = "ok" /\ r.v = MethodNotAcceptable /\ r.rest = <<>>
      \/ handler.pc \in {"request", "done"} /\ r.err = "ok" /\ r.v = MethodNone /\ r.rest = <<>>
      \/ /\ handler.pc = "done" /\ r.err = "ok" /\ r.v = MethodNone
         /\ \E reply \in Refusals5 : r.rest = WriteResponse(reply, BindAddr)
    BY <1>0, FindsChoice
<1> HIDE DEF r
<1>3. <<>> \in Seq(Byte) /\ MethodNone # MethodNotAcceptable
    BY Nothing DEF MethodNone, MethodNotAcceptable
<1>4. CASE r.err = "eof" /\ r.rest = <<>>
    <2>1. Gives("error") /\ handler.pc = "done" /\ down' \in Seq(Byte)
        <3>1. handler.pc = "done" /\ r.err # "ok"
            BY <1>1, <1>4
        <3>2. Gives("error")
            BY <1>1, <3>1
        <3>3. down' = <<>>
            BY <1>1, <1>4, Zenon
        <3> QED
            BY <1>3, <3>1, <3>2, <3>3, Zenon
    <2> QED
        BY <1>0, <2>1, GivingUp
<1>5. CASE handler.pc = "done" /\ r.err = "ok" /\ r.v = MethodNotAcceptable /\ r.rest = <<>>
    <2>1. Gives("panic") /\ down' \in Seq(Byte)
        BY <1>1, <1>3, <1>5
    <2> QED
        BY <1>0, <1>5, <2>1, GivingUp
<1>6. CASE /\ r.err = "ok" /\ r.v = MethodNone
           /\ \/ handler.pc \in {"request", "done"} /\ r.rest = <<>>
              \/ handler.pc = "done" /\ \E reply \in Refusals5 : r.rest = WriteResponse(reply, BindAddr)
    <2>1. Says("response", OwnRequest) /\ down' = r.rest
        BY <1>1, <1>6 DEF OwnRequest
    <2>2. down' \in Seq(Byte)
        <3>1. ASSUME NEW reply \in Refusals5 PROVE WriteResponse(reply, BindAddr) \in Seq(Byte)
            BY BindAssumption, RefusalIs
        <3> QED
            BY <1>3, <1>6, <2>1, <3>1
    <2>3. PICK w \in Seq(Byte) : w = OwnRequest
        <3>1. WellFormed(session.addr) /\ session.kind \in {"connect", "bind", "associate"}
            BY <1>0, SessionTyped DEF OwnKinds
        <3>2. Message(OwnRequest, 5)
            BY <3>1, RequestMessage DEF OwnRequest
        <3> QED
            BY <3>2 DEF Message
    <2>4. PICK x \in Seq(Byte) : x = client.unsent \o w
        BY <1>0, BothBytes DEF Shapes
    <2>5. client' = [pc |-> "response", unsent |-> x, result |-> client.result, gone |-> client.gone]
        <3>1. client' = [client EXCEPT !.pc = "response", !.unsent = x]
            BY <2>1, <2>3, <2>4 DEF Says
        <3> QED
            BY <1>0, <3>1 DEF Shapes
    <2>6. Shapes'
        BY <1>0, <2>2, <2>5 DEF Shapes
    <2>7. client.result = "none"
        BY <1>0 DEF StreamInv, ClientInv
    <2>8. OwnRequest' = OwnRequest /\ Authorised' = Authorised /\ enable_udp' = enable_udp
        BY <1>0, SessionSame
    <2>9. ASSUME handler.pc = "request" PROVE AtRequest'
        <3>1. AtRequest /\ Unread = <<>>
            BY <1>0, <2>9 DEF StreamInv, PhaseInv, AtRequest
        <3>2. up = <<>> /\ client.unsent = <<>>
            BY <1>0, <3>1, BothEmpty DEF Shapes, Unread
        <3>3. Empties(w)
            BY Nothing
        <3>4. x = w
            BY <2>4, <3>2, <3>3, Zenon DEF Empties
        <3>5. up' = <<>> /\ client'.unsent = w
            BY <1>0, <2>5, <3>2, <3>4
        <3>6. Unread' = w
            BY <3>3, <3>5, Zenon DEF Empties, Unread
        <3>7. down' = <<>>
            BY <1>6, <2>1, <2>9
        <3> QED
            BY <1>0, <2>3, <2>5, <2>8, <3>1, <3>6, <3>7 DEF AtRequest, OwnKinds
    <2>10. PhaseInv'
        BY <1>0, <1>6, <2>9 DEF StreamInv, PhaseInv, Unserved
    <2>11. AwaitsReply'
        <3>1. CASE handler.pc \in {"request", "done"} /\ r.rest = <<>>
            BY <1>0, <2>1, <3>1 DEF AwaitsReply
        <3>2. CASE handler.pc = "done" /\ \E reply \in Refusals5 : r.rest = WriteResponse(reply, BindAddr)
            <4>1. PICK reply \in Refusals5 : down' = WriteResponse(reply, BindAddr)
                BY <2>1, <3>2
            <4>2. BindAddr' = BindAddr /\ handler'.pc = "done"
                BY <1>0, <3>2
            <4> QED
                BY <4>1, <4>2 DEF AwaitsReply
        <3> QED
            BY <1>6, <3>1, <3>2
    <2>12. ClientInv'
        BY <1>0, <2>5, <2>7, <2>11 DEF ClientInv
    <2>13. SaidInv'
        BY <1>0, <2>5, <2>8 DEF StreamInv, SaidInv, Honest
    <2> QED
        BY <2>6, <2>10, <2>12, <2>13 DEF StreamInv
<1> QED
    BY <1>2, <1>4, <1>5, <1>6

ReplyRead(r, reply) == r.err = "ok" => r.v.reply = reply

LEMMA RefusalGives ==
    ASSUME NEW reply \in Refusals5, NEW a, WellFormed(a), NEW r, r = ReadResponse(WriteResponse(reply, a))
    PROVE  r.rest = <<>> /\ r.err # "eof" /\ ReplyRead(r, reply)
           /\ reply \notin {"Succeeded", "connected", "associated", "misled"}
<1>1. reply \in Replies5 /\ reply # "Succeeded"
    BY ReplyCodes, Zenon DEF Refusals5
<1>2. reply \notin {"Succeeded", "connected", "associated", "misled"}
    BY <1>1 DEF Replies5
<1>3. \/ r = Ok([reply |-> reply, addr |-> a], <<>>)
      \/ r = Err("AddressDomainInvalidEncoding")
    BY RefusalReads, Zenon
<1>4. CASE r = Ok([reply |-> reply, addr |-> a], <<>>)
    BY <1>2, <1>4 DEF Ok, ReplyRead
<1>5. CASE r = Err("AddressDomainInvalidEncoding")
    BY <1>2, <1>5 DEF Err, ReplyRead
<1> QED
    BY <1>3, <1>4, <1>5

\* What a client that waits for the reply finds.
LEMMA FindsReply ==
    ASSUME StreamInv, client.pc = "response", NEW r, r = ReadResponse(down)
    PROVE  /\ r.rest = <<>>
           /\ \/ r.err = "eof"
              \/ handler.pc = "done" /\ \E reply \in Refusals5 : ReplyRead(r, reply)
                                          /\ reply \notin {"Succeeded", "connected", "associated", "misled"}
              \/ /\ r.err = "ok" /\ r.v.reply = "Succeeded" /\ r.v.addr = BindAddr /\ handler.pc \in {"tunnel", "hold", "done"}
                 /\ session.kind = "connect" => remote.state = "connected"
                 /\ session.kind = "associate" => enable_udp
<1>0. AwaitsReply /\ session \in Cases
    BY DEF StreamInv, ClientInv, Shapes
<1>1. "Succeeded" \in Replies5 /\ WellFormed(BindAddr) /\ Utf8Address(BindAddr) /\ WellFormed(session.addr)
    BY <1>0, BindAssumption, SessionTyped DEF Replies5, Utf8Address
<1>2. CASE down = <<>>
    <2>1. r = Err("eof")
        BY <1>1, <1>2, ResponseReads, Zenon
    <2> QED
        BY <2>1, EofIs, Zenon
<1>3. CASE handler.pc = "done" /\ \E reply \in Refusals5 : down = WriteResponse(reply, BindAddr) \/ down = WriteResponse(reply, session.addr)
    <2>1. PICK reply \in Refusals5, a \in {BindAddr, session.addr} : down = WriteResponse(reply, a)
        BY <1>3
    <2>2. WellFormed(a)
        BY <1>1, <2>1, Zenon
    <2>3. r.rest = <<>> /\ r.err # "eof" /\ ReplyRead(r, reply) /\ reply \notin {"Succeeded", "connected", "associated", "misled"}
        <3>1. r = ReadResponse(WriteResponse(reply, a))
            BY <2>1, Zenon
        <3> QED
            BY <2>2, <3>1, RefusalGives
    <2> QED
        BY <1>3, <2>3
<1>4. CASE /\ handler.pc \in {"tunnel", "hold", "done"} /\ down = Granted5
           /\ session.kind = "connect" => remote.state = "connected"
           /\ session.kind = "associate" => enable_udp
    <2>1. r = Ok([reply |-> "Succeeded", addr |-> BindAddr], <<>>)
        <3>1. ReadResponse(WriteResponse("Succeeded", BindAddr)) = Ok([reply |-> "Succeeded", addr |-> BindAddr], <<>>)
            BY <1>1, ResponseReads, Zenon
        <3> QED
            BY <1>4, <3>1, Zenon DEF Granted5
    <2>2. r.rest = <<>> /\ r.err = "ok" /\ r.v.reply = "Succeeded" /\ r.v.addr = BindAddr
        BY <2>1 DEF Ok
    <2> QED
        BY <1>4, <2>2
<1> QED
    BY <1>0, <1>2, <1>3, <1>4 DEF AwaitsReply

\* An association: there is nothing to connect to.
LEMMA Associating ==
    ASSUME StreamInv, UNCHANGED <<session, up, handler, remote>>, handler.pc \in {"tunnel", "hold", "done"},
           session.kind = "associate", enable_udp, down' \in Seq(Byte), Gives("associated")
    PROVE  StreamInv'
<1>0. Shapes /\ session.kind \notin RawKinds
    BY DEF StreamInv, RawKinds
<1>1. client' = [pc |-> "end", unsent |-> client.unsent, result |-> "associated", gone |-> client.gone]
    BY <1>0 DEF Shapes, Gives
<1>2. Shapes'
    BY <1>0, <1>1 DEF Shapes
<1>3. enable_udp' = enable_udp /\ Authorised' = Authorised
    BY SessionSame
<1>4. handler.pc # "tunnel"
    BY DEF StreamInv, PhaseInv, AtTunnel, AtTarget
<1>5. PhaseInv'
    BY <1>4 DEF StreamInv, PhaseInv, Unserved
<1>6. ClientInv'
    BY <1>0, <1>1, <1>4 DEF ClientInv
<1>7. SaidInv'
    BY <1>1, <1>3 DEF StreamInv, SaidInv, Honest
<1> QED
    BY <1>2, <1>5, <1>6, <1>7 DEF StreamInv

LEMMA ClientResponseKeeps ==
    ASSUME StreamInv, ClientResponse
    PROVE  StreamInv'
<1> DEFINE r == ReadResponse(down)
<1>0. Shapes /\ UNCHANGED <<session, up, handler, remote>> /\ client.pc = "response"
      /\ session.kind \in {"connect", "associate"} /\ session.kind \notin RawKinds /\ client.result = "none"
    BY DEF StreamInv, ClientResponse, ClientInv, OwnKinds, RawKinds
<1>1. /\ r.err # "eof" \/ handler.pc = "done"
      /\ IF r.err # "ok" THEN Gives("error")
         ELSE IF r.v.reply # "Succeeded" THEN Gives(r.v.reply)
         ELSE IF session.kind = "associate" THEN Gives(IF r.v.addr = BindAddr THEN "associated" ELSE "misled")
         ELSE client' = [client EXCEPT !.pc = "end", !.result = "connected", !.unsent = session.data]
      /\ down' = r.rest
    BY Zenon DEF ClientResponse
<1>2. /\ r.rest = <<>>
      /\ \/ r.err = "eof"
         \/ handler.pc = "done" /\ \E reply \in Refusals5 : ReplyRead(r, reply)
                                     /\ reply \notin {"Succeeded", "connected", "associated", "misled"}
         \/ /\ r.err = "ok" /\ r.v.reply = "Succeeded" /\ r.v.addr = BindAddr /\ handler.pc \in {"tunnel", "hold", "done"}
            /\ session.kind = "connect" => remote.state = "connected"
            /\ session.kind = "associate" => enable_udp
    BY <1>0, FindsReply
<1> HIDE DEF r
<1>3. down' \in Seq(Byte)
    BY <1>1, <1>2, Nothing, Zenon
<1>4. CASE r.err = "eof"
    <2>1. r.err # "ok" /\ handler.pc = "done"
        BY <1>1, <1>4
    <2>2. Gives("error")
        BY <1>1, <2>1
    <2> QED
        BY <1>0, <1>3, <2>1, <2>2, GivingUp
<1>5. ASSUME handler.pc = "done", NEW reply \in Refusals5, ReplyRead(r, reply),
             reply \notin {"Succeeded", "connected", "associated", "misled"}
      PROVE  StreamInv'
    <2>1. CASE r.err # "ok"
        <3>1. Gives("error")
            BY <1>1, <2>1
        <3> QED
            BY <1>0, <1>3, <1>5, <3>1, GivingUp
    <2>2. CASE r.err = "ok"
        <3>1. r.v.reply = reply
            BY <1>5, <2>2 DEF ReplyRead
        <3>2. Gives(reply)
            BY <1>1, <1>5, <2>2, <3>1
        <3> QED
            BY <1>0, <1>3, <1>5, <3>2, GivingUp
    <2> QED
        BY <2>1, <2>2
<1>6. CASE /\ r.err = "ok" /\ r.v.reply = "Succeeded" /\ r.v.addr = BindAddr /\ handler.pc \in {"tunnel", "hold", "done"}
           /\ session.kind = "connect" => remote.state = "connected"
           /\ session.kind = "associate" => enable_udp
    <2>1. CASE session.kind = "associate"
        <3>1. Gives("associated")
            BY <1>1, <1>6, <2>1
        <3> QED
            BY <1>0, <1>3, <1>6, <2>1, <3>1, Associating
    <2>2. CASE session.kind = "connect"
        <3>1. client' = [client EXCEPT !.pc = "end", !.result = "connected", !.unsent = session.data]
            BY <1>1, <1>6, <2>2
        <3> QED
            BY <1>0, <1>3, <1>6, <2>2, <3>1, GettingIn
    <2> QED
        BY <1>0, <2>1, <2>2
<1> QED
    BY <1>2, <1>4, <1>5, <1>6, Zenon

LEMMA ClientResult4Keeps ==
    ASSUME StreamInv, ClientResult4
    PROVE  StreamInv'
<1> DEFINE r == ReadResult4(down)
<1>0. Shapes /\ UNCHANGED <<session, up, handler, remote>> /\ client.pc = "result4" /\ AwaitsResult
      /\ session.kind = "socks4" /\ session.kind \notin RawKinds /\ client.result = "none"
    BY DEF StreamInv, ClientResult4, ClientInv, RawKinds
<1>1. /\ r.err # "eof" \/ handler.pc = "done"
      /\ IF r.err # "ok" THEN Gives("error")
         ELSE IF r.v # "RequestGranted" THEN Gives(r.v)
         ELSE client' = [client EXCEPT !.pc = "end", !.result = "connected", !.unsent = session.data]
      /\ down' = r.rest
    BY Zenon DEF ClientResult4
<1>2. "RequestGranted" \in Results4
    BY DEF Results4
<1>3. <<>> \in Seq(Byte)
    BY Nothing
<1>4. CASE down = <<>>
    <2>1. r = Err("eof")
        BY <1>2, <1>4, Result4Reads, Zenon
    <2>2. r.err # "ok" /\ r.err = "eof" /\ r.rest = <<>>
        BY <2>1, EofIs, Zenon
    <2> HIDE DEF r
    <2>3. Gives("error") /\ handler.pc = "done" /\ down' = <<>>
        BY <1>1, <2>2
    <2> QED
        BY <1>0, <1>3, <2>3, GivingUp
<1>5. ASSUME NEW result \in Refusals4, handler.pc = "done", down = WriteResult4(result) PROVE StreamInv'
    <2>1. result \in Results4 /\ result \notin {"RequestGranted", "connected", "associated", "misled"}
        <3>1. result \in Results4 /\ result # "RequestGranted"
            BY Refusal4Is
        <3> QED
            BY <3>1 DEF Results4
    <2>2. r = Ok(result, <<>>)
        BY <1>5, <2>1, Result4Reads, Zenon
    <2>3. r.err = "ok" /\ r.v = result /\ r.rest = <<>>
        BY <2>2 DEF Ok
    <2> HIDE DEF r
    <2>4. Gives(result) /\ down' = <<>>
        BY <1>1, <2>1, <2>3
    <2> QED
        BY <1>0, <1>3, <1>5, <2>1, <2>4, GivingUp
<1>6. CASE handler.pc \in {"tunnel", "done"} /\ remote.state = "connected" /\ down = Granted4
    <2>1. r = Ok("RequestGranted", <<>>)
        BY <1>2, <1>6, Result4Reads, Zenon DEF Granted4
    <2>2. r.err = "ok" /\ r.v = "RequestGranted" /\ r.rest = <<>>
        BY <2>1 DEF Ok
    <2> HIDE DEF r
    <2>3. client' = [client EXCEPT !.pc = "end", !.result = "connected", !.unsent = session.data] /\ down' = <<>>
        BY <1>1, <2>2
    <2> QED
        BY <1>0, <1>3, <1>6, <2>3, GettingIn
<1> QED
    BY <1>0, <1>4, <1>5, <1>6, Zenon DEF AwaitsResult

LEMMA StreamInit == SocksInit => StreamInv
<1> SUFFICES ASSUME SocksInit PROVE StreamInv
    OBVIOUS
<1>0. <<>> \in Seq(Byte) /\ Empties(<<>>)
    BY Nothing
<1>1. Shapes
    BY <1>0 DEF SocksInit, Shapes, Unserved
<1>2. Unread = <<>>
    BY <1>0, Zenon DEF SocksInit, Unread, Empties
<1>3. PhaseInv
    BY DEF SocksInit, PhaseInv, AtOpening, Unserved
<1>4. ClientInv
    BY <1>2 DEF SocksInit, ClientInv
<1>5. SaidInv
    BY DEF SocksInit, SaidInv, Honest
<1> QED
    BY <1>1, <1>3, <1>4, <1>5 DEF StreamInv

-----------------------------------------------------------------------------
(***************************************************************************)
(* Datagrams.                                                              *)
(***************************************************************************)

Cut(w, k) == SubSeq(w, 1, Len(w) - k)

\* Bytes that were cut: a part, unless nothing is left.
LEMMA CutIs ==
    ASSUME NEW w \in Seq(Byte), NEW k \in Nat
    PROVE  \/ Cut(w, k) = <<>>
           \/ \E u \in Seq(Byte) : Cut(w, k) \in Seq(Byte) /\ Cut(w, k) \o u = w /\ Len(u) = k
<1> DEFINE n == Len(w) - k
<1>1. Len(w) \in Nat /\ n \in Int
    BY LenProperties
<1>2. CASE n < 1
    <2>1. SubSeq(w, 1, n) = <<>>
        BY <1>1, <1>2, SubSeqEmpty
    <2> QED
        BY <2>1 DEF Cut
<1>3. CASE ~(n < 1)
    <2>1. n \in 0 .. Len(w) /\ Len(w) - n = k
        BY <1>1, <1>3
    <2>2. First(w, n) \in Seq(Byte) /\ Behind(w, n) \in Seq(Byte) /\ Len(Behind(w, n)) = Len(w) - n
          /\ First(w, n) \o Behind(w, n) = w
        BY <2>1, Parts
    <2>3. Cut(w, k) = First(w, n)
        BY DEF Cut, First
    <2> QED
        BY <2>1, <2>2, <2>3, Zenon
<1> QED
    BY <1>2, <1>3

LEMMA CutBack ==
    ASSUME NEW x \in Seq(Byte), NEW u \in Seq(Byte)
    PROVE  x = Cut(x \o u, Len(u))
<1>1. First(x \o u, Len(x)) = x
    BY Cuts
<1>2. Len(x \o u) = Len(x) + Len(u) /\ Len(x) \in Nat /\ Len(u) \in Nat
    BY ConcatProperties, LenProperties
<1>3. Len(x \o u) - Len(u) = Len(x)
    BY <1>2
<1> QED
    BY <1>1, <1>3, Zenon DEF Cut, First

LEMMA NoHeader == ReadUdpHeader(<<>>).err # "ok"
<1>1. Len(<<>>) < 3
    OBVIOUS
<1>2. ReadUdpHeader(<<>>) = Err("eof")
    BY <1>1, UdpHeaderIs
<1> QED
    BY <1>2, EofIs, Zenon

LEMMA UdpHeaderTyped ==
    ASSUME NEW k \in Byte, NEW a, WellFormed(a)
    PROVE  WriteUdpHeader(k, a) \in Seq(Byte)
<1>1. 0 \in Byte
    BY DEF Byte
<1>2. <<0, 0, k>> \in Seq(Byte)
    BY <1>1, Bytes
<1>3. WriteAddress(a) \in Seq(Byte)
    BY AddressTyped
<1> DEFINE g == <<0, 0, k>>
<1>4. g \in Seq(Byte)
    BY <1>2
<1> HIDE DEF g
<1>5. g \o WriteAddress(a) \in Seq(Byte)
    BY <1>3, <1>4, BothBytes
<1> QED
    BY <1>5, Zenon DEF WriteUdpHeader, g

\* What is read of a datagram that was cut is the client's.
LEMMA ServerReads ==
    ASSUME NEW d \in Datagrams, NEW b, b = SubSeq(Whole(d), 1, Len(Whole(d)) - d.cut), NEW r, r = ReadUdpHeader(b), r.err = "ok"
    PROVE  r.v.frag = d.frag /\ r.v.addr = d.addr /\ r.rest = SubSeq(d.data, 1, Len(d.data) - d.cut)
<1>1. d.frag \in Byte /\ WellFormed(d.addr) /\ d.data \in Seq(Byte) /\ d.cut \in Nat
    BY DatagramsAssumption
<1>2. PICK h \in Seq(Byte), t \in Seq(Byte) : h = WriteUdpHeader(d.frag, d.addr) /\ t = d.data
    BY <1>1, UdpHeaderTyped
<1>3. PICK w \in Seq(Byte) : w = h \o t
    BY BothBytes
<1>4. Whole(d) = w
    BY <1>2, <1>3, Zenon DEF Whole
<1>5. b = Cut(w, d.cut)
    BY <1>4, Zenon DEF Cut
<1>6. b # <<>>
    BY NoHeader, Zenon
<1>7. PICK u \in Seq(Byte) : b \in Seq(Byte) /\ b \o u = w /\ Len(u) = d.cut
    <2>1. \/ Cut(w, d.cut) = <<>>
          \/ \E u \in Seq(Byte) : Cut(w, d.cut) \in Seq(Byte) /\ Cut(w, d.cut) \o u = w /\ Len(u) = d.cut
        BY <1>1, CutIs
    <2> QED
        BY <1>5, <1>6, <2>1, Zenon
<1>8. b \o u = WriteUdpHeader(d.frag, d.addr) \o t
    BY <1>2, <1>3, <1>7, Zenon
<1>9. Means(ReadUdpHeader(b), [frag |-> d.frag, addr |-> d.addr], t, u)
    BY <1>1, <1>7, <1>8, UdpHeaderMeans
<1>10. r.rest \in Seq(Byte) /\ r.v = [frag |-> d.frag, addr |-> d.addr] /\ r.rest \o u = t
    BY <1>9, Zenon DEF Means
<1>11. r.rest = Cut(t, d.cut)
    <2>1. PICK x \in Seq(Byte) : x = r.rest /\ x \o u = t
        BY <1>10, Zenon
    <2>2. x = Cut(t, d.cut)
        <3>1. x = Cut(x \o u, Len(u))
            BY CutBack
        <3> QED
            BY <1>7, <2>1, <3>1, Zenon
    <2> QED
        BY <2>1, <2>2, Zenon
<1>12. r.v.frag = d.frag /\ r.v.addr = d.addr
    BY <1>10
<1> QED
    BY <1>2, <1>11, <1>12, Zenon DEF Cut

LEMMA MappedIs ==
    ASSUME NEW a, WellFormed(a)
    PROVE  /\ WellFormed(ToIpv4Mapped(a)) /\ ~HasIpv4Mapped(ToIpv4Mapped(a))
           /\ \/ ToIpv4Mapped(a) = a
              \/ HasIpv4Mapped(a) /\ ToIpv4Mapped(a).type = "v4" /\ ToIpv4Mapped(a).port = a.port
<1>1. CASE ~HasIpv4Mapped(a)
    BY <1>1, Zenon DEF ToIpv4Mapped
<1>2. CASE HasIpv4Mapped(a)
    <2>0. a.type = "v6"
        BY <1>2 DEF HasIpv4Mapped
    <2>1. a.port \in Word /\ a.host \in Seq(Byte) /\ Len(a.host) = 16
        BY <2>0 DEF WellFormed, IsText
    <2>2. PICK h : h = SubSeq(a.host, 13, 16)
        OBVIOUS
    <2>3. h \in Seq(Byte) /\ Len(h) = 4
        <3>1. \A i \in 13 .. 16 : a.host[i] \in Byte
            BY <2>1
        <3> QED
            BY <2>2, <3>1, SubSeqProperties
    <2>4. ToIpv4Mapped(a) = Address("v4", h, a.port)
        BY <1>2, <2>2, Zenon DEF ToIpv4Mapped
    <2>5. PICK m : m = Address("v4", h, a.port)
        OBVIOUS
    <2>6. m.type = "v4" /\ m.host = h /\ m.port = a.port
        BY <2>5 DEF Address
    <2>7. WellFormed(m)
        <3>1. m = Address(m.type, m.host, m.port)
            BY <2>5, <2>6, Zenon
        <3>2. m.host \in Seq(Byte) /\ Len(m.host) = 4 /\ Len(m.host) <= 255
            <4>1. m.host \in Seq(Byte) /\ Len(m.host) = 4
                BY <2>3, <2>6, Zenon
            <4> QED
                BY <4>1
        <3>3. m.port \in Word
            BY <2>1, <2>6
        <3> QED
            BY <2>6, <3>1, <3>2, <3>3 DEF WellFormed, IsText
    <2>8. ~HasIpv4Mapped(m)
        BY <2>6 DEF HasIpv4Mapped
    <2> QED
        BY <1>2, <2>4, <2>5, <2>6, <2>7, <2>8, Zenon
<1> QED
    BY <1>1, <1>2

LEMMA AnswerReads ==
    ASSUME NEW a \in Answers, NEW b, b = WriteUdpHeader(0, ToIpv4Mapped(a.addr)) \o a.data, NEW r, r = ReadUdpHeader(b), r.err = "ok"
    PROVE  r.v.addr = ToIpv4Mapped(a.addr) /\ r.rest = a.data
<1>1. WellFormed(a.addr) /\ a.data \in Seq(Byte)
    BY AnswersAssumption
<1>2. PICK m : m = ToIpv4Mapped(a.addr) /\ WellFormed(m)
    BY <1>1, MappedIs
<1>3. 0 \in Byte /\ <<>> \in Seq(Byte)
    BY Nothing DEF Byte
<1>4. PICK h \in Seq(Byte), t \in Seq(Byte) : h = WriteUdpHeader(0, m) /\ t = a.data
    BY <1>1, <1>2, <1>3, UdpHeaderTyped, Zenon
<1>5. PICK w \in Seq(Byte) : w = h \o t
    BY BothBytes
<1>6. b = w
    BY <1>2, <1>4, <1>5, Zenon
<1>7. Empties(w)
    BY Nothing
<1>8. w \o <<>> = WriteUdpHeader(0, m) \o t
    BY <1>4, <1>5, <1>7, Zenon DEF Empties
<1>9. Means(ReadUdpHeader(w), [frag |-> 0, addr |-> m], t, <<>>)
    BY <1>2, <1>3, <1>8, UdpHeaderMeans
<1>10. r.rest \in Seq(Byte) /\ r.v = [frag |-> 0, addr |-> m] /\ r.rest \o <<>> = t
    BY <1>6, <1>9, Zenon DEF Means
<1>11. r.rest = t
    <2>1. Empties(r.rest)
        BY <1>10, Nothing
    <2> QED
        BY <1>10, <2>1, Zenon DEF Empties
<1>12. r.v.addr = m
    BY <1>10
<1> QED
    BY <1>2, <1>4, <1>11, <1>12, Zenon

LEMMA UdpInvUnchanged ==
    ASSUME UdpInv, UNCHANGED udp
    PROVE  UdpInv'
BY DEF UdpInv, DatagramsUnderstood

LEMMA UdpClientSendsKeeps ==
    ASSUME UdpInv, NEW d \in Datagrams, UdpClientSends(d)
    PROVE  UdpInv'
<1> DEFINE b == SubSeq(Whole(d), 1, Len(Whole(d)) - d.cut)
<1>1. udp' = [udp EXCEPT !.toServer = @ \cup {b}]
    BY Zenon DEF UdpClientSends, Whole
<1>2. \E e \in Datagrams : b = SubSeq(Whole(e), 1, Len(Whole(e)) - e.cut)
    BY Zenon
<1> HIDE DEF b
<1>3. udp' = [toServer |-> udp.toServer \cup {b}, toTarget |-> udp.toTarget, toClient |-> udp.toClient, received |-> udp.received]
    BY <1>1 DEF UdpInv
<1>4. DatagramsUnderstood'
    BY <1>3 DEF UdpInv, DatagramsUnderstood
<1>5. \A c \in udp'.toServer : \E e \in Datagrams : c = SubSeq(Whole(e), 1, Len(Whole(e)) - e.cut)
    <2>1. udp'.toServer = udp.toServer \cup {b}
        BY <1>3
    <2> QED
        BY <1>2, <2>1, Zenon DEF UdpInv
<1>6. udp'.toClient = udp.toClient
    BY <1>3
<1>7. \A c \in udp'.toClient : \E a \in Answers : c = WriteUdpHeader(0, ToIpv4Mapped(a.addr)) \o a.data
    BY <1>6, Zenon DEF UdpInv
<1>8. udp' = [toServer |-> udp'.toServer, toTarget |-> udp'.toTarget, toClient |-> udp'.toClient, received |-> udp'.received]
    BY <1>3
<1> QED
    BY <1>4, <1>5, <1>7, <1>8, Zenon DEF UdpInv

LEMMA UdpServerReceivesKeeps ==
    ASSUME UdpInv, NEW b \in udp.toServer, UdpServerReceives(b)
    PROVE  UdpInv'
<1> DEFINE r == ReadUdpHeader(b)
           m == [addr |-> r.v.addr, data |-> r.rest]
<1>1. udp' = [udp EXCEPT !.toServer = @ \ {b}, !.toTarget = IF r.err = "ok" /\ r.v.frag = 0 THEN @ \cup {m} ELSE @]
    BY Zenon DEF UdpServerReceives
<1>2. PICK d \in Datagrams : b = SubSeq(Whole(d), 1, Len(Whole(d)) - d.cut)
    BY DEF UdpInv
<1>3. r.err = "ok" => r.v.frag = d.frag /\ r.v.addr = d.addr /\ r.rest = SubSeq(d.data, 1, Len(d.data) - d.cut)
    BY <1>2, ServerReads, Zenon
<1>4. r.err = "ok" /\ r.v.frag = 0 => d.frag = 0 /\ d.addr = m.addr /\ m.data = SubSeq(d.data, 1, Len(d.data) - d.cut)
    <2>1. m.addr = r.v.addr /\ m.data = r.rest
        OBVIOUS
    <2> HIDE DEF m
    <2> QED
        BY <1>3, <2>1, Zenon
<1> HIDE DEF m
<1> DEFINE T == IF r.err = "ok" /\ r.v.frag = 0 THEN udp.toTarget \cup {m} ELSE udp.toTarget
<1>5. udp' = [toServer |-> udp.toServer \ {b}, toTarget |-> T, toClient |-> udp.toClient, received |-> udp.received]
    BY <1>1 DEF UdpInv
<1>6. \A x \in T : \E e \in Datagrams : e.frag = 0 /\ e.addr = x.addr /\ x.data = SubSeq(e.data, 1, Len(e.data) - e.cut)
    <2>1. \A x \in udp.toTarget : \E e \in Datagrams :
              e.frag = 0 /\ e.addr = x.addr /\ x.data = SubSeq(e.data, 1, Len(e.data) - e.cut)
        BY DEF UdpInv, DatagramsUnderstood
    <2> QED
        BY <1>4, <2>1, Zenon
<1> HIDE DEF T, r
<1>7. /\ udp'.toServer = udp.toServer \ {b} /\ udp'.toTarget = T /\ udp'.toClient = udp.toClient /\ udp'.received = udp.received
      /\ udp' = [toServer |-> udp'.toServer, toTarget |-> udp'.toTarget, toClient |-> udp'.toClient, received |-> udp'.received]
    BY <1>5
<1>8. DatagramsUnderstood'
    BY <1>6, <1>7, Zenon DEF UdpInv, DatagramsUnderstood
<1>9. \A c \in udp'.toServer : \E e \in Datagrams : c = SubSeq(Whole(e), 1, Len(Whole(e)) - e.cut)
    <2>1. udp'.toServer \subseteq udp.toServer
        BY <1>7
    <2> QED
        BY <2>1, Zenon DEF UdpInv
<1>10. \A c \in udp'.toClient : \E a \in Answers : c = WriteUdpHeader(0, ToIpv4Mapped(a.addr)) \o a.data
    BY <1>7, Zenon DEF UdpInv
<1> QED
    BY <1>7, <1>8, <1>9, <1>10, Zenon DEF UdpInv

LEMMA InboundSendKeeps ==
    ASSUME UdpInv, NEW a \in Answers, InboundSend(a)
    PROVE  UdpInv'
<1> DEFINE b == WriteUdpHeader(0, ToIpv4Mapped(a.addr)) \o a.data
<1>1. udp' = [udp EXCEPT !.toClient = @ \cup {b}]
    BY Zenon DEF InboundSend
<1>2. \E e \in Answers : b = WriteUdpHeader(0, ToIpv4Mapped(e.addr)) \o e.data
    BY Zenon
<1> HIDE DEF b
<1>3. udp' = [toServer |-> udp.toServer, toTarget |-> udp.toTarget, toClient |-> udp.toClient \cup {b}, received |-> udp.received]
    BY <1>1 DEF UdpInv
<1>4. /\ udp'.toServer = udp.toServer /\ udp'.toTarget = udp.toTarget /\ udp'.toClient = udp.toClient \cup {b} /\ udp'.received = udp.received
      /\ udp' = [toServer |-> udp'.toServer, toTarget |-> udp'.toTarget, toClient |-> udp'.toClient, received |-> udp'.received]
    BY <1>3
<1>5. DatagramsUnderstood'
    BY <1>4 DEF UdpInv, DatagramsUnderstood
<1>6. \A c \in udp'.toServer : \E e \in Datagrams : c = SubSeq(Whole(e), 1, Len(Whole(e)) - e.cut)
    BY <1>4, Zenon DEF UdpInv
<1>7. \A c \in udp'.toClient : \E e \in Answers : c = WriteUdpHeader(0, ToIpv4Mapped(e.addr)) \o e.data
    BY <1>2, <1>4, Zenon DEF UdpInv
<1> QED
    BY <1>4, <1>5, <1>6, <1>7, Zenon DEF UdpInv

LEMMA UdpClientReceivesKeeps ==
    ASSUME UdpInv, NEW b \in udp.toClient, UdpClientReceives(b)
    PROVE  UdpInv'
<1> DEFINE r == ReadUdpHeader(b)
           m == [addr |-> r.v.addr, data |-> r.rest]
<1>1. udp' = [udp EXCEPT !.toClient = @ \ {b}, !.received = IF r.err = "ok" THEN @ \cup {m} ELSE @]
    BY Zenon DEF UdpClientReceives
<1>2. PICK a \in Answers : b = WriteUdpHeader(0, ToIpv4Mapped(a.addr)) \o a.data
    BY DEF UdpInv
<1>3. r.err = "ok" => r.v.addr = ToIpv4Mapped(a.addr) /\ r.rest = a.data
    BY <1>2, AnswerReads, Zenon
<1>4. /\ ~HasIpv4Mapped(ToIpv4Mapped(a.addr))
      /\ \/ ToIpv4Mapped(a.addr) = a.addr
         \/ HasIpv4Mapped(a.addr) /\ ToIpv4Mapped(a.addr).type = "v4" /\ ToIpv4Mapped(a.addr).port = a.addr.port
    BY AnswersAssumption, MappedIs
<1>5. r.err = "ok" =>
        /\ a.data = m.data /\ (m.addr = a.addr \/ (HasIpv4Mapped(a.addr) /\ m.addr.type = "v4" /\ m.addr.port = a.addr.port))
        /\ ~HasIpv4Mapped(m.addr)
    <2>1. m.addr = r.v.addr /\ m.data = r.rest
        OBVIOUS
    <2> HIDE DEF m
    <2> QED
        BY <1>3, <1>4, <2>1, Zenon
<1> HIDE DEF m
<1> DEFINE T == IF r.err = "ok" THEN udp.received \cup {m} ELSE udp.received
<1>6. udp' = [toServer |-> udp.toServer, toTarget |-> udp.toTarget, toClient |-> udp.toClient \ {b}, received |-> T]
    BY <1>1 DEF UdpInv
<1>7. /\ \A x \in T : \E e \in Answers :
              e.data = x.data /\ (x.addr = e.addr \/ (HasIpv4Mapped(e.addr) /\ x.addr.type = "v4" /\ x.addr.port = e.addr.port))
      /\ \A x \in T : ~HasIpv4Mapped(x.addr)
    <2>1. \A x \in udp.received : \E e \in Answers :
              e.data = x.data /\ (x.addr = e.addr \/ (HasIpv4Mapped(e.addr) /\ x.addr.type = "v4" /\ x.addr.port = e.addr.port))
        BY DEF UdpInv, DatagramsUnderstood
    <2>2. \A x \in udp.received : ~HasIpv4Mapped(x.addr)
        BY DEF UdpInv, DatagramsUnderstood
    <2> QED
        BY <1>5, <2>1, <2>2, Zenon
<1> HIDE DEF T, r
<1>8. /\ udp'.toServer = udp.toServer /\ udp'.toTarget = udp.toTarget /\ udp'.toClient = udp.toClient \ {b} /\ udp'.received = T
      /\ udp' = [toServer |-> udp'.toServer, toTarget |-> udp'.toTarget, toClient |-> udp'.toClient, received |-> udp'.received]
    BY <1>6
<1>9. DatagramsUnderstood'
    BY <1>7, <1>8, Zenon DEF UdpInv, DatagramsUnderstood
<1>10. \A c \in udp'.toServer : \E e \in Datagrams : c = SubSeq(Whole(e), 1, Len(Whole(e)) - e.cut)
    BY <1>8, Zenon DEF UdpInv
<1>11. \A c \in udp'.toClient : \E e \in Answers : c = WriteUdpHeader(0, ToIpv4Mapped(e.addr)) \o e.data
    <2>1. udp'.toClient \subseteq udp.toClient
        BY <1>8
    <2> QED
        BY <2>1, Zenon DEF UdpInv
<1> QED
    BY <1>8, <1>9, <1>10, <1>11, Zenon DEF UdpInv

LEMMA SocksInvInit == SocksInit => SocksInv
<1>1. SocksInit => UdpInv
    BY DEF SocksInit, UdpInv, DatagramsUnderstood
<1> QED
    BY <1>1, StreamInit DEF SocksInv

LEMMA SocksInvStep == SocksInv /\ [SocksNext]_socksVars => SocksInv'
<1> SUFFICES ASSUME SocksInv, [SocksNext]_socksVars PROVE SocksInv'
    OBVIOUS
<1>0. StreamInv /\ UdpInv
    BY DEF SocksInv
<1>1. ASSUME NEW outcome, Connect(outcome) \/ Connect4(outcome) PROVE SocksInv'
    <2>1. StreamInv'
        BY <1>0, <1>1, ConnectKeeps, Connect4Keeps
    <2>2. UdpInv'
        BY <1>0, <1>1, UdpInvUnchanged DEF Connect, Connect4
    <2> QED
        BY <2>1, <2>2 DEF SocksInv
<1>2. CASE ClientStarts \/ ClientChosen \/ ClientResponse \/ ClientResult4 \/ ByteArrives \/ ClientGoes
    <2>1. StreamInv'
        BY <1>0, <1>2, ClientStartsKeeps, ClientChosenKeeps, ClientResponseKeeps, ClientResult4Keeps, ByteArrivesKeeps,
           ClientGoesKeeps, Zenon
    <2>2. UNCHANGED udp
        BY <1>2, Zenon DEF ClientStarts, ClientChosen, ClientResponse, ClientResult4, ByteArrives, ClientGoes
    <2> QED
        BY <1>0, <2>1, <2>2, UdpInvUnchanged DEF SocksInv
<1>3. CASE Peek \/ Handshake \/ CheckAuthPassword \/ Request \/ Request4
    <2>1. StreamInv'
        BY <1>0, <1>3, PeekKeeps, HandshakeKeeps, CheckAuthPasswordKeeps, RequestKeeps, Request4Keeps, Zenon
    <2>2. UNCHANGED udp
        BY <1>3, Zenon DEF Peek, Handshake, CheckAuthPassword, Request, Request4
    <2> QED
        BY <1>0, <2>1, <2>2, UdpInvUnchanged DEF SocksInv
<1>4. CASE Tunnel \/ Ends \/ WriteFails
    <2>1. StreamInv'
        BY <1>0, <1>4, TunnelKeeps, EndsKeeps, WriteFailsKeeps, Zenon
    <2>2. UNCHANGED udp
        BY <1>4 DEF Tunnel, Ends, WriteFails
    <2> QED
        BY <1>0, <2>1, <2>2, UdpInvUnchanged DEF SocksInv
<1>5. ASSUME NEW d \in Datagrams, UdpClientSends(d) PROVE SocksInv'
    BY <1>0, <1>5, UdpClientSendsKeeps, UdpSteps DEF SocksInv, UdpClientSends
<1>6. ASSUME NEW b \in udp.toServer, UdpServerReceives(b) PROVE SocksInv'
    <2>1. UNCHANGED <<session, client, up, down, handler, remote>>
        BY <1>6, Zenon DEF UdpServerReceives
    <2> QED
        BY <1>0, <1>6, <2>1, UdpServerReceivesKeeps, UdpSteps DEF SocksInv
<1>7. ASSUME NEW a \in Answers, InboundSend(a) PROVE SocksInv'
    <2>1. UNCHANGED <<session, client, up, down, handler, remote>>
        BY <1>7, Zenon DEF InboundSend
    <2> QED
        BY <1>0, <1>7, <2>1, InboundSendKeeps, UdpSteps DEF SocksInv
<1>8. ASSUME NEW b \in udp.toClient, UdpClientReceives(b) PROVE SocksInv'
    <2>1. UNCHANGED <<session, client, up, down, handler, remote>>
        BY <1>8, Zenon DEF UdpClientReceives
    <2> QED
        BY <1>0, <1>8, <2>1, UdpClientReceivesKeeps, UdpSteps DEF SocksInv
<1>9. CASE UNCHANGED socksVars
    BY <1>0, <1>9, UdpInvUnchanged, UdpSteps DEF SocksInv, socksVars
<1> QED
    BY <1>1, <1>2, <1>3, <1>4, <1>5, <1>6, <1>7, <1>8, <1>9, Zenon DEF SocksNext

-----------------------------------------------------------------------------
(***************************************************************************)
(* What the invariant says of a state, and the theorems.                   *)
(***************************************************************************)

LEMMA StreamTyped ==
    ASSUME StreamInv
    PROVE  SocksTypeOK
<1>1. Shapes
    BY DEF StreamInv
<1>2. ASSUME NEW s \in Seq(Byte), NEW b \in Range(s) PROVE b \in Byte
    BY <1>2 DEF Range
<1>3. \A b \in Range(up) \cup Range(down) : b \in Byte
    BY <1>1, <1>2 DEF Shapes
<1> QED
    BY <1>1, <1>3 DEF Shapes, SocksTypeOK, Unserved

LEMMA UsersOnly ==
    ASSUME StreamInv
    PROVE  OnlyUsersServed
BY DEF StreamInv, SaidInv, OnlyUsersServed, Socks5Kinds, Authorised, Entitled

LEMMA Truthful ==
    ASSUME StreamInv
    PROVE  ToldTheTruth
<1>1. SaidInv /\ Shapes
    BY DEF StreamInv
<1>2. client.result = "connected" => remote.state = "connected" /\ remote.addr = session.addr
    BY <1>1 DEF SaidInv
<1>3. (client.result = "associated" => enable_udp) /\ client.result # "misled"
    BY <1>1 DEF SaidInv
<1>4. CASE handler.replies = <<>>
    <2>1. Len(handler.replies) <= 1 /\ Range(handler.replies) = {}
        BY <1>4 DEF Range
    <2> QED
        BY <1>2, <1>3, <2>1 DEF ToldTheTruth
<1>5. ASSUME NEW reply, handler.replies = <<reply>>,
             reply \in {"Succeeded", "RequestGranted"} => handler.command = "associate" \/ remote.state = "connected"
      PROVE  ToldTheTruth
    <2>1. Len(<<reply>>) = 1 /\ Range(<<reply>>) = {reply}
        BY DEF Range
    <2>2. Len(handler.replies) <= 1 /\ Range(handler.replies) = {reply}
        BY <1>5, <2>1
    <2>3. Range(handler.replies) \cap {"Succeeded", "RequestGranted"} # {}
              => handler.pc = "hold" \/ handler.command = "associate" \/ remote.state = "connected"
        BY <1>5, <2>2
    <2> QED
        BY <1>2, <1>3, <2>2, <2>3 DEF ToldTheTruth
<1> QED
    BY <1>1, <1>4, <1>5 DEF SaidInv, Honest

LEMMA BehindTheRequest ==
    ASSUME StreamInv
    PROVE  DataBehindTheRequest
<1> SUFFICES ASSUME handler.pc \in {"connect", "connect4", "tunnel"}
             PROVE  /\ handler.addr = session.addr
                    /\ client.result \in {"none", "connected"}
                    /\ (session.kind \in {"raw", "raw4", "plain"} \/ client.result = "connected")
                          => remote.got \o handler.buf \o up \o client.unsent = session.data
    BY DEF DataBehindTheRequest
<1>1. AtTarget /\ Shapes
    BY DEF StreamInv, PhaseInv, AtConnect, AtTunnel
<1>2. client.result \in {"none", "connected"}
    BY DEF StreamInv, PhaseInv, AtConnect, ClientInv
<1>3. PICK g \in Seq(Byte), b \in Seq(Byte), s \in Seq(Byte), u \in Seq(Byte) :
          g = remote.got /\ b = handler.buf /\ s = up /\ u = client.unsent
    BY <1>1 DEF Shapes
<1>4. PICK gb \in Seq(Byte), su \in Seq(Byte) : gb = g \o b /\ su = s \o u
    BY BothBytes
<1>5. Then2(g, b, su) /\ Then2(gb, s, u)
    BY Joining
<1>6. Passed = g \o (b \o su)
    BY <1>3, <1>4, Zenon DEF Passed, Unread
<1>7. ((g \o b) \o s) \o u = g \o (b \o su)
    BY <1>4, <1>5, Zenon DEF Then2
<1>8. remote.got \o handler.buf \o up \o client.unsent = Passed
    BY <1>3, <1>6, <1>7, Zenon
<1>9. (session.kind \in {"raw", "raw4", "plain"} \/ client.result = "connected") => Passed = session.data
    BY <1>1 DEF AtTarget, Gave, RawKinds
<1> QED
    BY <1>1, <1>2, <1>8, <1>9, Zenon DEF AtTarget

LEMMA WrittenReads ==
    ASSUME session \in Cases
    PROVE  ReadsBackAsWritten
<1>1. WellFormed(session.addr) /\ session.data \in Seq(Byte)
    BY SessionTyped
<1>2. PICK a : a = session.addr /\ WellFormed(a)
    BY <1>1
<1>3. PICK t \in Seq(Byte) : t = session.data
    BY <1>1
<1>4. PICK w \in Seq(Byte) : w = WriteAddress(a) /\ Len(w) = AddressLen(a)
    BY <1>2, AddressTyped
<1> DEFINE whole == IF a.type = "domain" /\ ~Utf8(a.host) THEN Err("AddressDomainInvalidEncoding") ELSE Ok(a, t)
<1>5. ReadAddress(w \o t) = whole
    <2>1. ReadAddress(WriteAddress(a) \o t) = whole
        BY <1>2, AddressReadsBack
    <2> QED
        BY <1>4, <2>1, Zenon
<1>6. ReadCursor(w \o t) = whole
    <2>1. ReadCursor(WriteAddress(a) \o t) = ReadAddress(WriteAddress(a) \o t)
        BY <1>2, CursorReads
    <2> QED
        BY <1>4, <1>5, <2>1, Zenon
<1>7. ASSUME NEW n \in 0 .. Len(w) - 1
      PROVE  ReadAddress(SubSeq(w, 1, n)) = Err("eof") /\ ReadCursor(SubSeq(w, 1, n)).err # "ok"
    <2>1. n \in 0 .. Len(w) /\ n < Len(w)
        BY LenProperties
    <2>2. First(w, n) \in Seq(Byte) /\ Behind(w, n) \in Seq(Byte) /\ Len(First(w, n)) = n /\ First(w, n) \o Behind(w, n) = w
        BY <2>1, Parts
    <2>3. PICK s \in Seq(Byte), u \in Seq(Byte) : s = First(w, n) /\ s \o u = w /\ Len(s) = n
        BY <2>2, Zenon
    <2>4. s \o u = WriteAddress(a) /\ Len(s) < Len(WriteAddress(a))
        <3>1. Len(s) < Len(w)
            BY <2>1, <2>3
        <3> QED
            BY <1>4, <2>3, <3>1, Zenon
    <2>5. ReadAddress(s) = Err("eof") /\ ReadCursor(s).err # "ok"
        BY <1>2, <2>4, PartIsShort
    <2> QED
        BY <2>3, <2>5, Zenon DEF First
<1>8. \A status \in {0, 1, StatusFailure} : ReadPasswdStatus(WritePasswdStatus(status)) = Ok(status, <<>>)
    <2>1. \A status \in {0, 1, StatusFailure} : status \in Byte
        BY DEF StatusFailure, Byte
    <2> QED
        BY <2>1, StatusReads, Zenon
<1>9. /\ Len(WriteAddress(session.addr)) = AddressLen(session.addr)
      /\ ReadAddress(WriteAddress(session.addr) \o session.data) = whole
      /\ ReadCursor(WriteAddress(session.addr) \o session.data) = whole
      /\ \A n \in 0 .. Len(WriteAddress(session.addr)) - 1 :
            /\ ReadAddress(SubSeq(WriteAddress(session.addr), 1, n)) = Err("eof")
            /\ ReadCursor(SubSeq(WriteAddress(session.addr), 1, n)).err # "ok"
    <2> HIDE DEF whole
    <2> QED
        BY <1>2, <1>3, <1>4, <1>5, <1>6, <1>7, Zenon
<1>10. whole = IF session.addr.type = "domain" /\ ~Utf8(session.addr.host) THEN Err("AddressDomainInvalidEncoding")
               ELSE Ok(session.addr, session.data)
    BY <1>2, <1>3, Zenon
<1> HIDE DEF whole
<1> QED
    BY <1>8, <1>9, <1>10, Zenon DEF ReadsBackAsWritten

\* Whatever the client sends and however it arrives, a client of a server with
\* users is let through to a target only with a password that check_user accepts,
\* the target is the one the client named, it gets what the client sent behind
\* its request and no byte of the handshake, and no client is told of a success
\* that did not happen, or twice (ServedRightly).
THEOREM SocksServeRightly == SocksSpec => []ServedRightly
<1>1. SocksInv => ServedRightly
    BY StreamTyped, UsersOnly, Truthful, BehindTheRequest DEF SocksInv, ServedRightly
<1> QED
    BY <1>1, SocksInvInit, SocksInvStep, PTL DEF SocksSpec

\* What write_to_buf and read_from make of a message agree: the server and a client
\* find in a datagram the address and the data that were put in it, a datagram that
\* was cut is dropped, and every client finds in a reply what the reply says
\* (MessagesUnderstood).
THEOREM SocksUnderstand == SocksSpec => []MessagesUnderstood
<1>1. SocksInv => MessagesUnderstood
    <2>1. SocksInv => session \in Cases
        BY DEF SocksInv, StreamInv, Shapes
    <2> QED
        BY <2>1, WrittenReads DEF SocksInv, UdpInv, MessagesUnderstood
<1> QED
    BY <1>1, SocksInvInit, SocksInvStep, PTL DEF SocksSpec

=============================================================================
