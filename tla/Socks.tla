------------------------------- MODULE Socks --------------------------------
(***************************************************************************)
(* The local SOCKS service: one TCP connection of a client to the handlers *)
(* of SOCKS5 and SOCKS4, and the UDP relay beside them.  Bytes arrive one  *)
(* at a time and either side may stop anywhere; the tunnel's own copying   *)
(* is in TcpRelay, the UDP associations in UdpAssociationManager.          *)
(***************************************************************************)
EXTENDS Naturals, Sequences, SequencesExt, SocksCodec

CONSTANTS
    Cases,        \* settings and client of a connection: see session
    Datagrams,    \* what a UDP client sends: [frag, addr, data, cut]
    Answers,      \* what targets answer: [addr, data]
    BindAddr      \* udp_bind_addr

ASSUME CasesAssumption == \A c \in Cases :
    /\ c.kind \in {"connect", "associate", "socks4", "raw", "raw4", "plain"}
    /\ c.command \in {"connect", "bind", "associate"}
    /\ WellFormed(c.addr) /\ IsText(c.methods) /\ IsText(c.user) /\ IsText(c.passwd) /\ c.data \in Seq(Byte)
    /\ c.kind \in {"socks4", "raw4"} =>
           /\ c.command # "associate" /\ ~Contains(c.user, 0)
           /\ \/ c.addr.type = "v4" /\ ~IsSocks4a(c.addr.host)
              \/ c.addr.type = "domain" /\ ~Contains(c.addr.host, 0)
ASSUME DatagramsAssumption == \A d \in Datagrams :
    d.frag \in Byte /\ WellFormed(d.addr) /\ d.data \in Seq(Byte) /\ d.cut \in Nat
ASSUME AnswersAssumption == \A a \in Answers : WellFormed(a.addr) /\ a.data \in Seq(Byte)
ASSUME BindAssumption == WellFormed(BindAddr) /\ (BindAddr.type = "domain" => Utf8(BindAddr.host))

VARIABLES
    session,      \* users (name -> password) and mode of the service; the client: which
               \* kind, the address it wants, the bytes it sends behind its request and
               \* for kind "raw" the methods, name and password it offers
    client,    \* the client: pc, what it has yet to send, its result, whether it is gone
    up, down,  \* bytes that have arrived at the handler and at the client
    handler,   \* the handler: pc, the request, the data in SOCKS4's BufReader, replies sent
    remote,    \* the connection to the target: its address and the bytes it got
    udp        \* datagrams under way, sent on and given to the client

socksVars == <<session, client, up, down, handler, remote, udp>>

NoAddr == Address("none", <<>>, 0)

SocksInit ==
    /\ session \in Cases
    /\ client = [pc |-> "start", unsent |-> <<>>, result |-> "none", gone |-> FALSE]
    /\ up = <<>> /\ down = <<>>
    /\ handler = [pc |-> "peek", command |-> "none", addr |-> NoAddr, buf |-> <<>>, authed |-> FALSE, replies |-> <<>>]
    /\ remote = [state |-> "none", addr |-> NoAddr, got |-> <<>>]
    /\ udp = [toServer |-> {}, toTarget |-> {}, toClient |-> {}, received |-> {}]

enable_tcp == session.mode \in {"TcpOnly", "TcpAndUdp"}
enable_udp == session.mode \in {"UdpOnly", "TcpAndUdp"}

----------------------------------------------------------------------------
(* Clients.  Each writes a message and, but for a raw one, reads the       *)
(* answer before the next.                                                 *)

Says(pc, bytes) == client' = [client EXCEPT !.pc = pc, !.unsent = @ \o bytes]
Gives(result)   == client' = [client EXCEPT !.pc = "end", !.result = result]

(* A client may also be gone when it has what it wanted.                   *)
ClientStarts ==
    /\ client.pc = "start"
    /\ CASE session.kind \in {"connect", "associate"} -> Says("handshake", WriteHandshake(<<MethodNone>>))
         [] session.kind = "socks4" -> Says("result4", WriteRequest4("connect", session.addr, session.user))
         [] session.kind = "raw4" -> Says("end", WriteRequest4(session.command, session.addr, session.user) \o session.data)
         [] session.kind = "raw" -> Says("end", WriteHandshake(session.methods) \o WritePasswd(session.user, session.passwd)
                                                 \o WriteRequest(session.command, session.addr) \o session.data)
         [] session.kind = "plain" -> Says("end", WriteHandshake(session.methods)
                                                 \o WriteRequest(session.command, session.addr) \o session.data)
    /\ UNCHANGED <<session, up, down, handler, remote, udp>>

(* Socks5TcpClient::connect and udp_associate: the method is asserted.     *)
ClientChosen ==
    /\ client.pc = "handshake"
    /\ LET r == ReadChosen(down)
       IN  /\ r.err # "eof" \/ handler.pc = "done"
           /\ IF r.err # "ok" THEN Gives("error")
              ELSE IF r.v # MethodNone THEN Gives("panic")
              ELSE Says("response", WriteRequest(session.kind, session.addr))
           /\ down' = r.rest
    /\ UNCHANGED <<session, up, handler, remote, udp>>

ClientResponse ==
    /\ client.pc = "response"
    /\ LET r == ReadResponse(down)
       IN  /\ r.err # "eof" \/ handler.pc = "done"
           /\ IF r.err # "ok" THEN Gives("error")
              ELSE IF r.v.reply # "Succeeded" THEN Gives(r.v.reply)
              ELSE IF session.kind = "associate" THEN Gives(IF r.v.addr = BindAddr THEN "associated" ELSE "misled")
              ELSE client' = [client EXCEPT !.pc = "end", !.result = "connected", !.unsent = session.data]
           /\ down' = r.rest
    /\ UNCHANGED <<session, up, handler, remote, udp>>

(* Socks4TcpClient::connect                                                *)
ClientResult4 ==
    /\ client.pc = "result4"
    /\ LET r == ReadResult4(down)
       IN  /\ r.err # "eof" \/ handler.pc = "done"
           /\ IF r.err # "ok" THEN Gives("error")
              ELSE IF r.v # "RequestGranted" THEN Gives(r.v)
              ELSE client' = [client EXCEPT !.pc = "end", !.result = "connected", !.unsent = session.data]
           /\ down' = r.rest
    /\ UNCHANGED <<session, up, handler, remote, udp>>

ByteArrives ==
    /\ client.unsent # <<>> /\ ~client.gone /\ handler.pc # "done"
    /\ up' = Append(up, Head(client.unsent))
    /\ client' = [client EXCEPT !.unsent = Tail(@)]
    /\ UNCHANGED <<session, down, handler, remote, udp>>

ClientGoes ==
    /\ ~client.gone
    /\ client' = [client EXCEPT !.gone = TRUE]
    /\ UNCHANGED <<session, up, down, handler, remote, udp>>

----------------------------------------------------------------------------
(* The handlers.  A reader acts when it has its message, an error, or the  *)
(* client is gone.                                                         *)

Finished(r) == r.err # "eof" \/ client.gone

Moves(pc)         == handler' = [handler EXCEPT !.pc = pc]
Replies(reply)    == handler' = [handler EXCEPT !.pc = "done", !.replies = Append(@, reply)]

(* SocksTcpHandler::handle_tcp_client: the first byte is looked at only.   *)
Peek ==
    /\ handler.pc = "peek"
    /\ up # <<>> \/ client.gone
    /\ CASE up = <<>> -> Moves("done")
         [] up # <<>> /\ up[1] = Version4 -> Moves("request4")
         [] up # <<>> /\ up[1] = Version5 -> Moves("handshake")
         [] OTHER -> Moves("done")
    /\ UNCHANGED <<session, client, up, down, remote, udp>>

(* Mutant: a client may choose no authentication though there are users. *)
FirstOffered(methods) == SelectInSeq(methods, LAMBDA m : m \in {MethodPassword, MethodNone})

auth_required == DOMAIN session.users # {}

(* The first method of the client's that the server takes; 0: none.        *)
Accepted(methods) ==
    SelectInSeq(methods, LAMBDA m : m = MethodPassword \/ (m = MethodNone /\ ~auth_required))

(* handle_socks5_client up to check_auth                                   *)
Handshake ==
    /\ handler.pc = "handshake"
    /\ LET r == ReadHandshake(up)
       IN  /\ Finished(r)
           /\ up' = r.rest
           /\ IF r.err # "ok" THEN Moves("done") /\ UNCHANGED down
              ELSE LET i == Accepted(r.v)
                   IN  IF i = 0 THEN Moves("done") /\ down' = down \o WriteChosen(MethodNotAcceptable)
                       ELSE /\ down' = down \o WriteChosen(r.v[i])
                            /\ handler' = [handler EXCEPT !.pc = IF r.v[i] = MethodPassword THEN "passwd" ELSE "request",
                                                          !.authed = r.v[i] = MethodNone]
    /\ UNCHANGED <<session, client, remote, udp>>

check_user(name, passwd) == name \in DOMAIN session.users /\ session.users[name] = passwd

StatusFailure == 255

CheckAuthPassword ==
    /\ handler.pc = "passwd"
    /\ LET r == ReadPasswd(up)
           granted == r.err = "ok" /\ Utf8(r.v.uname) /\ Utf8(r.v.passwd) /\ check_user(r.v.uname, r.v.passwd)
       IN  /\ Finished(r)
           /\ up' = r.rest
           /\ down' = down \o WritePasswdStatus(IF granted THEN 0
                                                ELSE IF r.err # "ok" THEN ReplyCode[AsReply(r.err)] ELSE StatusFailure)
           /\ handler' = [handler EXCEPT !.pc = IF granted THEN "request" ELSE "done", !.authed = granted]
    /\ UNCHANGED <<session, client, remote, udp>>

(* TcpRequestHeader and the match on its command, with the replies of      *)
(* handle_tcp_connect and handle_udp_associate to a disabled mode.         *)
Request ==
    /\ handler.pc = "request"
    /\ LET r == ReadRequest(up)
           Says5(reply, addr) == down' = down \o WriteResponse(reply, addr)
       IN  /\ Finished(r)
           /\ up' = r.rest
           /\ IF r.err # "ok" THEN Replies(AsReply(r.err)) /\ Says5(AsReply(r.err), BindAddr)
              ELSE CASE r.v.command = "connect" /\ enable_tcp ->
                            /\ handler' = [handler EXCEPT !.pc = "connect", !.command = "connect", !.addr = r.v.addr]
                            /\ UNCHANGED down
                     [] r.v.command = "associate" /\ enable_udp ->
                            /\ handler' = [handler EXCEPT !.pc = "hold", !.command = "associate",
                                                          !.replies = <<"Succeeded">>]
                            /\ Says5("Succeeded", BindAddr)
                     [] OTHER -> Replies("CommandNotSupported") /\ Says5("CommandNotSupported", r.v.addr)
    /\ UNCHANGED <<session, client, remote, udp>>

(* handle_socks4_client; the BufReader has taken some of what follows.     *)
Request4 ==
    /\ handler.pc = "request4"
    /\ LET r == ReadRequest4(up)
       IN  /\ Finished(r)
           /\ \E n \in 0 .. Len(r.rest) :
                  /\ up' = SubSeq(r.rest, n + 1, Len(r.rest))
                  /\ IF r.err # "ok" THEN Moves("done") /\ UNCHANGED down
                     ELSE IF r.v.command = "connect" /\ enable_tcp
                     THEN /\ handler' = [handler EXCEPT !.pc = "connect4", !.command = "connect", !.addr = r.v.addr,
                                                        !.buf = SubSeq(r.rest, 1, n)]
                          /\ UNCHANGED down
                     ELSE Replies("RequestRejectedOrFailed") /\ down' = down \o WriteResult4("RequestRejectedOrFailed")
    /\ UNCHANGED <<session, client, remote, udp>>

TargetConnected == remote' = [remote EXCEPT !.state = "connected", !.addr = handler.addr]

(* Mutant: the client is told it is connected before it is. *)
RepliesFirst(outcome) ==
    /\ handler.pc = "connect"
    /\ down' = down \o WriteResponse("Succeeded", BindAddr)
    /\ IF outcome = "ok"
       THEN TargetConnected /\ handler' = [handler EXCEPT !.pc = "tunnel", !.replies = <<"Succeeded">>]
       ELSE Replies("Succeeded") /\ UNCHANGED remote
    /\ UNCHANGED <<session, client, up, udp>>

(* AutoProxyClientStream::connect to the best server, or connect_bypassed  *)
(* where none is configured, and the answer to the client.  Nobody looks   *)
(* at the address in the answer.                                           *)
Connect(outcome) ==
    /\ handler.pc = "connect"
    /\ LET reply == CASE outcome = "ok" -> "Succeeded"
                      [] outcome = "refused" -> "ConnectionRefused"
                      [] outcome = "aborted" -> "HostUnreachable"
                      [] OTHER -> "NetworkUnreachable"
       IN  /\ down' = down \o WriteResponse(reply, BindAddr)
           /\ IF outcome = "ok"
              THEN TargetConnected /\ handler' = [handler EXCEPT !.pc = "tunnel", !.replies = <<reply>>]
              ELSE Replies(reply) /\ UNCHANGED remote
    /\ UNCHANGED <<session, client, up, udp>>

(* Mutant: the BufReader is unwrapped with data in it. *)
UnwrapLosesBuffer(outcome) ==
    /\ handler.pc = "connect4"
    /\ outcome = "ok"
    /\ down' = down \o WriteResult4("RequestGranted")
    /\ TargetConnected
    /\ handler' = [handler EXCEPT !.pc = "tunnel", !.replies = <<"RequestGranted">>, !.buf = <<>>]
    /\ UNCHANGED <<session, client, up, udp>>

(* handle_socks4_connect: what the BufReader holds is sent on before the   *)
(* tunnel copies the rest.                                                 *)
Connect4(outcome) ==
    /\ handler.pc = "connect4"
    /\ LET result == CASE outcome = "ok" -> "RequestGranted"
                       [] outcome \in {"refused", "aborted"} -> "RequestRejectedCannotConnect"
                       [] OTHER -> "RequestRejectedOrFailed"
       IN  /\ down' = down \o WriteResult4(result)
           /\ IF outcome = "ok"
              THEN /\ remote' = [state |-> "connected", addr |-> handler.addr, got |-> handler.buf]
                   /\ handler' = [handler EXCEPT !.pc = "tunnel", !.replies = <<result>>, !.buf = <<>>]
              ELSE Replies(result) /\ UNCHANGED remote
    /\ UNCHANGED <<session, client, up, udp>>

(* establish_tcp_tunnel, the direction to the target.                      *)
Tunnel ==
    /\ handler.pc = "tunnel"
    /\ up # <<>>
    /\ remote' = [remote EXCEPT !.got = @ \o up]
    /\ up' = <<>>
    /\ UNCHANGED <<session, client, down, handler, udp>>

(* The tunnel and ignore_until_end end with the client's EOF.              *)
Ends ==
    /\ handler.pc \in {"tunnel", "hold"}
    /\ client.gone /\ (handler.pc = "hold" \/ up = <<>>)
    /\ Moves("done")
    /\ up' = <<>>
    /\ UNCHANGED <<session, client, down, remote, udp>>

(* Writing to a client that is gone may fail and ends the handler.         *)
WriteFails ==
    /\ client.gone /\ handler.pc \in {"handshake", "passwd", "request", "request4", "connect", "connect4"}
    /\ Moves("done")
    /\ UNCHANGED <<session, client, up, down, remote, udp>>

----------------------------------------------------------------------------
(* The UDP relay.                                                          *)

(* Socks5UdpClient::send_to; a datagram may arrive cut.                    *)
UdpClientSends(d) ==
    /\ client.result = "associated"
    /\ LET bytes == WriteUdpHeader(d.frag, d.addr) \o d.data
       IN  udp' = [udp EXCEPT !.toServer = @ \cup {SubSeq(bytes, 1, Len(bytes) - d.cut)}]
    /\ UNCHANGED <<session, client, up, down, handler, remote>>

(* Socks5UdpServer::run, a datagram: what cannot be read and fragments are *)
(* dropped.                                                                *)
UdpServerReceives(bytes) ==
    /\ enable_udp
    /\ LET r == ReadUdpHeader(bytes)
       IN  udp' = [udp EXCEPT !.toServer = @ \ {bytes},
                              !.toTarget = IF r.err = "ok" /\ r.v.frag = 0
                                           THEN @ \cup {[addr |-> r.v.addr, data |-> r.rest]} ELSE @]
    /\ UNCHANGED <<session, client, up, down, handler, remote>>

HasIpv4Mapped(a) == a.type = "v6" /\ SubSeq(a.host, 1, 12) = [i \in 1 .. 12 |-> IF i > 10 THEN 255 ELSE 0]

(* Mutant: a mapped address stays IPv6. *)
KeepMapped(a) == a

(* to_ipv4_mapped                                                          *)
ToIpv4Mapped(a) == IF HasIpv4Mapped(a) THEN Address("v4", SubSeq(a.host, 13, 16), a.port) ELSE a

(* Socks5UdpInboundWriter::send_to                                         *)
InboundSend(answer) ==
    /\ udp.toTarget # {}
    /\ udp' = [udp EXCEPT !.toClient = @ \cup {WriteUdpHeader(0, ToIpv4Mapped(answer.addr)) \o answer.data}]
    /\ UNCHANGED <<session, client, up, down, handler, remote>>

(* Socks5UdpClient::recv_from; a header of another fragment is the         *)
(* caller's to look at.                                                    *)
UdpClientReceives(bytes) ==
    /\ client.result = "associated"
    /\ LET r == ReadUdpHeader(bytes)
       IN  udp' = [udp EXCEPT !.toClient = @ \ {bytes},
                              !.received = IF r.err = "ok" THEN @ \cup {[addr |-> r.v.addr, data |-> r.rest]} ELSE @]
    /\ UNCHANGED <<session, client, up, down, handler, remote>>

SocksNext ==
    \/ ClientStarts \/ ClientChosen \/ ClientResponse \/ ClientResult4 \/ ByteArrives \/ ClientGoes
    \/ Peek \/ Handshake \/ CheckAuthPassword \/ Request \/ Request4
    \/ \E outcome \in {"ok", "refused", "aborted", "other"} : Connect(outcome) \/ Connect4(outcome)
    \/ Tunnel \/ Ends \/ WriteFails
    \/ \E d \in Datagrams : UdpClientSends(d)
    \/ \E bytes \in udp.toServer : UdpServerReceives(bytes)
    \/ \E answer \in Answers : InboundSend(answer)
    \/ \E bytes \in udp.toClient : UdpClientReceives(bytes)

SocksSpec == SocksInit /\ [][SocksNext]_socksVars

----------------------------------------------------------------------------
(* The state has its type.                                                 *)
SocksTypeOK ==
    /\ client.gone \in BOOLEAN
    /\ handler.pc \in {"peek", "handshake", "passwd", "request", "request4", "connect", "connect4", "tunnel",
                       "hold", "done"}
    /\ remote.state \in {"none", "connected"}
    /\ \A b \in Range(up) \cup Range(down) : b \in Byte

(* With users configured, a SOCKS5 client gets a tunnel or an association  *)
(* only if its name and password are a user's, whatever it offers and in   *)
(* whatever order (check_auth, check_auth_password).                       *)
OnlyUsersServed ==
    handler.command # "none" /\ session.kind \in {"connect", "associate", "raw", "plain"} /\ auth_required
        => session.kind = "raw" /\ check_user(session.user, session.passwd)

(* The target gets exactly the bytes behind the request, in order: none is *)
(* lost where the reader of the request read on (handle_socks4_connect),   *)
(* none of the request's own is taken for them.                            *)
DataBehindTheRequest ==
    handler.pc \in {"connect", "connect4", "tunnel"}
        => /\ handler.addr = session.addr
           /\ client.result \in {"none", "connected"}
           /\ (session.kind \in {"raw", "raw4", "plain"} \/ client.result = "connected")
                 => remote.got \o handler.buf \o up \o client.unsent = session.data

(* A client that was told it has what it asked for has it: the service was *)
(* connected to that very address before it said so, and it says one thing *)
(* only.                                                                   *)
ToldTheTruth ==
    /\ client.result = "connected" => remote.state = "connected" /\ remote.addr = session.addr
    /\ client.result = "associated" => enable_udp
    /\ client.result # "misled"
    /\ Len(handler.replies) <= 1
    /\ Range(handler.replies) \cap {"Succeeded", "RequestGranted"} # {}
          => handler.pc = "hold" \/ handler.command = "associate" \/ remote.state = "connected"

(* What the relay sends on is a whole, unfragmented datagram of the        *)
(* client's, and what the client receives is an answer under the IPv4      *)
(* address that the target is known by.                                    *)
DatagramsUnderstood ==
    /\ \A m \in udp.toTarget : \E d \in Datagrams :
          /\ d.frag = 0 /\ d.addr = m.addr
          /\ m.data = SubSeq(d.data, 1, Len(d.data) - d.cut)
    /\ \A m \in udp.received : \E a \in Answers :
          a.data = m.data /\ (m.addr = a.addr \/ (HasIpv4Mapped(a.addr) /\ m.addr.type = "v4" /\ m.addr.port = a.addr.port))
    /\ \A m \in udp.received : ~HasIpv4Mapped(m.addr)

(* An address that was written reads back, from a stream and from memory,  *)
(* with the bytes behind it left alone, and its length is the one the      *)
(* buffers are made for; no part of it reads as an address.                *)
ReadsBackAsWritten ==
    client.pc = "start" =>
        LET bytes == WriteAddress(session.addr)
            whole == IF session.addr.type = "domain" /\ ~Utf8(session.addr.host) THEN Err("AddressDomainInvalidEncoding")
                     ELSE Ok(session.addr, session.data)
        IN  /\ Len(bytes) = AddressLen(session.addr)
            /\ ReadAddress(bytes \o session.data) = whole
            /\ ReadCursor(bytes \o session.data) = whole
            /\ \A n \in 0 .. Len(bytes) - 1 : /\ ReadAddress(SubSeq(bytes, 1, n)) = Err("eof")
                                              /\ ReadCursor(SubSeq(bytes, 1, n)).err # "ok"
            /\ \A status \in {0, 1, StatusFailure} : ReadPasswdStatus(WritePasswdStatus(status)) = Ok(status, <<>>)

(* A SOCKS client gets what it may have, is told what it got, and its data *)
(* arrives from the first byte behind the request                          *)
(* (handle_socks5_client, handle_socks4_client).                           *)
ServedRightly == SocksTypeOK /\ OnlyUsersServed /\ ToldTheTruth /\ DataBehindTheRequest

(* Addresses and datagrams are understood as they were meant on the other  *)
(* side (Address, UdpAssociateHeader, Socks5UdpInboundWriter).             *)
MessagesUnderstood == DatagramsUnderstood /\ ReadsBackAsWritten
=============================================================================
