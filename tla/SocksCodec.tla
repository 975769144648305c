----------------------------- MODULE SocksCodec -----------------------------
(***************************************************************************)
(* The messages of SOCKS5 and SOCKS4/4a as bytes.  A reader takes what has *)
(* arrived on a stream; its result is an error or a value and the bytes it *)
(* left.  The error "eof" is that of read_exact when the stream ends too   *)
(* early: before the stream has ended, the reader is still waiting.        *)
(***************************************************************************)
EXTENDS Naturals, Sequences, SequencesExt

Byte == 0 .. 255
Word == 0 .. 65535
IsText(s) == s \in Seq(Byte) /\ Len(s) <= 255

Ok(v, rest) == [err |-> "ok", v |-> v, rest |-> rest]
Err(e)      == [err |-> e, v |-> <<>>, rest |-> <<>>]

(* read_exact of n bytes: K says what to do with them and the rest.        *)
Exact(n, s, K(_, _)) ==
    IF Len(s) < n THEN Err("eof") ELSE K(SubSeq(s, 1, n), SubSeq(s, n + 1, Len(s)))

(* read_until a zero byte, which is not part of what K gets.               *)
Until0(s, K(_, _)) ==
    IF ~Contains(s, 0) THEN Err("eof")
    ELSE LET i == SelectInSeq(s, LAMBDA b : b = 0)
         IN  K(SubSeq(s, 1, i - 1), SubSeq(s, i + 1, Len(s)))

U16(n)     == <<n \div 256, n % 256>>
FromU16(b) == b[1] * 256 + b[2]

(* String::from_utf8: 255 stands for the bytes no UTF-8 text has.          *)
Utf8(s) == ~Contains(s, 255)

----------------------------------------------------------------------------
(* SOCKS5                                                                  *)

Version5 == 5

MethodNone == 0
MethodPassword == 2
MethodNotAcceptable == 255

CommandCode == [connect |-> 1, bind |-> 2, associate |-> 3]
Command(code) == CHOOSE c \in DOMAIN CommandCode : CommandCode[c] = code
IsCommand(code) == \E c \in DOMAIN CommandCode : CommandCode[c] = code

ReplyCode == [Succeeded |-> 0, GeneralFailure |-> 1, ConnectionNotAllowed |-> 2, NetworkUnreachable |-> 3,
              HostUnreachable |-> 4, ConnectionRefused |-> 5, TtlExpired |-> 6, CommandNotSupported |-> 7,
              AddressTypeNotSupported |-> 8]
ReplyOf(code) ==
    IF \E r \in DOMAIN ReplyCode : ReplyCode[r] = code
    THEN CHOOSE r \in DOMAIN ReplyCode : ReplyCode[r] = code ELSE "OtherReply"

(* Error::as_reply                                                         *)
AsReply(err) ==
    CASE err = "AddressTypeNotSupported" -> "AddressTypeNotSupported"
      [] err = "UnsupportedCommand" -> "CommandNotSupported"
      [] OTHER -> "GeneralFailure"

Address(type, host, port) == [type |-> type, host |-> host, port |-> port]

(* What the type of an address allows; a longer name is asserted against.  *)
WellFormed(a) ==
    /\ a = Address(a.type, a.host, a.port) /\ a.port \in Word /\ IsText(a.host)
    /\ \/ a.type = "v4" /\ Len(a.host) = 4
       \/ a.type = "v6" /\ Len(a.host) = 16
       \/ a.type = "domain"

(* Mutant: the port is written with its low byte first. *)
WriteSwapped(a) ==
    CASE a.type = "v4" -> <<1>> \o a.host \o Reverse(U16(a.port))
      [] a.type = "v6" -> <<4>> \o a.host \o Reverse(U16(a.port))
      [] a.type = "domain" -> <<3, Len(a.host)>> \o a.host \o Reverse(U16(a.port))

WriteAddress(a) ==
    CASE a.type = "v4" -> <<1>> \o a.host \o U16(a.port)
      [] a.type = "v6" -> <<4>> \o a.host \o U16(a.port)
      [] a.type = "domain" -> <<3, Len(a.host)>> \o a.host \o U16(a.port)

AddressLen(a) == CASE a.type = "v4" -> 7 [] a.type = "v6" -> 19 [] a.type = "domain" -> 4 + Len(a.host)

(* Address::read_from: a stream.                                           *)
ReadAddress(s) ==
    Exact(1, s, LAMBDA t, r :
        CASE t[1] = 1 -> Exact(6, r, LAMBDA b, q : Ok(Address("v4", SubSeq(b, 1, 4), FromU16(SubSeq(b, 5, 6))), q))
          [] t[1] = 4 -> Exact(18, r, LAMBDA b, q : Ok(Address("v6", SubSeq(b, 1, 16), FromU16(SubSeq(b, 17, 18))), q))
          [] t[1] = 3 -> Exact(1, r, LAMBDA n, q : Exact(n[1] + 2, q, LAMBDA b, w :
                             LET host == SubSeq(b, 1, n[1])
                             IN  IF Utf8(host)
                                 THEN Ok(Address("domain", host, FromU16(SubSeq(b, n[1] + 1, n[1] + 2))), w)
                                 ELSE Err("AddressDomainInvalidEncoding")))
          [] OTHER -> Err("AddressTypeNotSupported"))

(* Address::read_cursor: a packet in memory.  The port of a domain is read *)
(* without asking whether it is there.                                     *)
ReadCursor(s) ==
    IF Len(s) < 2 THEN Err("invalid buf")
    ELSE LET r == Tail(s)
         IN  CASE s[1] = 1 -> IF Len(r) < 6 THEN Err("invalid buf") ELSE ReadAddress(s)
               [] s[1] = 4 -> IF Len(r) < 18 THEN Err("invalid buf") ELSE ReadAddress(s)
               [] s[1] = 3 -> IF Len(Tail(r)) < r[1] THEN Err("AddressDomainInvalidEncoding")
                              ELSE IF Len(Tail(r)) < r[1] + 2 THEN Err("panic") ELSE ReadAddress(s)
               [] OTHER -> Err("AddressTypeNotSupported")

(* TcpRequestHeader                                                        *)
WriteRequest(command, a) == <<Version5, CommandCode[command], 0>> \o WriteAddress(a)

ReadRequest(s) ==
    Exact(3, s, LAMBDA b, r :
        IF b[1] # Version5 THEN Err("UnsupportedSocksVersion")
        ELSE IF ~IsCommand(b[2]) THEN Err("UnsupportedCommand")
        ELSE LET a == ReadAddress(r)
             IN  IF a.err = "ok" THEN Ok([command |-> Command(b[2]), addr |-> a.v], a.rest) ELSE a)

(* TcpResponseHeader                                                       *)
WriteResponse(reply, a) == <<Version5, ReplyCode[reply], 0>> \o WriteAddress(a)

ReadResponse(s) ==
    Exact(3, s, LAMBDA b, r :
        IF b[1] # Version5 THEN Err("UnsupportedSocksVersion")
        ELSE LET a == ReadAddress(r)
             IN  IF a.err = "ok" THEN Ok([reply |-> ReplyOf(b[2]), addr |-> a.v], a.rest) ELSE a)

(* HandshakeRequest                                                        *)
WriteHandshake(methods) == <<Version5, Len(methods)>> \o methods

ReadHandshake(s) ==
    Exact(2, s, LAMBDA b, r :
        IF b[1] # Version5 THEN Err("UnsupportedSocksVersion") ELSE Exact(b[2], r, Ok))

(* HandshakeResponse                                                       *)
WriteChosen(method) == <<Version5, method>>

ReadChosen(s) ==
    Exact(2, s, LAMBDA b, r : IF b[1] # Version5 THEN Err("UnsupportedSocksVersion") ELSE Ok(b[2], r))

(* UdpAssociateHeader                                                      *)
WriteUdpHeader(frag, a) == <<0, 0, frag>> \o WriteAddress(a)

ReadUdpHeader(s) ==
    Exact(3, s, LAMBDA b, r : LET a == ReadAddress(r)
                              IN  IF a.err = "ok" THEN Ok([frag |-> b[3], addr |-> a.v], a.rest) ELSE a)

(* PasswdAuthRequest                                                       *)
WritePasswd(uname, passwd) == <<1, Len(uname)>> \o uname \o <<Len(passwd)>> \o passwd

ReadPasswd(s) ==
    Exact(1, s, LAMBDA ver, r1 :
        IF ver[1] # 1 THEN Err("UnsupportedPasswdAuthVersion")
        ELSE Exact(1, r1, LAMBDA ulen, r2 :
            IF ulen[1] = 0 THEN Err("PasswdAuthInvalidRequest")
            ELSE Exact(ulen[1], r2, LAMBDA uname, r3 : Exact(1, r3, LAMBDA plen, r4 :
                IF plen[1] = 0 THEN Err("PasswdAuthInvalidRequest")
                ELSE Exact(plen[1], r4, LAMBDA passwd, r5 : Ok([uname |-> uname, passwd |-> passwd], r5))))))

(* PasswdAuthResponse; read_from does not look at the error of read_exact, *)
(* so a missing byte is the zero of the empty buffer.                      *)
WritePasswdStatus(status) == <<1, status>>

ReadPasswdStatus(s) ==
    LET b == SubSeq(s \o <<0, 0>>, 1, 2)
    IN  IF b[1] # 1 THEN Err("UnsupportedPasswdAuthVersion") ELSE Ok(b[2], SubSeq(s, 3, Len(s)))

----------------------------------------------------------------------------
(* SOCKS4 and SOCKS4a                                                      *)

Version4 == 4

Command4Code == [connect |-> 1, bind |-> 2]
IsCommand4(code) == code \in {1, 2}
Command4(code) == IF code = 1 THEN "connect" ELSE "bind"

ResultCode == [RequestGranted |-> 90, RequestRejectedOrFailed |-> 91, RequestRejectedCannotConnect |-> 92]
ResultOf(code) ==
    IF \E r \in DOMAIN ResultCode : ResultCode[r] = code
    THEN CHOOSE r \in DOMAIN ResultCode : ResultCode[r] = code ELSE "Other"

WriteRequest4(command, a, user) ==
    <<Version4, Command4Code[command]>> \o U16(a.port)
        \o (IF a.type = "v4" THEN a.host \o user \o <<0>> ELSE <<0, 0, 0, 255>> \o user \o <<0>> \o a.host \o <<0>>)

(* An address 0.0.0.x announces a host name (SOCKS4a).                     *)
IsSocks4a(host) == SubSeq(host, 1, 3) = <<0, 0, 0>> /\ host[4] # 0

(* An unknown command is reported as an unknown version.                   *)
ReadRequest4(s) ==
    Exact(8, s, LAMBDA b, r :
        IF b[1] # Version4 \/ ~IsCommand4(b[2]) THEN Err("UnsupportedSocksVersion")
        ELSE Until0(r, LAMBDA user, q :
            LET Request(a, rest) == Ok([command |-> Command4(b[2]), addr |-> a, user |-> user], rest)
                port == FromU16(SubSeq(b, 3, 4))
            IN  IF IsSocks4a(SubSeq(b, 5, 8))
                THEN Until0(q, LAMBDA host, w : IF Utf8(host) THEN Request(Address("domain", host, port), w)
                                                ELSE Err("AddressHostInvalidEncoding"))
                ELSE Request(Address("v4", SubSeq(b, 5, 8), port), q)))

WriteResult4(result) == <<0, ResultCode[result], 0, 0, 0, 0, 0, 0>>

ReadResult4(s) ==
    Exact(8, s, LAMBDA b, r : IF b[1] # 0 THEN Err("UnsupportedSocksVersion") ELSE Ok(ResultOf(b[2]), r))
=============================================================================
