----------------------------- MODULE UdpPacket ------------------------------
(***************************************************************************)
(* What a shadowsocks UDP packet carries and who can read it, for every    *)
(* kind of cipher.  A packet is the record of its fields; a field that is  *)
(* encrypted comes with the key it takes to read it.  The AEAD-2022 AES    *)
(* methods encrypt the session and packet id with the first identity key   *)
(* and name the user in identity headers; the ChaCha methods do neither.   *)
(***************************************************************************)
EXTENDS Naturals, Sequences

CONSTANT MaxDiff    \* SERVER_PACKET_TIMESTAMP_MAX_DIFF, in ticks of the clock

Is2022(method) == method \in {"aes2022", "chacha2022"}

(* method_support_eih                                                      *)
SupportsEih(method) == method = "aes2022"

NoUser    == "no user"
NoControl == [session |-> 0, server |-> 0, id |-> 0, user |-> NoUser]

Fail(error) == [error |-> error]
Failed(result) == "error" \in DOMAIN result
Good(addr, len, control) == [addr |-> addr, len |-> len, control |-> control]

(* The address and payload under a stream or AEAD cipher, or bare.         *)
EncryptNone(addr, len) == [key |-> "none", addr |-> addr, len |-> len]
EncryptStream(key, addr, len) == [key |-> key, addr |-> addr, len |-> len]
EncryptAead(key, addr, len) == [key |-> key, addr |-> addr, len |-> len]

(* A wrong key or damage: a stream cipher yields an arbitrary address,     *)
(* which mostly does not parse; AEAD notices.                              *)
DecryptNone(packet) == Good(packet.addr, packet.len, NoControl)
DecryptStream(key, packet) ==
    IF packet.key # key THEN Fail("address") ELSE Good(packet.addr, packet.len, NoControl)
DecryptAead(key, packet) ==
    IF packet.key # key THEN Fail("decrypt") ELSE Good(packet.addr, packet.len, NoControl)

(* make_eih: header i is for the owner of identity key i and names the     *)
(* next one, the last of them the client's own key.                        *)
IdentityHeaders(method, identityKeys, key) ==
    IF SupportsEih(method)
    THEN [i \in DOMAIN identityKeys |->
            [under |-> identityKeys[i],
             names |-> IF i < Len(identityKeys) THEN identityKeys[i + 1] ELSE key]]
    ELSE <<>>

(* encrypt_message: the body under the key, and the ids under ipsk.        *)
EncryptMessage(method, ipsk, key, eih, body) ==
    [ids |-> IF SupportsEih(method) THEN ipsk ELSE key, eih |-> eih, key |-> key, body |-> body]

EncryptClient2022(method, key, identityKeys, addr, len, control, now) ==
    EncryptMessage(method, IF identityKeys = <<>> THEN key ELSE Head(identityKeys), key,
        IdentityHeaders(method, identityKeys, key),
        [session |-> control.session, id |-> control.id, type |-> "client", ts |-> now,
         client |-> control.session, addr |-> addr, len |-> len])

EncryptServer2022(method, key, addr, len, control, now) ==
    EncryptMessage(method, key, key, <<>>,
        [session |-> control.server, id |-> control.id, type |-> "server", ts |-> now,
         client |-> control.session, addr |-> addr, len |-> len])

(* Mutant: a packet that names no user is taken for one under the key itself. *)
EihOptional(method, users, packet) ==
    IF ~SupportsEih(method) \/ users = {} \/ packet.eih = <<>> THEN NoUser ELSE Head(packet.eih).names

(* decrypt_message: the user an identity header names, or the key itself.  *)
(* A server with users takes the first block behind the ids for the        *)
(* header, whatever it is, and one without users takes it for the body.    *)
EihUser(method, users, packet) ==
    IF ~SupportsEih(method) \/ users = {} THEN NoUser
    ELSE IF packet.eih = <<>> THEN "nobody"
    ELSE Head(packet.eih).names

DecryptMessage(method, key, users, packet) ==
    LET user == EihUser(method, users, packet)
        skipped == IF user = NoUser THEN 0 ELSE 1
    IN  IF packet.ids # key THEN Fail(IF user = NoUser THEN "decrypt" ELSE "user")
        ELSE IF user # NoUser /\ user \notin users THEN Fail("user")
        ELSE IF packet.key # (IF user = NoUser THEN key ELSE user) \/ Len(packet.eih) # skipped
        THEN Fail("decrypt")
        ELSE [user |-> user]

AbsDiff(a, b) == IF a < b THEN b - a ELSE a - b

(* Mutant: the timestamp is not looked at. *)
ReadAnyTime(result, packet, type, control, now) ==
    IF Failed(result) THEN result
    ELSE IF packet.body.type # type THEN Fail("type")
    ELSE Good(packet.body.addr, packet.body.len, control)

(* The checks behind the decryption, the same on both sides.               *)
ReadBody(result, packet, type, control, now) ==
    IF Failed(result) THEN result
    ELSE IF packet.body.type # type THEN Fail("type")
    ELSE IF AbsDiff(now, packet.body.ts) > MaxDiff THEN Fail("timestamp")
    ELSE Good(packet.body.addr, packet.body.len, control)

DecryptClient2022(method, key, users, packet, now) ==
    LET result == DecryptMessage(method, key, users, packet)
    IN  ReadBody(result, packet, "client",
            [session |-> packet.body.session, server |-> 0, id |-> packet.body.id,
             user |-> IF Failed(result) THEN NoUser ELSE result.user], now)

DecryptServer2022(method, key, packet, now) ==
    ReadBody(DecryptMessage(method, key, {}, packet), packet, "server",
        [session |-> packet.body.client, server |-> packet.body.session, id |-> packet.body.id,
         user |-> NoUser], now)

(* The dispatch on the cipher's category, one operator a direction.        *)
EncryptClientPayload(method, key, identityKeys, addr, len, control, now) ==
    CASE method = "none"   -> EncryptNone(addr, len)
      [] method = "stream" -> EncryptStream(key, addr, len)
      [] method = "aead"   -> EncryptAead(key, addr, len)
      [] OTHER             -> EncryptClient2022(method, key, identityKeys, addr, len, control, now)

EncryptServerPayload(method, key, addr, len, control, now) ==
    CASE method = "none"   -> EncryptNone(addr, len)
      [] method = "stream" -> EncryptStream(key, addr, len)
      [] method = "aead"   -> EncryptAead(key, addr, len)
      [] OTHER             -> EncryptServer2022(method, key, addr, len, control, now)

DecryptClientPayload(method, key, users, packet, now) ==
    CASE method = "none"   -> DecryptNone(packet)
      [] method = "stream" -> DecryptStream(key, packet)
      [] method = "aead"   -> DecryptAead(key, packet)
      [] OTHER             -> DecryptClient2022(method, key, users, packet, now)

DecryptServerPayload(method, key, packet, now) ==
    CASE method = "none"   -> DecryptNone(packet)
      [] method = "stream" -> DecryptStream(key, packet)
      [] method = "aead"   -> DecryptAead(key, packet)
      [] OTHER             -> DecryptServer2022(method, key, packet, now)
=============================================================================
