----------------------------- MODULE TcpCipher ------------------------------
(***************************************************************************)
(* One direction of an encrypted TCP connection, from the plain socket     *)
(* that CopyBuffer reads to the plain bytes the other end hands out:       *)
(*                                                                         *)
(*   plain bytes -> CopyBuffer -> ProxyClientStream (first packet)         *)
(*      -> EncryptedWriter -> TCP -> DecryptedReader -> plain bytes        *)
(*                                                                         *)
(* for the stream, AEAD and AEAD-2022 ciphers and for no cipher at all.    *)
(* Plain bytes are the numbers 1, 2, 3, ...; the wire carries tokens: two  *)
(* for a salt, one for an encrypted length or 2022 header, one for each    *)
(* byte and one for a chunk's tag, so that the network may deliver any     *)
(* part of a packet.  The network may also cut the connection or damage a  *)
(* token.                                                                  *)
(***************************************************************************)
EXTENDS Naturals, Sequences, SequencesExt

CONSTANTS
    Methods,    \* the cipher categories: "none", "stream", "aead", "aead2022"
    Policies,   \* the replay policies: "Default", "Detect", "Ignore", "Reject"
    MaxBytes,   \* bound: plain bytes the source offers
    MaxPacket,  \* MAX_PACKET_SIZE: payload of one chunk
    FirstMax,   \* the most a caller passes to the connection's first write
    CopyMax,    \* size of CopyBuffer's buffer
    SinkMax     \* room in the buffer the receiving side reads into

ASSUME MethodsAssumption == Methods \subseteq {"none", "stream", "aead", "aead2022"}
ASSUME SizesAssumption ==
    MaxBytes \in Nat /\ MaxPacket \in Nat /\ FirstMax \in Nat /\ CopyMax \in Nat /\ SinkMax \in Nat

VARIABLES
    conn,       \* what does not change: method, who writes, policy, history
    copy,       \* CopyBuffer: bytes pos+1..cap are read and not yet written
    writer,     \* ProxyClientStream's writer_state and EncryptedWriter; and, for
                \* the properties, where on the wire its packets end
    wire,       \* tokens in flight, the TCP connection's state, whether one was damaged;
                \* and, for the properties, how many were read
    reader,     \* DecryptedReader
    out,        \* units handed out: the request header's, then plain bytes
    end,        \* "running", "eof", "error": what the receiving side was told
    filter      \* check_nonce_replay has put this connection's salt in

cipherVars == <<conn, copy, writer, wire, reader, out, end, filter>>

(* Units of plain text: a byte is its number; the request header's address *)
(* and padding, and what a damaged token decrypts to, are outside 1..MaxBytes. *)
Addr    == 0
Pad     == MaxBytes + 1
Garbage == MaxBytes + 2

Salt      == <<<<"salt", 1>>, <<"salt", 2>>>>
Length(n) == <<"length", n>>
Header(n) == <<"header", n>>
Data(u)   == <<"data", u>>
Eih       == <<"eih", 0>>
Tag       == <<"tag", 0>>
Bad       == <<"bad", 0>>

(* What is fixed when a connection is made: the method, who sends, the     *)
(* receiver's replay policy, whether the salt was used before, whether the *)
(* response answers this request, the identity header, and the 2022 header. *)
(* The policy is of no consequence to AEAD-2022: see Rejected.  Without a  *)
(* cipher there is no salt to repeat.                                      *)
Connections ==
    {c \in [method : Methods, from : {"client", "server"}, policy : Policies, repeated : BOOLEAN,
            matched : BOOLEAN, eih : BOOLEAN,
            header : {"good", "stale", "wrong type", "unknown user"}] :
        /\ c.repeated => c.method # "none"
        /\ c.matched \/ (c.method = "aead2022" /\ c.from = "server")
        /\ c.method = "aead2022" => c.policy = "Default"
        /\ c.eih => c.method = "aead2022" /\ c.from = "client"
        /\ c.header # "good" => c.method = "aead2022"
        /\ c.header = "unknown user" => c.eih}

Chunked == conn.method \in {"aead", "aead2022"}
Is2022  == conn.method = "aead2022"
FromClient == conn.from = "client"

(* DecryptedReader::new of the three ciphers.                              *)
NewReader(state) == [state |-> state, buf |-> <<>>, plen |-> 0, key |-> TRUE, unchecked |-> TRUE,
                     decrypted |-> FALSE, short |-> FALSE]
NewStreamReader == NewReader("WaitSalt")
NewAeadReader   == NewReader("WaitSalt")
New2022Reader   == [NewReader("ReadHeader") EXCEPT !.unchecked = FALSE]

CipherInit ==
    /\ conn \in Connections
    /\ copy = [pos |-> 0, cap |-> 0, readDone |-> FALSE]
    /\ writer = [state |-> IF FromClient THEN "First" ELSE "Assemble",
                 greeted |-> FALSE, first |-> FromClient, buf |-> <<>>, ends |-> {0}]
    /\ wire = [q |-> <<>>, state |-> "open", damaged |-> FALSE, read |-> 0]
    /\ reader = CASE conn.method = "stream"   -> NewStreamReader
                  [] conn.method = "aead"     -> NewAeadReader
                  [] conn.method = "aead2022" -> New2022Reader
                  [] OTHER                    -> NewReader("Read")
    /\ out = <<>>
    /\ end = "running"
    /\ filter = FALSE

----------------------------------------------------------------------------
(* The sending side.                                                       *)

Pending == [i \in 1..(copy.cap - copy.pos) |-> copy.pos + i]

(* establish_tcp_tunnel: at most half a second is spent on the first read; *)
(* on a timeout the first packet carries no payload, at EOF none is sent.  *)
FirstRead ==
    /\ writer.state = "First"
    /\ \/ /\ copy.cap = 0
          /\ \E n \in 0..FirstMax :
                /\ n <= MaxBytes
                /\ copy' = [copy EXCEPT !.cap = n]
          /\ writer' = [writer EXCEPT !.state = "Assemble"]
          /\ UNCHANGED wire
       \/ /\ copy' = [copy EXCEPT !.readDone = TRUE]
          /\ writer' = [writer EXCEPT !.state = "Closed"]
          /\ wire' = [wire EXCEPT !.state = IF @ = "open" THEN "fin" ELSE @]
    /\ UNCHANGED <<conn, reader, out, end, filter>>

(* Mutant: more is read while a write is pending. *)
CopyReadEager ==
    /\ writer.state \in {"Assemble", "Writing"}
    /\ ~writer.first
    /\ copy.cap < MaxBytes
    /\ copy' = [copy EXCEPT !.cap = @ + 1]
    /\ UNCHANGED <<conn, writer, wire, reader, out, end, filter>>

(* CopyBuffer::poll_copy reads only when everything read is written.       *)
CopyRead ==
    /\ writer.state = "Assemble"
    /\ ~writer.first
    /\ copy.pos = copy.cap
    /\ ~copy.readDone
    /\ \/ \E n \in 1..CopyMax :
             /\ copy.cap + n <= MaxBytes
             /\ copy' = [copy EXCEPT !.cap = @ + n]
       \/ copy' = [copy EXCEPT !.readDone = TRUE]
    /\ UNCHANGED <<conn, writer, wire, reader, out, end, filter>>

(* make_first_packet_buffer: the request header goes out with the first    *)
(* payload; AEAD-2022 pads it when there is none.                          *)
FirstPacket(payload) ==
    <<Addr>> \o (IF Is2022 /\ payload = <<>> THEN <<Pad>> ELSE <<>>) \o payload

(* What one call of poll_write_encrypted takes of its buffer.              *)
Taken(content) ==
    IF Chunked THEN SubSeq(content, 1, IF Len(content) < MaxPacket THEN Len(content) ELSE MaxPacket)
               ELSE content

(* The packets poll_write_encrypted assembles: the salt goes before the    *)
(* first, and AEAD-2022 puts the first length into its header, behind the  *)
(* identity headers if there are any.                                      *)
Body(payload) == [i \in DOMAIN payload |-> Data(payload[i])]

StreamPacket(payload) == (IF writer.greeted THEN <<>> ELSE Salt) \o Body(payload)

AeadPacket(payload) ==
    (IF writer.greeted THEN <<>> ELSE Salt) \o <<Length(Len(payload))>> \o Body(payload) \o <<Tag>>

Identity == IF conn.eih THEN <<Eih>> ELSE <<>>

Aead2022Packet(payload) ==
    (IF writer.greeted THEN <<Length(Len(payload))>> ELSE Salt \o Identity \o <<Header(Len(payload))>>)
        \o Body(payload) \o <<Tag>>

Packet(payload) ==
    CASE conn.method = "stream"   -> StreamPacket(payload)
      [] conn.method = "aead"     -> AeadPacket(payload)
      [] conn.method = "aead2022" -> Aead2022Packet(payload)
      [] OTHER                    -> Body(payload)

(* Mutant: the count is that of a full packet. *)
WrittenFull == MaxPacket

(* The count poll_write returns when the packet is out: the length of the  *)
(* buffer of the call that finishes, cut to MAX_PACKET_SIZE; for the first *)
(* packet, of the caller's whole buffer.                                   *)
Written == IF writer.first THEN Len(Pending) ELSE Len(Taken(Pending))

(* poll_write: assembles a packet unless one is half written, and writes   *)
(* the k tokens the socket takes.  Without a cipher a short write is       *)
(* reported as it is.                                                      *)
PollWrite ==
    LET payload == Taken(IF writer.first THEN FirstPacket(Pending) ELSE Pending)
        fresh   == writer.state = "Assemble"
        packet  == IF fresh THEN Packet(payload) ELSE writer.buf
    IN  /\ writer.state = "Writing" \/ (fresh /\ (writer.first \/ copy.pos < copy.cap))
        /\ wire.state = "open"
        /\ \E k \in 0..Len(packet) :
              /\ k > 0 \/ fresh
              /\ wire' = [wire EXCEPT !.q = @ \o SubSeq(packet, 1, k)]
              /\ IF k = Len(packet) \/ (conn.method = "none" /\ k > 0)
                 THEN /\ writer' = [writer EXCEPT
                                      !.state = "Assemble", !.first = FALSE, !.greeted = TRUE, !.buf = <<>>,
                                      !.ends = IF fresh THEN @ \cup {Max(@) + Len(packet)} ELSE @]
                      /\ copy' = [copy EXCEPT !.pos = @ + IF conn.method = "none" /\ ~writer.first
                                                          THEN k ELSE Written]
                 ELSE /\ writer' = [writer EXCEPT
                                      !.state = "Writing", !.greeted = TRUE,
                                      !.buf = SubSeq(packet, k + 1, Len(packet)),
                                      !.ends = IF fresh THEN @ \cup {Max(@) + Len(packet)} ELSE @]
                      /\ UNCHANGED copy
        /\ UNCHANGED <<conn, reader, out, end, filter>>

(* poll_copy at EOF, and transfer_one_direction's poll_shutdown after it.  *)
Shutdown ==
    /\ writer.state = "Assemble"
    /\ ~writer.first
    /\ copy.pos = copy.cap
    /\ copy.readDone
    /\ writer' = [writer EXCEPT !.state = "Closed"]
    /\ wire' = [wire EXCEPT !.state = IF @ = "open" THEN "fin" ELSE @]
    /\ UNCHANGED <<conn, copy, reader, out, end, filter>>

----------------------------------------------------------------------------
(* The network.                                                            *)

(* The connection ends while tokens are still on their way.                *)
Cut ==
    /\ wire.state # "cut"
    /\ \E n \in 0..Len(wire.q) : wire' = [wire EXCEPT !.q = SubSeq(@, 1, n), !.state = "cut"]
    /\ UNCHANGED <<conn, copy, writer, reader, out, end, filter>>

Damage ==
    /\ ~wire.damaged
    /\ \E i \in DOMAIN wire.q : wire' = [wire EXCEPT !.q[i] = Bad, !.damaged = TRUE]
    /\ UNCHANGED <<conn, copy, writer, reader, out, end, filter>>

----------------------------------------------------------------------------
(* The receiving side.                                                     *)

(* check_nonce_replay: AEAD-2022 always rejects a repeated salt; otherwise *)
(* the policy decides, and only Detect and Reject look at the filter.      *)
Checked  == Is2022 \/ conn.policy \in {"Detect", "Reject"}
Rejected == conn.repeated /\ (Is2022 \/ conn.policy = "Reject")

(* How much poll_read_exact of each cipher waits for.                      *)
StreamNeed == IF reader.state = "WaitSalt" THEN Len(Salt) ELSE SinkMax

(* Mutant: the chunk's tag is not waited for. *)
AeadNeedWithoutTag ==
    CASE reader.state = "WaitSalt"   -> Len(Salt)
      [] reader.state = "ReadLength" -> 1
      [] OTHER                       -> reader.plen

AeadNeed ==
    CASE reader.state = "WaitSalt"   -> Len(Salt)
      [] reader.state = "ReadLength" -> 1
      [] OTHER                       -> reader.plen + 1

HeaderLen == Len(Salt) + Len(Identity) + 1

Aead2022Need ==
    CASE reader.state = "ReadHeader" -> HeaderLen
      [] reader.state = "ReadLength" -> 1
      [] OTHER                       -> reader.plen + 1

Need ==
    CASE conn.method = "aead"     -> AeadNeed
      [] conn.method = "aead2022" -> Aead2022Need
      [] OTHER                    -> StreamNeed

Intact(tokens) == reader.key /\ Bad \notin Range(tokens)

FailRead(r) ==
    /\ reader' = r
    /\ end' = "error"
    /\ UNCHANGED <<out, filter>>

Goto(r) ==
    /\ reader' = [r EXCEPT !.buf = <<>>]
    /\ UNCHANGED <<out, end>>

(* poll_read_iv: a stream cipher checks its IV at once.                    *)
GotIv(buf) ==
    LET next == [reader EXCEPT !.buf = <<>>, !.key = Bad \notin Range(buf), !.state = "Read"]
    IN  IF Rejected THEN FailRead(next)
                    ELSE Goto(next) /\ filter' = (filter \/ Checked)

(* Mutant: the salt is checked as soon as it is read. *)
GotSaltChecks(buf) ==
    LET next == [reader EXCEPT !.key = Bad \notin Range(buf), !.state = "ReadLength", !.unchecked = FALSE]
    IN  IF Rejected THEN FailRead(next)
                    ELSE Goto(next) /\ filter' = (filter \/ Checked)

(* poll_read_salt: an AEAD cipher keeps the salt for its first chunk.      *)
GotSalt(buf) ==
    /\ Goto([reader EXCEPT !.key = Bad \notin Range(buf), !.state = "ReadLength"])
    /\ UNCHANGED filter

(* poll_read_header of AEAD-2022: the whole header in one read, a user of  *)
(* the server's, a header that decrypts, of the other side's type and not  *)
(* too old; then, at the server only, the salt.                            *)
GotHeader(buf) ==
    LET whole == Len(buf) = HeaderLen
        next  == [reader EXCEPT !.state = "ReadData", !.short = ~whole, !.decrypted = whole,
                     !.plen = IF whole THEN buf[Len(buf)][2] ELSE 0]
    IN  IF ~whole \/ ~Intact(buf) \/ conn.header # "good" \/ (FromClient /\ Rejected)
        THEN FailRead([reader EXCEPT !.short = ~whole])
        ELSE Goto(next) /\ filter' = (filter \/ (FromClient /\ Checked))

(* poll_read_length and decrypt_length.                                    *)
GotLength(buf) ==
    IF ~Intact(buf)
    THEN FailRead(reader)
    ELSE Goto([reader EXCEPT !.state = "ReadData", !.plen = buf[1][2]]) /\ UNCHANGED filter

Buffered(buf) == [reader EXCEPT !.buf = [i \in 1..reader.plen |-> buf[i][2]], !.state = "BufferedData",
                                !.unchecked = FALSE, !.decrypted = TRUE]

(* poll_read_data of AEAD: decrypt the chunk, then check the salt if this  *)
(* is the first one (#442).                                                *)
GotAeadData(buf) ==
    IF ~Intact(buf) \/ (reader.unchecked /\ Rejected)
    THEN FailRead([reader EXCEPT !.buf = <<>>])
    ELSE /\ reader' = Buffered(buf)
         /\ filter' = (filter \/ (reader.unchecked /\ Checked))
         /\ UNCHANGED <<out, end>>

(* poll_read_data of AEAD-2022.                                            *)
Got2022Data(buf) ==
    IF ~Intact(buf)
    THEN FailRead([reader EXCEPT !.buf = <<>>])
    ELSE reader' = Buffered(buf) /\ UNCHANGED <<out, end, filter>>

(* The stream cipher hands out whatever a read returns, damaged or not.    *)
GotPlain(buf) ==
    /\ out' = out \o [i \in DOMAIN buf |-> IF Intact(<<buf[i]>>) THEN buf[i][2] ELSE Garbage]
    /\ UNCHANGED <<reader, end, filter>>

(* The loops of poll_read_decrypted, by state.                             *)
AeadRead(buf) ==
    CASE reader.state = "WaitSalt"   -> GotSalt(buf)
      [] reader.state = "ReadLength" -> GotLength(buf)
      [] OTHER                       -> GotAeadData(buf)

Aead2022Read(buf) ==
    CASE reader.state = "ReadHeader" -> GotHeader(buf)
      [] reader.state = "ReadLength" -> GotLength(buf)
      [] OTHER                       -> Got2022Data(buf)

StreamRead(buf) == IF reader.state = "WaitSalt" THEN GotIv(buf) ELSE GotPlain(buf)

(* A read that returned less than needed, unless less will do.             *)
Partial(buf) == Len(buf) < Need /\ reader.state \notin {"ReadHeader", "Read"}

(* One poll of the TCP socket, and what poll_read_decrypted makes of it.   *)
PollRead ==
    /\ end = "running"
    /\ reader.state # "BufferedData"
    /\ \E k \in 1..(Need - Len(reader.buf)) :
          /\ k <= Len(wire.q)
          /\ wire' = [wire EXCEPT !.q = SubSeq(@, k + 1, Len(@)), !.read = @ + k]
          /\ LET buf == reader.buf \o SubSeq(wire.q, 1, k)
             IN  \/ Partial(buf) /\ reader' = [reader EXCEPT !.buf = buf] /\ UNCHANGED <<out, end, filter>>
                 \/ ~Partial(buf) /\ CASE conn.method = "aead"      -> AeadRead(buf)
                                        [] conn.method = "aead2022"  -> Aead2022Read(buf)
                                        [] OTHER                     -> StreamRead(buf)
    /\ UNCHANGED <<conn, copy, writer>>

(* Mutant: the request salt of a response is not compared. *)
DeliverUnmatched ==
    /\ end = "running"
    /\ reader.state = "BufferedData"
    /\ out' = out \o reader.buf
    /\ reader' = [reader EXCEPT !.buf = <<>>, !.state = "ReadLength"]
    /\ UNCHANGED <<conn, copy, writer, wire, end, filter>>

(* BufferedData: hand out what fits.  ProxyClientStream compares the       *)
(* request salt of an AEAD-2022 response before it passes the first data.  *)
Deliver ==
    /\ end = "running"
    /\ reader.state = "BufferedData"
    /\ LET n == IF Len(reader.buf) < SinkMax THEN Len(reader.buf) ELSE SinkMax
           rest == SubSeq(reader.buf, n + 1, Len(reader.buf))
           next == [reader EXCEPT !.buf = rest, !.state = IF rest = <<>> THEN "ReadLength" ELSE @]
       IN  IF ~conn.matched
           THEN FailRead(next)
           ELSE /\ reader' = next
                /\ out' = out \o SubSeq(reader.buf, 1, n)
                /\ UNCHANGED <<end, filter>>
    /\ UNCHANGED <<conn, copy, writer, wire>>

(* Mutant: EOF before a chunk's data is taken for a clean end. *)
ReadEofInChunk ==
    /\ end = "running"
    /\ wire.q = <<>> /\ wire.state # "open"
    /\ reader.state # "BufferedData"
    /\ end' = IF reader.buf = <<>> THEN "eof" ELSE "error"
    /\ UNCHANGED <<conn, copy, writer, wire, reader, out, filter>>

(* The socket reports EOF: clean between two chunks (and before a 2022     *)
(* header), an error inside a salt, a length or a chunk.                   *)
ReadEof ==
    /\ end = "running"
    /\ wire.q = <<>> /\ wire.state # "open"
    /\ reader.state # "BufferedData"
    /\ end' = IF reader.buf = <<>> /\ reader.state \in {"ReadHeader", "ReadLength", "Read"}
              THEN "eof" ELSE "error"
    /\ UNCHANGED <<conn, copy, writer, wire, reader, out, filter>>

CipherNext ==
    \/ FirstRead \/ CopyRead \/ PollWrite \/ Shutdown
    \/ Cut \/ Damage
    \/ PollRead \/ Deliver \/ ReadEof

CipherSpec == CipherInit /\ [][CipherNext]_cipherVars

----------------------------------------------------------------------------
(* Properties.                                                             *)

CipherTypeOK ==
    /\ copy.pos \in 0..copy.cap /\ copy.cap \in 0..MaxBytes
    /\ writer.state \in {"First", "Assemble", "Writing", "Closed"}
    /\ wire.state \in {"open", "fin", "cut"}
    /\ reader.state \in {"WaitSalt", "ReadHeader", "ReadLength", "ReadData", "BufferedData", "Read"}
    /\ end \in {"running", "eof", "error"}
    /\ filter \in BOOLEAN

(* TcpRequestHeader::read_from: the server takes the address, and the      *)
(* padding if there is any, off the front of what the client sent.         *)
HeaderUnits(units) == IF Len(units) > 1 /\ units[2] = Pad THEN 2 ELSE 1
Payload(units) == IF FromClient THEN SubSeq(units, HeaderUnits(units) + 1, Len(units)) ELSE units

Stream == INSTANCE ByteStream WITH
    accepted <- copy.cap, received <- Payload(out), status <- end, cut <- wire.state = "cut"

StreamStep ==
    Chunked \/ ~wire.damaged => Stream!StreamNext \/ UNCHANGED Stream!streamVars

(* A connection that nothing damages behaves like a byte stream: in order, *)
(* complete at a clean end, nothing lost to partial reads and writes       *)
(* (poll_write and poll_read of the three ciphers).                        *)
ImplementsByteStream == Stream!StreamInit /\ [][StreamStep]_cipherVars

(* A chunked cipher reports a clean end only behind a whole chunk, or the  *)
(* salt before any: a connection cut inside a chunk is never taken for one *)
(* that was closed.                                                        *)
OnlyWholeChunks ==
    end = "eof" /\ Chunked => wire.read \in writer.ends \cup {Len(Salt)}

(* Only a salt whose owner proved to know the key gets into the filter     *)
(* (#442): a connection that decrypts to nothing leaves no trace there.    *)
OnlyAuthenticSalts ==
    filter /\ Chunked => reader.decrypted

(* Of a connection with a repeated salt, or of a response made for another *)
(* request, not one byte is handed out.                                    *)
Refused == \/ Rejected /\ (FromClient \/ ~Is2022)
           \/ ~conn.matched
           \/ conn.header # "good"

RefusedSilently == Refused => out = <<>>

(* Partial reads, short writes and buffer boundaries never fail a          *)
(* connection; only a fault, a refusal, an early close, or an AEAD-2022    *)
(* header that did not arrive in one piece does.                           *)
ErrorsHaveCauses ==
    end = "error" => \/ wire.damaged \/ wire.state = "cut" \/ Refused
                     \/ reader.short
                     \/ writer.ends = {0}

(* However a connection ends, it has its cause: the clean end of a chunked *)
(* cipher is behind a whole chunk, an error behind a fault or a refusal    *)
(* (poll_read of the three readers).                                       *)
EndsHaveCauses == CipherTypeOK /\ OnlyWholeChunks /\ ErrorsHaveCauses

(* Only what was decrypted counts: a connection that is refused hands out  *)
(* nothing, and one that decrypts to nothing fills no filter               *)
(* (check_nonce_replay behind the first chunk).                            *)
OnlyAuthentic == OnlyAuthenticSalts /\ RefusedSilently
=============================================================================
