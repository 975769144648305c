------------------------------ MODULE TcpRelay ------------------------------
(***************************************************************************)
(* A proxied TCP connection through its two relays: the local service      *)
(* (handle_tcp_client, establish_tcp_tunnel) and the server                *)
(* (TcpServerClient::serve), each of which ends in copy_bidirectional.     *)
(*                                                                         *)
(*   application --app-- local --mid-- server --far-- target               *)
(*                                                                         *)
(* A hop has two directions, "up" towards the target and "down"; each      *)
(* carries a count of bytes (that they arrive whole and in order is        *)
(* TcpCipher's) and a FIN.  Either end may drop its socket altogether.     *)
(***************************************************************************)
EXTENDS Naturals, FiniteSets

CONSTANT
    MaxData   \* bound: bytes each of application and target sends

ASSUME MaxDataAssumption == MaxData \in Nat

VARIABLES
    hop,      \* per hop: bytes and FIN of both directions, ends that dropped it
    local,    \* the local service's handler
    server,   \* the server's handler, its cipher and its connect_opts.tcp.fastopen
    ends,     \* application and target: what they sent and got
    fault     \* a timeout, a refusal or a broken connection has happened

relayVars == <<hop, local, server, ends, fault>>

Hops == {"app", "mid", "far"}
Dirs == {"up", "down"}

Left(n)  == IF n = "local" THEN "app" ELSE "mid"
Right(n) == IF n = "local" THEN "mid" ELSE "far"
From(n, d) == IF d = "up" THEN Left(n) ELSE Right(n)
To(n, d)   == IF d = "up" THEN Right(n) ELSE Left(n)

(* TransferState of the two directions of copy_bidirectional.              *)
Transfer == [d \in Dirs |-> "Running"]

RelayInit ==
    /\ hop = [h \in Hops |-> [open |-> h = "app", n |-> [d \in Dirs |-> 0],
                              fin |-> [d \in Dirs |-> FALSE], gone |-> {}]]
    /\ local = [st |-> "Accepted", copy |-> Transfer]
    /\ server \in [st : {"Idle"}, copy : {Transfer}, aead2022 : BOOLEAN, fastopen : BOOLEAN]
    /\ ends = [appSent |-> 0, appGot |-> 0, targetSent |-> 0, targetGot |-> 0, header |-> "none"]
    /\ fault = FALSE

----------------------------------------------------------------------------
(* Sockets.                                                                *)

Readable(h, d) == hop[h].n[d] > 0
AtEof(h, d) == hop[h].n[d] = 0 /\ (hop[h].fin[d] \/ hop[h].gone # {})
Broken(h) == hop[h].gone # {}

(* Writes and reads of a byte or of all there is, a FIN, and connecting.   *)
Put(f, h, d) == [f EXCEPT ![h].n[d] = @ + 1]
Take(f, h, d) == [f EXCEPT ![h].n[d] = @ - 1]
Drain(f, h, d) == [f EXCEPT ![h].n[d] = 0]
Fin(f, h, d) == [f EXCEPT ![h].fin[d] = TRUE]
Open(f, h) == [f EXCEPT ![h].open = TRUE]

(* A dropped socket whose two directions are finished goes unnoticed; in   *)
(* any other state the other end sees EOF or a reset.                      *)
Flushed(s, who, h) ==
    LET in == IF h = Left(who) THEN "up" ELSE "down" IN
    s.n[in] = 0 /\ s.fin["up"] /\ s.fin["down"]
Drop(f, h, who) == [f EXCEPT ![h].gone = IF f[h].open /\ ~Flushed(f[h], who, h) THEN @ \cup {who} ELSE @]

(* Dropping the handler closes both of its sockets.                        *)
DropBoth(n) == hop' = Drop(Drop(hop, Left(n), n), Right(n), n)

----------------------------------------------------------------------------
(* Application and target.                                                 *)

AppSend ==
    /\ ends.appSent < MaxData
    /\ ~hop["app"].fin["up"] /\ ~Broken("app")
    /\ hop' = Put(hop, "app", "up")
    /\ ends' = [ends EXCEPT !.appSent = @ + 1]
    /\ UNCHANGED <<local, server, fault>>

AppClose ==
    /\ ~hop["app"].fin["up"]
    /\ hop' = Fin(hop, "app", "up")
    /\ UNCHANGED <<local, server, ends, fault>>

AppRead ==
    /\ Readable("app", "down")
    /\ hop' = Take(hop, "app", "down")
    /\ ends' = [ends EXCEPT !.appGot = @ + 1]
    /\ UNCHANGED <<local, server, fault>>

TargetSend ==
    /\ hop["far"].open /\ ~Broken("far")
    /\ ends.targetSent < MaxData
    /\ ~hop["far"].fin["down"]
    /\ hop' = Put(hop, "far", "down")
    /\ ends' = [ends EXCEPT !.targetSent = @ + 1]
    /\ UNCHANGED <<local, server, fault>>

TargetClose ==
    /\ hop["far"].open
    /\ ~hop["far"].fin["down"]
    /\ hop' = Fin(hop, "far", "down")
    /\ UNCHANGED <<local, server, ends, fault>>

TargetRead ==
    /\ Readable("far", "up")
    /\ hop' = Take(hop, "far", "up")
    /\ ends' = [ends EXCEPT !.targetGot = @ + 1]
    /\ UNCHANGED <<local, server, fault>>

(* A connection breaks: both of its ends will see it.                      *)
Break ==
    /\ ~fault
    /\ \E h \in Hops : hop[h].open /\ ~Broken(h) /\ hop' = [hop EXCEPT ![h].gone = {"network"}]
    /\ fault' = TRUE
    /\ UNCHANGED <<local, server, ends>>

----------------------------------------------------------------------------
(* The local service.                                                      *)

(* connect_proxied: the server answers, refuses or times out.              *)
LocalConnect ==
    /\ local.st = "Accepted"
    /\ \/ /\ hop' = Open(hop, "mid")
          /\ local' = [local EXCEPT !.st = "FirstPacket"]
          /\ server' = [server EXCEPT !.st = "Accept"]
          /\ UNCHANGED fault
       \/ /\ DropBoth("local")
          /\ local' = [local EXCEPT !.st = "Done"]
          /\ fault' = TRUE
          /\ UNCHANGED server
    /\ UNCHANGED ends

(* establish_tcp_tunnel waits half a second for the first bytes: they go   *)
(* out behind the request header, a timeout sends the header alone, and an *)
(* EOF ends the tunnel before anything was sent.                           *)
LocalFirstPacket ==
    /\ local.st = "FirstPacket"
    /\ \/ /\ AtEof("app", "up") \/ Broken("app") \/ Broken("mid")
          /\ DropBoth("local")
          /\ local' = [local EXCEPT !.st = "Done"]
          /\ UNCHANGED ends
       \/ /\ ~Broken("mid")
          /\ \/ /\ Readable("app", "up")
                /\ hop' = Put(Take(hop, "app", "up"), "mid", "up")
             \/ /\ ~Readable("app", "up") /\ ~AtEof("app", "up")
                /\ UNCHANGED hop
          /\ \E h \in {"good", "bad"} : ends' = [ends EXCEPT !.header = h]
          /\ local' = [local EXCEPT !.st = "Copy"]
    /\ UNCHANGED <<server, fault>>

----------------------------------------------------------------------------
(* The server.                                                             *)

(* The accept loop, where the ACL may refuse the client's address.         *)
ServerAccept ==
    /\ server.st = "Accept"
    /\ \/ /\ server' = [server EXCEPT !.st = "Handshake"]
          /\ UNCHANGED <<hop, fault>>
       \/ /\ hop' = Drop(hop, "mid", "server")
          /\ server' = [server EXCEPT !.st = "Done"]
          /\ fault' = TRUE
    /\ UNCHANGED <<local, ends>>

(* The handshake succeeds; it meets EOF or its timeout; or what arrived is *)
(* no header: an AEAD-2022 connection is reset, another is drained without *)
(* an answer (ignore_until_end).                                           *)
ServerHandshake ==
    /\ server.st = "Handshake"
    /\ \/ /\ ends.header = "good" /\ ~Broken("mid")
          /\ server' = [server EXCEPT !.st = "Connect"]
          /\ UNCHANGED <<hop, fault>>
       \/ /\ ends.header = "none" \/ Broken("mid")
          /\ hop' = Drop(hop, "mid", "server")
          /\ server' = [server EXCEPT !.st = "Done"]
          /\ fault' = TRUE
       \/ /\ ends.header = "bad" /\ ~Broken("mid")
          /\ IF server.aead2022 THEN /\ hop' = Drop(hop, "mid", "server")
                              /\ server' = [server EXCEPT !.st = "Done"]
                         ELSE /\ server' = [server EXCEPT !.st = "Ignore"]
                              /\ UNCHANGED hop
          /\ fault' = TRUE
    /\ UNCHANGED <<local, ends>>

IgnoreUntilEnd ==
    /\ server.st = "Ignore"
    /\ \/ /\ Readable("mid", "up")
          /\ hop' = Drain(hop, "mid", "up")
          /\ UNCHANGED server
       \/ /\ AtEof("mid", "up")
          /\ hop' = Drop(hop, "mid", "server")
          /\ server' = [server EXCEPT !.st = "Done"]
    /\ UNCHANGED <<local, ends, fault>>

(* check_outbound_blocked, then the connection to the target; with fast    *)
(* open the connection is made by the first write.                         *)
ServerConnect ==
    /\ server.st = "Connect"
    /\ \/ /\ server' = [server EXCEPT !.st = IF server.fastopen THEN "FirstRead" ELSE "Copy"]
          /\ hop' = IF server.fastopen THEN hop ELSE Open(hop, "far")
          /\ UNCHANGED fault
       \/ /\ hop' = Drop(hop, "mid", "server")
          /\ server' = [server EXCEPT !.st = "Done"]
          /\ fault' = TRUE
    /\ UNCHANGED <<local, ends>>

(* The first read of a fast-open connection: bytes, EOF, or half a second  *)
(* without either.                                                         *)
ServerFirstRead ==
    /\ server.st = "FirstRead"
    /\ \/ /\ AtEof("mid", "up")
          /\ hop' = Drop(hop, "mid", "server")
          /\ server' = [server EXCEPT !.st = "Done"]
       \/ /\ Readable("mid", "up")
          /\ hop' = Open(Put(Take(hop, "mid", "up"), "far", "up"), "far")
          /\ server' = [server EXCEPT !.st = "Copy"]
       \/ /\ ~Readable("mid", "up") /\ ~AtEof("mid", "up")
          /\ hop' = Open(hop, "far")
          /\ server' = [server EXCEPT !.st = "Copy"]
    /\ UNCHANGED <<local, ends, fault>>

----------------------------------------------------------------------------
(* copy_bidirectional, at either relay.                                    *)

Handler(n) == IF n = "local" THEN local ELSE server
SetHandler(n, r) == IF n = "local" THEN local' = r /\ UNCHANGED server
                                   ELSE server' = r /\ UNCHANGED local

(* Mutant: the writer is not shut down. *)
SkipShutdown(h, d) == hop

PollShutdown(h, d) == Fin(hop, h, d)

(* One turn of transfer_one_direction: move a byte, or at EOF shut the     *)
(* writer down; an error on either socket ends both directions.            *)
TransferOneDirection(n, d) ==
    LET r == Handler(n)
    IN  /\ r.st = "Copy"
        /\ r.copy[d] = "Running"
        /\ \/ /\ Readable(From(n, d), d) /\ ~Broken(To(n, d))
              /\ hop' = Put(Take(hop, From(n, d), d), To(n, d), d)
              /\ SetHandler(n, r)
           \/ /\ AtEof(From(n, d), d)
              /\ hop' = PollShutdown(To(n, d), d)
              /\ SetHandler(n, [r EXCEPT !.copy[d] = "Done"])
           \/ /\ Broken(From(n, d)) \/ (Readable(From(n, d), d) /\ Broken(To(n, d)))
              /\ DropBoth(n)
              /\ SetHandler(n, [r EXCEPT !.st = "Done"])
        /\ UNCHANGED <<ends, fault>>

(* Mutant: the first direction to finish ends the copy. *)
EitherDone(r) == r.copy["up"] = "Done" \/ r.copy["down"] = "Done"

(* CopyBidirectional::poll_impl is ready when both directions are.         *)
BothDone(r) == r.copy["up"] = "Done" /\ r.copy["down"] = "Done"

CopyBidirectional(n) ==
    /\ Handler(n).st = "Copy"
    /\ BothDone(Handler(n))
    /\ DropBoth(n)
    /\ SetHandler(n, [Handler(n) EXCEPT !.st = "Done"])
    /\ UNCHANGED <<ends, fault>>

LocalStep == \/ LocalConnect \/ LocalFirstPacket
             \/ TransferOneDirection("local", "up") \/ TransferOneDirection("local", "down")
             \/ CopyBidirectional("local")

ServerStep == \/ ServerAccept \/ ServerHandshake \/ IgnoreUntilEnd \/ ServerConnect \/ ServerFirstRead
              \/ TransferOneDirection("server", "up") \/ TransferOneDirection("server", "down")
              \/ CopyBidirectional("server")

Peers == AppSend \/ AppClose \/ AppRead \/ TargetSend \/ TargetClose \/ TargetRead

RelayNext == LocalStep \/ ServerStep \/ Peers \/ Break

RelaySpec == RelayInit /\ [][RelayNext]_relayVars

----------------------------------------------------------------------------
Hop == [open : BOOLEAN, n : [Dirs -> Nat], fin : [Dirs -> BOOLEAN],
        gone : SUBSET {"network", "local", "server"}]

RelayTypeOK ==
    /\ hop \in [Hops -> Hop]
    /\ \A h \in Hops, d \in Dirs : hop[h].n[d] <= MaxData
    /\ local \in [st : {"Accepted", "FirstPacket", "Copy", "Done"},
                  copy : [Dirs -> {"Running", "Done"}]]
    /\ server \in [st : {"Idle", "Accept", "Handshake", "Ignore", "Connect", "FirstRead", "Copy", "Done"},
                   copy : [Dirs -> {"Running", "Done"}], aead2022 : BOOLEAN, fastopen : BOOLEAN]
    /\ ends \in [appSent : 0..MaxData, appGot : Nat, targetSent : 0..MaxData, targetGot : Nat,
                 header : {"none", "good", "bad"}]
    /\ fault \in BOOLEAN

(* Closing one direction leaves the other open: when both relays are done  *)
(* and nothing broke, each side has been sent all that the other gave      *)
(* (CopyBidirectional::poll_impl).                                         *)
HalfCloseKeepsTheRest ==
    RelayTypeOK /\ (local.st = "Done" /\ server.st = "Done" /\ ~fault /\ ends.header = "good"
    => /\ ends.appGot + hop["app"].n["down"] = ends.targetSent
       /\ ends.targetGot + hop["far"].n["up"] = ends.appSent)

(* The inductive invariant behind it.  Bytes are on some hop or delivered; *)
(* only a faulty connection drops any.                                     *)
OnTheWay(d) == hop["app"].n[d] + hop["mid"].n[d] + hop["far"].n[d]

BytesKept ==
    /\ OnTheWay("down") + ends.appGot = ends.targetSent
    /\ OnTheWay("up") + ends.targetGot <= ends.appSent
    /\ ~fault => OnTheWay("up") + ends.targetGot = ends.appSent

(* The stages of the two handlers, and the FINs only they can have sent.   *)
Stages ==
    /\ local.st \in {"Accepted", "FirstPacket"} => local.copy = Transfer /\ ends.header = "none"
    /\ local.st = "Accepted" => server.st = "Idle"
    /\ server.st \in {"Connect", "FirstRead", "Copy"} => ends.header = "good"
    /\ server.st \notin {"Copy", "Done"} => server.copy = Transfer /\ ~hop["far"].open
    /\ server.st = "Copy" => hop["far"].open
    /\ server.st = "Ignore" => fault
    /\ ~hop["far"].open => ends.targetSent = 0 /\ ends.targetGot = 0 /\ hop["far"].n["up"] = 0
    /\ \A n \in {"local", "server"}, d \in Dirs :
          hop[To(n, d)].fin[d] => Handler(n).copy[d] = "Done"

(* A fast-open server that meets EOF before it has connected to the target *)
(* lets go at once: the application had nothing to send.                   *)
EndedEarly == server.st = "Done" /\ ~hop["far"].open

NothingToSend ==
    ~fault /\ EndedEarly => /\ ends.header = "good"
                           /\ hop["app"].fin["up"]
                           /\ hop["app"].n["up"] = 0 /\ hop["mid"].n["up"] = 0

(* As long as nothing broke, a direction is done when its source is read   *)
(* to the end and its FIN passed on, and a handler when both are.          *)
Quiet ==
    /\ ~fault
    /\ local.st \in {"Accepted", "FirstPacket"} \/ (ends.header = "good" /\ ~EndedEarly)

DoneIsFlushed ==
    Quiet => /\ \A h \in Hops : hop[h].gone = {}
             /\ \A n \in {"local", "server"} :
                   /\ Handler(n).st = "Done" => BothDone(Handler(n))
                   /\ \A d \in Dirs : Handler(n).copy[d] = "Done" =>
                         /\ hop[From(n, d)].n[d] = 0 /\ hop[From(n, d)].fin[d]
                         /\ hop[To(n, d)].fin[d]

(* The relays keep every byte on some hop, and a direction that is done    *)
(* has been read to its end (transfer_one_direction).                      *)
RelayInv == RelayTypeOK /\ BytesKept /\ Stages /\ NothingToSend /\ DoneIsFlushed

NobodySends == hop["app"].fin["up"] /\ (hop["far"].fin["down"] \/ server.st = "Done")
BothEnded == local.st = "Done" /\ server.st = "Done"

(* Once the application has closed, and the target too or the server has   *)
(* given up, both relays let go of their sockets: copy_bidirectional ends. *)
RelaysEnd == NobodySends ~> BothEnded
=============================================================================
