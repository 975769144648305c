---------------------------- MODULE CipherCache -----------------------------
(***************************************************************************)
(* The ciphers of AEAD-2022 UDP packets are kept in a cache of the thread, *)
(* under the method, the ADDRESS of the key and the session.  A local      *)
(* association's ProxySocket owns a copy of its server's key; when the     *)
(* socket fails the copy is freed, the association keeps its session, and  *)
(* the next socket, perhaps to another server, gets a copy of its own.     *)
(* All servers use the same method.                                        *)
(***************************************************************************)
EXTENDS Naturals, FiniteSets, TLC

CONSTANTS
    Servers,     \* the balancer's servers; each has its own key
    Places,      \* addresses the allocator may return for a copy of a key
    Duration,    \* CIPHER_CACHE_DURATION in ticks
    Limit,       \* CIPHER_CACHE_LIMIT
    MaxSessions  \* bound

VARIABLES
    socket,      \* proxied_socket: its server and the place of its key, or None
    session,     \* client_session_id
    cache,       \* CIPHER_CACHE: <<place, session>> to the key the cipher was made of and its age
    sent         \* the last packet: whose key it is encrypted with, and whose server it went to

vars == <<socket, session, cache, sent>>

None == [server |-> "none", place |-> 0]
Nothing == [key |-> "none", server |-> "none"]

Init == socket = None /\ session = 1 /\ cache = <<>> /\ sent = Nothing

(* dispatch_received_proxied_packet connects to the best server of the     *)
(* moment; from_socket copies the key to a place that is free.             *)
Connect ==
    /\ socket = None
    /\ \E server \in Servers, place \in Places : socket' = [server |-> server, place |-> place]
    /\ UNCHANGED <<session, cache, sent>>

(* The cache drops its oldest entry over the limit.                        *)
Room == IF Cardinality(DOMAIN cache) < Limit THEN cache
        ELSE LET old == CHOOSE k \in DOMAIN cache : \A l \in DOMAIN cache : cache[k].age >= cache[l].age
             IN  [k \in DOMAIN cache \ {old} |-> cache[k]]

get_cipher(place, key) ==
    LET k == <<place, session>>
    IN  IF k \in DOMAIN cache THEN [cache EXCEPT ![k].age = 0]
        ELSE (k :> [key |-> key, age |-> 0]) @@ Room

(* encrypt_message with the cipher that get_cipher returns.                *)
Send ==
    /\ socket # None
    /\ cache' = get_cipher(socket.place, socket.server)
    /\ sent' = [key |-> cache'[<<socket.place, session>>].key, server |-> socket.server]
    /\ UNCHANGED <<socket, session>>

(* A send or receive failed: proxied_socket = None frees socket and key.   *)
SocketFails ==
    /\ socket # None
    /\ socket' = None
    /\ UNCHANGED <<session, cache, sent>>

(* The packet ids ran out: a new socket and a new session.                 *)
RenewSession ==
    /\ session < MaxSessions
    /\ socket' = None /\ session' = session + 1
    /\ UNCHANGED <<cache, sent>>

Tick ==
    /\ cache # <<>>
    /\ cache' = [k \in {l \in DOMAIN cache : cache[l].age < Duration} |-> [cache[k] EXCEPT !.age = @ + 1]]
    /\ UNCHANGED <<socket, session, sent>>

Next == Connect \/ Send \/ SocketFails \/ RenewSession \/ Tick

Spec == Init /\ [][Next]_vars

(* get_cipher says of the key's place "the address of it won't change": if *)
(* that were so, every packet would be encrypted with the key of the       *)
(* server it goes to.                                                      *)
CipherFitsTheServer == sent.key = sent.server
=============================================================================
