------------------------------- MODULE MCTcp --------------------------------
(***************************************************************************)
(* The TCP side in one run: a connection's ciphers, its two relays and the *)
(* salt filters.  The three are independent of each other; part says which *)
(* of them a behaviour moves, while the others stay in one initial state.  *)
(***************************************************************************)
EXTENDS TcpCipher, TcpRelay, NonceReplay

VARIABLE part

vars == <<part, cipherVars, relayVars, nonceVars>>

Init ==
    /\ part \in {"cipher", "relay", "nonce"}
    /\ CipherInit /\ RelayInit /\ NonceInit
    /\ part # "cipher" => conn = CHOOSE c \in Connections : TRUE
    /\ part # "relay" => ~server.aead2022 /\ ~server.fastopen
    /\ part # "nonce" => request = [r \in Requests |-> 0]

CipherMoves == part = "cipher" /\ CipherNext /\ UNCHANGED <<part, relayVars, nonceVars>>
NonceMoves == part = "nonce" /\ NonceNext /\ UNCHANGED <<part, cipherVars, relayVars>>
LocalMoves == part = "relay" /\ LocalStep /\ UNCHANGED <<part, cipherVars, nonceVars>>
ServerMoves == part = "relay" /\ ServerStep /\ UNCHANGED <<part, cipherVars, nonceVars>>
OthersMove == part = "relay" /\ (Peers \/ Break) /\ UNCHANGED <<part, cipherVars, nonceVars>>

Next == CipherMoves \/ NonceMoves \/ LocalMoves \/ ServerMoves \/ OthersMove

(* A relay that can take a step takes one: its task is polled when woken.  *)
Spec == Init /\ [][Next]_vars /\ WF_vars(LocalMoves) /\ WF_vars(ServerMoves)
=============================================================================
