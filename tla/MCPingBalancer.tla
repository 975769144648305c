--------------------------- MODULE MCPingBalancer ---------------------------
(***************************************************************************)
(* Server lists: none; a server of one protocol before one of both; two    *)
(* that compete, the score of one of which saturates when it fails.        *)
(***************************************************************************)
EXTENDS PingBalancer

Tcp(inverse) == [t \in Mode |-> IF t = "tcp" THEN inverse ELSE 0]
Udp  == [t \in Mode |-> IF t = "udp" THEN 1 ELSE 0]
Both == [t \in Mode |-> 1]

MCConfigs == {<<>>, <<Udp, Both>>, <<Tcp(4), Tcp(1)>>}
=============================================================================
