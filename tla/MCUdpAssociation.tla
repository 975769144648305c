-------------------------- MODULE MCUdpAssociation --------------------------
(***************************************************************************)
(* Bounds: a counter that overflows after two packets, a window shorter    *)
(* than the ids in use, and a filter that expires exactly when the last    *)
(* timestamp of a packet it has seen does.                                 *)
(***************************************************************************)
EXTENDS UdpAssociation

MCServerPackets == [session : {"a"}, id : {0, 1}] \union [session : {"b"}, id : {1}]
MCClockSkews == {-MaxDiff, 0}
=============================================================================
