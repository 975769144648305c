--------------------------- MODULE MCPacketWindow ---------------------------
(***************************************************************************)
(* Four blocks of two bits, so WINDOW_SIZE is 6, and ids far enough to     *)
(* recycle every block and to jump over a whole ring.                      *)
(***************************************************************************)
EXTENDS PacketWindow

MCIds == 0 .. 13
=============================================================================
