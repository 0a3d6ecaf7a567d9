-------------------------- MODULE MCPacketScanner --------------------------
(* The packet scanner on two-bit bytes and short packets, for TLC.         *)
EXTENDS PacketScanner
=============================================================================
