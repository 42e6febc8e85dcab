--------------------------- MODULE MCPacketQueues ---------------------------
(* Instances of PacketQueues for TLC. *)
EXTENDS PacketQueues
=============================================================================
