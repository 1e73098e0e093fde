---------------------------- MODULE MCPacketList ----------------------------
(***************************************************************************)
(* An instance of PacketList for TLC: three packets of one or two bytes.   *)
(***************************************************************************)
EXTENDS PacketList

CONSTANTS head, n1, n2, n3

MCNode == {n1, n2, n3}
MCPayloads == {<<1>>, <<2, 3>>}
=============================================================================
