------------------------------ MODULE MCPacketFeed ------------------------------
(* Two protocols; ring, answers and table short enough to overflow. *)
EXTENDS PacketFeed, TLC

CallSymmetry == Permutations(Calls)
================================================================================
