----------------------------- MODULE MCPacketStore -----------------------------
(* A ring of two that wraps, two protocols and two sources. *)
EXTENDS PacketStore
================================================================================
