--------------------------------- MODULE Parser ---------------------------------
(***************************************************************************)
(* sensor_node/parser.py: how a frame is decoded.  A frame is what its     *)
(* bytes say, as far as it reaches:                                        *)
(*   len          its length in bytes                                      *)
(*   tags         802.1Q tags in front of the real EtherType               *)
(*   ipv4         whether that EtherType is 0x0800                         *)
(*   version, ihl the first octet of the IP header                         *)
(*   proto        "tcp", "udp", "icmp" or another protocol                 *)
(*   doff         the TCP data offset, in words                            *)
(*   src          whom it comes from                                       *)
(*   sport, dport its ports                                                *)
(***************************************************************************)
EXTENDS Integers, FiniteSets, FiniteSetsExt

WellFormed(f) ==
    /\ f.len \in Nat /\ f.tags \in Nat
    /\ f.ihl \in 0..15 /\ f.doff \in 0..15

EthHeaderLen == 14
VlanTagLen == 4

(* The least a transport header may have, and how much of it is looked at. *)
HeaderLen == [tcp |-> 20, udp |-> 8, icmp |-> 4]
UnpackedLen == [tcp |-> 20, udp |-> 8, icmp |-> 2]

(* Mutant: tags are skipped without a look at the length. *)
TagsRead_Unchecked(f) == f.tags

(* The loop over tags stops early in a frame that is cut among them. *)
TagsRead(f) == Max({t \in 0..f.tags : f.len >= EthHeaderLen + VlanTagLen * t})

IpOffset(f) == EthHeaderLen + VlanTagLen * TagsRead(f)
TransportOffset(f) == IpOffset(f) + 4 * f.ihl

(* Mutant: the transport header is looked for behind an IP header without options. *)
Complete_NoOptions(f) ==
    f.proto \in DOMAIN HeaderLen => f.len >= IpOffset(f) + 20 + HeaderLen[f.proto]

Complete(f) == f.proto \in DOMAIN HeaderLen => f.len >= TransportOffset(f) + HeaderLen[f.proto]

IsIpv4(f) == TagsRead(f) = f.tags /\ f.ipv4

parse(f) ==
    CASE f.len < EthHeaderLen -> "malformed"
      [] f.len >= EthHeaderLen /\ ~IsIpv4(f) -> "non_ipv4"
      [] f.len >= EthHeaderLen /\ IsIpv4(f) ->
            IF f.len >= IpOffset(f) + 20 /\ f.version = 4 /\ f.ihl >= 5 /\ Complete(f)
            THEN "parsed" ELSE "malformed"

(* The bytes that are unpacked on the way there: [from, to). *)
Reads(f) ==
    IF f.len < EthHeaderLen THEN {}
    ELSE {<<0, EthHeaderLen>>}
         \cup {<<EthHeaderLen + VlanTagLen * (t - 1) + 2, EthHeaderLen + VlanTagLen * t>> : t \in 1..TagsRead(f)}
         \cup (IF IsIpv4(f) /\ f.len >= IpOffset(f) + 20
               THEN {<<IpOffset(f), IpOffset(f) + 20>>} ELSE {})
         \cup (IF parse(f) = "parsed" /\ f.proto \in DOMAIN HeaderLen
               THEN {<<TransportOffset(f), TransportOffset(f) + UnpackedLen[f.proto]>>} ELSE {})

(* Mutant: the data offset is not looked at. *)
PayloadStart_FixedHeader(f) == TransportOffset(f) + HeaderLen[f.proto]

(* A TCP data offset below the minimum counts as the minimum. *)
PayloadStart(f) ==
    TransportOffset(f) + IF f.proto = "tcp" THEN Max({4 * f.doff, 20}) ELSE HeaderLen[f.proto]

HasPayload(f) == f.proto \in DOMAIN HeaderLen /\ f.len > PayloadStart(f)

(* Only TCP and UDP have ports; 0 stands for none. *)
SPort(f) == IF f.proto \in {"tcp", "udp"} THEN f.sport ELSE 0
DPort(f) == IF f.proto \in {"tcp", "udp"} THEN f.dport ELSE 0
================================================================================
