-------------------------------- MODULE MCReplay --------------------------------
(* Captures of two sources, one of them blacklisted, with five frames: two   *)
(* ports, one of them with a payload, one frame that is not decoded and one  *)
(* the dashboard answered with.  The probe frames are cut at every length    *)
(* around a header.                                                          *)
EXTENDS Replay

MCBaselines == {<<>>}
MCScanVotes == {<<p, n>> \in (0..2) \X (0..3) : n < 3}

Tcp(len, src, sport, dport) ==
    [len |-> len, tags |-> 0, ipv4 |-> TRUE, version |-> 4, ihl |-> 5, proto |-> "tcp",
     doff |-> 5, src |-> src, sport |-> sport, dport |-> dport]

MCRawFrames ==
    {Tcp(54, "a", 2, 1), Tcp(60, "a", 1, 2), Tcp(54, "b", 2, 1), Tcp(40, "a", 2, 1), Tcp(54, "a", 3, 1)}

MCProbeFrames ==
    [len : 0..46 \cup {53, 54, 55, 57, 58, 61, 62, 65, 66, 70, 73, 74, 78, 200},
     tags : 0..2, ipv4 : BOOLEAN, version : {4, 6}, ihl : {4, 5, 6, 15},
     proto : {"tcp", "udp", "icmp", "gre"}, doff : {0, 5, 15}, src : {"a"}, sport : {1}, dport : {1}]
================================================================================
