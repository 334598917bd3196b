---------------------------- MODULE MCActiveDefense ----------------------------
(* Four addresses that may be dropped, one of which the operator had dropped *)
(* by hand (twice) before MANTIS started, and loopback.                      *)
EXTENDS ActiveDefense

MCSources == {"a", "b", "c", "d", "lo"}
MCFoundChain == <<"b", "lo", "b">>
================================================================================
