------------------------------ MODULE MCIntervals ------------------------------
(* Two sources, one of them blacklisted; two ports, and frames without one;  *)
(* frames of both directions of the dashboard's traffic and one that is not  *)
(* decoded; a new installation, and one that restored a longer baseline.     *)
EXTENDS Intervals

MCBaselines == {<<>>, <<1, 1, 0, 1>>}
MCFrame(src, sport, port, decoded) ==
    [src |-> src, sport |-> sport, port |-> port, decoded |-> decoded]
MCArrivals ==
    {MCFrame("a", port, port, TRUE) : port \in {0, 1, 2}}
        \cup {MCFrame("b", 1, 1, TRUE), MCFrame("b", 1, 3, TRUE)}
        \cup {MCFrame("a", 3, 1, TRUE), MCFrame("a", 0, 0, FALSE)}
MCScanVotes == {<<p, n>> \in (0..2) \X (0..3) : n < 3}
================================================================================
