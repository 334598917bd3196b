-------------------------------- MODULE MCOffline --------------------------------
(* Every dataset of a few rows for each engine: usable and impossible scan  *)
(* rows, illegible numbers, duplicates; words of one class, of both and     *)
(* weak ones; normal seconds followed by a flood; listed, held-out and      *)
(* benign addresses that share bits.                                        *)
EXTENDS Offline

Sequences(S, lengths) == UNION {[1..n -> S] : n \in lengths}

MCLower ==
    [label \in {"Scan", "Normal", "Attack", "Malicious", "PortScan", "benign", "Blacklisted"} |->
        CASE label = "PortScan" -> "portscan"
          [] label = "Scan" -> "scan"
          [] label = "Normal" -> "normal"
          [] label = "Attack" -> "attack"
          [] label = "Malicious" -> "malicious"
          [] label = "Blacklisted" -> "blacklisted"
          [] OTHER -> label]

Second(ports, pkts, label) == [ports |-> ports, pkts |-> pkts, label |-> label, legible |-> TRUE]

KnnRows ==
    { Second(12, 12, "Scan"), Second(30, 40, "PortScan"), Second(2, 50, "Scan"), Second(5, 25, "benign"),
      Second(12, 12, "Normal"), Second(60, 40, "Scan"),
      [ports |-> 0, pkts |-> 0, label |-> "Scan", legible |-> FALSE] }

MCSeedRows == << Second(1, 5, "Normal"), Second(30, 40, "Scan") >>

MCWords == << "ALERT(", "INDEX", "ROOT" >>

PayloadRows ==
    [words : {{"ALERT("}, {"INDEX", "ROOT"}, {"ALERT(", "INDEX"}, {}}, label : {"Attack", "benign"}]

MCSeedPayload ==
    [malicious |-> 1, safe |-> 9,
     likelihoods |-> [w \in {"ALERT("} |-> [malicious |-> <<9, 10>>, safe |-> <<1, 1000>>]]]

Rate(pps, label) == [pps |-> pps, label |-> label, legible |-> TRUE]

Quiet == Sequences({Rate(0, "Normal"), Rate(192, "benign"), Rate(576, "Normal")}, {2, 3, 4})

Flood == { <<>>, << Rate(1728, "Attack"), Rate(1728, "Attack"), Rate(1728, "Attack") >>,
           << Rate(960, "Attack"), Rate(960, "Attack"), Rate(192, "Normal") >> }

Listed == [ip : Addresses, label : {"Malicious", "benign"}]

MCSources ==
    [engine : {"knn"}, via : {"csv", "json", "cic"}, rows : Sequences(KnnRows, 1..3)]
    \cup [engine : {"knn"}, via : {"json"},
          rows : {<<Second(5, 25, "benign"), Second(5, 24, "benign"), Second(5, 23, "benign"), Second(5, 22, "benign")>> \o s
                    : s \in Sequences(KnnRows, {1, 2})}]
    \cup [engine : {"payload"}, via : {"csv"}, rows : Sequences(PayloadRows, 1..3)]
    \cup [engine : {"kmeans"}, via : {"csv"}, rows : {q \o f : q \in Quiet, f \in Flood}]
    \cup [engine : {"bloom"}, via : {"csv"}, rows : Sequences(Listed, 1..3)]

MCSeedCentroids == <<0, 192>>

MCDigest == [a \in Addresses |-> CASE a = "a" -> <<1, 5>> [] a = "b" -> <<5, 3>> [] a = "c" -> <<9, 11>>]
================================================================================
