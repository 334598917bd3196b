--------------------------------- MODULE Replay ---------------------------------
(***************************************************************************)
(* replay.py: a capture file is pushed through the engines, second by      *)
(* second of its own time stamps.  utils/pcap.py reads a record in two     *)
(* parts, header and data, and stops without a word at one that is cut:    *)
(*                                                                         *)
(*   read -> data -> close -> frame -> read          one record            *)
(*   read -> eof, data -> eof,  eof -> last -> done  the end of the file   *)
(*                                                                         *)
(* The program has no clock.  Its engines are those of the live sensor     *)
(* (ZScore and the constants of Intervals); its bookkeeping is a second    *)
(* copy of the sensor's, and is compared with it here.                     *)
(***************************************************************************)
EXTENDS ZScore, Parser

CONSTANTS
    Sources, NoSource, Blacklisted, Ports, MinScanPorts, ScanVotes, MinShare,
    DashboardPorts, (* the ports the live sensor leaves out                *)
    RawFrames,      (* the frames a capture may hold                       *)
    ProbeFrames,    (* frames of every shape, for the parser alone         *)
    MaxSecond,      (* bound on the time stamps                            *)
    MaxRecords      (* bound on the records                                *)

ASSUME ReplayAssumption ==
    /\ <<>> \in Baselines
    /\ NoSource \notin Sources
    /\ Ports \subseteq Nat /\ 0 \in Ports
    /\ RawFrames # {}
    /\ \A f \in RawFrames : f.src \in Sources /\ f.sport \in Ports /\ f.dport \in Ports
    /\ \A f \in RawFrames \cup ProbeFrames : WellFormed(f)
    /\ MaxSecond \in Nat /\ MaxRecords \in Nat

VARIABLES
    packet_count, unique_ports, source_stats, scan_active_sources, current_second,
    alerts,         (* raised since the record was read                    *)
    pc,
    stamp,          (* second of the record being read, from the first one *)
    raw,            (* its frame                                           *)
    counts,         (* records read, decoded, and of no use                *)
    analysed,       (* history: packets in the seconds closed so far       *)
    frames,         (* history: the frames of this second, as in Intervals *)
    scanning        (* history: who was scanning in the last closed second *)

counterVars == <<packet_count, unique_ports, source_stats, frames>>
engineVars == <<zVars, scan_active_sources, scanning, analysed>>
vars == <<engineVars, counterVars, current_second, alerts, pc, stamp, raw, counts>>

Decoded(f) == parse(f) = "parsed"
NoStats == [s \in {} |-> 0]

(* The second at hand is over: that of the record is a later one. *)
Over == stamp > current_second

(* The live sensor that is given the same frames.  Its clock has run out    *)
(* when the second at hand is over, whatever was counted in it, and at the  *)
(* end of a file that leaves something counted; its place, its frame and    *)
(* its alerts follow.                                                       *)
FrameOf(f) == [src |-> f.src, sport |-> SPort(f), port |-> DPort(f), decoded |-> Decoded(f)]
NoFrame == [src |-> NoSource, sport |-> 0, port |-> 0, decoded |-> FALSE]

Leaving ==
    \/ pc \in {"data", "close"} /\ Over
    \/ pc \in {"eof", "last"} /\ (Over \/ packet_count > 0)

live_elapsed == IF Leaving THEN 1 ELSE 0
live_pc ==
    CASE pc \in {"read", "data", "eof", "done"} -> "get"
      [] pc \in {"close", "last"} -> "timer"
      [] pc = "frame" -> "frame"
live_in_hand == IF pc \in {"close", "frame"} THEN FrameOf(raw) ELSE NoFrame
live_alerts == IF Leaving /\ pc \in {"data", "eof"} THEN {} ELSE alerts

Live == INSTANCE Intervals WITH
    Second <- 1, MaxElapsed <- 1, Arrivals <- {FrameOf(f) : f \in RawFrames},
    elapsed <- live_elapsed, pc <- live_pc, in_hand <- live_in_hand, alerts <- live_alerts

TypeOK ==
    /\ ZTypeOK
    /\ packet_count \in 0..MaxRate /\ unique_ports \subseteq Ports
    /\ DOMAIN source_stats \subseteq Sources /\ scan_active_sources \subseteq Sources
    /\ current_second \in 0..MaxSecond /\ stamp \in 0..MaxSecond
    /\ pc \in {"read", "data", "close", "frame", "eof", "last", "done"}
    /\ raw \in RawFrames
    /\ counts \in [records : 0..MaxRecords, packets : 0..MaxRecords, dropped : 0..MaxRecords]

Init ==
    /\ ZInit /\ history = <<>>
    /\ packet_count = 0 /\ unique_ports = {} /\ source_stats = NoStats
    /\ frames = {}
    /\ scan_active_sources = {} /\ scanning = {}
    /\ current_second = 0 /\ stamp = 0
    /\ alerts = {}
    /\ pc = "read"
    /\ raw = CHOOSE f \in RawFrames : TRUE
    /\ counts = [records |-> 0, packets |-> 0, dropped |-> 0]
    /\ analysed = 0

--------------------------------------------------------------------------------
(* Seconds are counted from the first record; later ones need not be in order. *)
ReadHeader(second) ==
    /\ pc = "read"
    /\ counts.records < MaxRecords
    /\ counts.records = 0 => second = 0
    /\ stamp' = second
    /\ counts' = [counts EXCEPT !.records = @ + 1]
    /\ pc' = "data"
    /\ UNCHANGED <<engineVars, counterVars, current_second, alerts, raw>>

ReadData(f) ==
    /\ pc = "data"
    /\ (IF Over THEN 0 ELSE packet_count) < MaxRate
    /\ raw' = f
    /\ alerts' = {}
    /\ pc' = "close"
    /\ UNCHANGED <<engineVars, counterVars, current_second, stamp, counts>>

(* The file ends between two records, or within the header or data of one. *)
FileEnds ==
    /\ pc \in {"read", "data"}
    /\ pc' = "eof"
    /\ UNCHANGED <<engineVars, counterVars, current_second, alerts, stamp, raw, counts>>

LoopEnds ==
    /\ pc = "eof"
    /\ alerts' = {}
    /\ pc' = "last"
    /\ UNCHANGED <<engineVars, counterVars, current_second, stamp, raw, counts>>

Packets(s) == source_stats[s].packets

(* Mutant: whoever sent most is to blame. *)
DominantSource_AnyShare(src) ==
    \E s \in DOMAIN source_stats :
        /\ \A t \in DOMAIN source_stats : Packets(t) <= Packets(s)
        /\ src = s

(* max() over the dict, then the share it needs. *)
DominantSource(src) ==
    \E s \in DOMAIN source_stats :
        /\ \A t \in DOMAIN source_stats : Packets(t) <= Packets(s)
        /\ src = IF 100 * Packets(s) >= MinShare * packet_count THEN s ELSE NoSource

ScanSources ==
    {s \in DOMAIN source_stats :
        Live!IsScan(Cardinality(source_stats[s].ports), source_stats[s].packets)}

FreshCounters ==
    /\ packet_count' = 0
    /\ unique_ports' = {}
    /\ source_stats' = NoStats
    /\ frames' = {}

(* _close_second runs the interval engines, unless nothing was counted. *)
CloseSecond ==
    /\ Analyse(packet_count)
    /\ \E src \in Sources \cup {NoSource}, novel \in BOOLEAN :
          /\ DominantSource(src)
          /\ alerts' = {Live!Alert("ddos", src) : x \in {y \in {0} : verdict'.new}}
                \cup {Live!Alert("scan", s) : s \in ScanSources \ scan_active_sources}
                \cup {Live!Alert("anomaly", src) :
                        x \in {y \in {0} : novel /\ ScanSources = {} /\ ~verdict'.threat}}
    /\ scan_active_sources' = ScanSources
    /\ scanning' = Live!Scanners
    /\ analysed' = analysed + packet_count

(* However many seconds lie between two records, one at most was not empty. *)
Boundary ==
    /\ pc = "close"
    /\ pc' = "frame"
    /\ IF Over THEN current_second' = stamp /\ FreshCounters ELSE UNCHANGED <<current_second, counterVars>>
    /\ IF Over /\ packet_count > 0 THEN CloseSecond ELSE alerts' = {} /\ UNCHANGED engineVars
    /\ UNCHANGED <<stamp, raw, counts>>

(* Mutant: the seconds are closed by the records that follow them, only. *)
LastSecond_Forgotten ==
    /\ pc = "last"
    /\ pc' = "done"
    /\ alerts' = {}
    /\ UNCHANGED <<engineVars, counterVars, current_second, stamp, raw, counts>>

LastSecond ==
    /\ pc = "last"
    /\ pc' = "done"
    /\ IF packet_count > 0 THEN CloseSecond /\ FreshCounters
       ELSE alerts' = {} /\ UNCHANGED <<engineVars, counterVars>>
    /\ UNCHANGED <<current_second, stamp, raw, counts>>

Skip ==
    /\ pc = "frame"
    /\ ~Decoded(raw)
    /\ pc' = "read"
    /\ alerts' = {}
    /\ counts' = [counts EXCEPT !.dropped = @ + 1]
    /\ UNCHANGED <<engineVars, counterVars, current_second, stamp, raw>>

(* Mutant: the ports of a blacklisted source are noted as well. *)
PortNoted_Always == IF DPort(raw) = 0 THEN {} ELSE {DPort(raw)}

(* The port of a blacklisted source is not noted: the loop goes on before. *)
PortNoted == IF raw.src \in Blacklisted \/ DPort(raw) = 0 THEN {} ELSE {DPort(raw)}

setdefault(s) == IF s \in DOMAIN source_stats THEN source_stats[s] ELSE [packets |-> 0, ports |-> {}]

Count ==
    /\ pc = "frame"
    /\ Decoded(raw)
    /\ pc' = "read"
    /\ packet_count' = packet_count + 1
    /\ unique_ports' = unique_ports \cup PortNoted
    /\ source_stats' = [s \in DOMAIN source_stats \cup {raw.src} |->
          IF s = raw.src
          THEN [packets |-> setdefault(s).packets + 1, ports |-> setdefault(s).ports \cup PortNoted]
          ELSE source_stats[s]]
    /\ frames' = Live!FramesWith(FrameOf(raw))
    /\ \E malicious \in BOOLEAN :
          alerts' = IF raw.src \in Blacklisted THEN {Live!Alert("blacklist", raw.src)}
                    ELSE IF HasPayload(raw) /\ malicious THEN {Live!Alert("payload", raw.src)}
                    ELSE {}
    /\ counts' = [counts EXCEPT !.packets = @ + 1]
    /\ UNCHANGED <<engineVars, current_second, stamp, raw>>

Next ==
    \/ \E second \in 0..MaxSecond : ReadHeader(second)
    \/ \E f \in RawFrames : ReadData(f)
    \/ FileEnds \/ LoopEnds
    \/ Boundary \/ LastSecond
    \/ Skip \/ Count

Spec == Init /\ [][Next]_vars

--------------------------------------------------------------------------------
(* "replayed results are directly comparable to live results": a replayed   *)
(* capture is one of the behaviours of the live sensor, which counts just   *)
(* the frames in its scope and analyses every second that is over           *)
(* (parser.py:10-11).  Violated: the two part company at the steps below.   *)
DirectlyComparable == Live!Spec

(* A second in which nothing was decoded is over, and is not analysed; ...  *)
PassesOverSilence == pc \in {"close", "last"} /\ Over /\ packet_count = 0

(* ... a frame from or to a port of the dashboard is about to be counted.   *)
CountsDashboard ==
    pc = "frame" /\ Decoded(raw) /\ {SPort(raw), DPort(raw)} \cap DashboardPorts # {}

Departs == PassesOverSilence \/ CountsDashboard

(* Everywhere else the second copy of the bookkeeping is the first: every   *)
(* step is one the live sensor takes from the same counters, engines and    *)
(* frame, with the same alerts, or leaves all of that alone.                *)
ImplementsLive == Live!Init /\ [][Live!Next \/ Departs]_(Live!vars)

(* However a capture is cut, once it is replayed every packet that was      *)
(* decoded has been in a second that was analysed.                          *)
NothingLost ==
    /\ counts.packets = analysed + packet_count
    /\ pc = "done" => analysed = counts.packets

(* "malformed or truncated frames are rejected by explicit length checks    *)
(* instead of raising struct.error": nothing is unpacked beyond the end of  *)
(* a frame, whatever its tags, options and length.                          *)
ReadsInBounds == \A f \in ProbeFrames : \A r \in Reads(f) : r[1] < r[2] /\ r[2] <= f.len

(* Where the headers of a frame end by what they themselves declare: the    *)
(* tags, the length of the IP header with its options, and the TCP data     *)
(* offset.  Of ICMP type, code and checksum are taken for the header; what  *)
(* follows them, identifier and sequence number, is payload to this decoder.*)
DeclaredEnd(f) ==
    14 + 4 * f.tags + 4 * f.ihl
       + CASE f.proto = "tcp" -> 4 * f.doff [] f.proto = "udp" -> 8 [] f.proto = "icmp" -> 4

PayloadBytes(f) == IF HasPayload(f) THEN PayloadStart(f)..(f.len - 1) ELSE {}

(* What is inspected as payload are all the bytes behind the headers, to    *)
(* the end of the frame, and no other: none the headers declare theirs and  *)
(* none that was unpacked, also where a declared length is too small.       *)
PayloadIsTheRest ==
    \A f \in ProbeFrames :
        Decoded(f) /\ f.proto \in DOMAIN HeaderLen =>
            PayloadBytes(f) = {i \in 0..(f.len - 1) : /\ i >= DeclaredEnd(f)
                                                      /\ \A r \in Reads(f) : i >= r[2]}

(* What the parser accepts it has read within bounds, and what it calls     *)
(* payload is what lies behind the headers (parser.py:62-184).              *)
ParserSound == TypeOK /\ ReadsInBounds /\ PayloadIsTheRest
================================================================================
