-------------------------------- MODULE Intervals --------------------------------
(***************************************************************************)
(* sensor_node/sensor.py: how the analyzer thread counts frames and closes *)
(* an interval of about one second, with engines/knn.py for port scans and *)
(* ZScore for floods.  Everything here runs in the analyzer thread, so one *)
(* step is one call; the clock runs between any two of them.               *)
(*                                                                         *)
(*   get -> timer -> frame -> get     (timer -> get if no frame came)      *)
(*                                                                         *)
(* The neighbours' vote of KNN is a constant relation (its training data   *)
(* does not change while the sensor runs); the verdict of K-Means is left  *)
(* open.  `alerts` is what the latest step handed to the dispatcher.       *)
(***************************************************************************)
EXTENDS ZScore, FiniteSets

CONSTANTS
    Sources,        (* source addresses                                    *)
    NoSource,       (* src_ip = None: nobody can be named                  *)
    Blacklisted,    (* sources the Bloom filter answers for                *)
    Ports,          (* ports; 0 stands for having none                     *)
    DashboardPorts, (* http_port and udp_port                              *)
    Arrivals,       (* the frames that may come                            *)
    MinScanPorts,   (* KNNMonitor.MIN_SCAN_PORTS                           *)
    ScanVotes,      (* <<ports, packets>> the neighbours call a scan       *)
    MinShare,       (* source_attribution_min_share, per cent              *)
    Second,         (* clock ticks of an interval                          *)
    MaxElapsed      (* bound on the clock since the last interval          *)

ASSUME IntervalsAssumption ==
    /\ NoSource \notin Sources
    /\ Blacklisted \subseteq Sources
    /\ Ports \subseteq Nat
    /\ \A f \in Arrivals :
          /\ f = [src |-> f.src, sport |-> f.sport, port |-> f.port, decoded |-> f.decoded]
          /\ f.src \in Sources /\ f.port \in Ports /\ f.decoded \in BOOLEAN
    /\ MinScanPorts \in Nat
    /\ ScanVotes \subseteq Nat \X Nat
    /\ MinShare \in 0..100
    /\ Second \in Nat
    /\ MaxElapsed \in Nat

VARIABLES
    elapsed,        (* now - last_time                                     *)
    packet_count, unique_ports,
    source_stats,   (* dict: source -> its packets and its ports           *)
    scan_active_sources,
    alerts,         (* dispatched by the latest step                       *)
    pc, in_hand,
    frames,         (* history: <<s, p, n>> for the n-th frame from source *)
                    (* s to port p in this interval                        *)
    scanning        (* history: who was scanning in the previous interval  *)

counterVars == <<packet_count, unique_ports, source_stats, frames>>
scanVars == <<scan_active_sources, scanning>>
vars == <<zVars, elapsed, counterVars, scanVars, alerts, pc, in_hand>>

(* A frame: whether the parser takes it, and if so whose it is and its two  *)
(* ports.                                                                   *)
NoFrame == [src |-> NoSource, sport |-> 0, port |-> 0, decoded |-> FALSE]
NoStats == [s \in {} |-> 0]
Kinds == {"ddos", "scan", "anomaly", "blacklist", "payload"}

TypeOK ==
    /\ ZTypeOK
    /\ elapsed \in 0..MaxElapsed
    /\ packet_count \in 0..MaxRate
    /\ unique_ports \subseteq Ports
    /\ DOMAIN source_stats \subseteq Sources
    /\ \A s \in DOMAIN source_stats : source_stats[s] \in [packets : 1..MaxRate, ports : SUBSET Ports]
    /\ scan_active_sources \subseteq Sources
    /\ alerts \subseteq [kind : Kinds, src : Sources \cup {NoSource}]
    /\ pc \in {"get", "timer", "frame"}
    /\ in_hand \in Arrivals \cup {NoFrame}

Init ==
    /\ ZInit
    /\ elapsed = 0
    /\ packet_count = 0
    /\ unique_ports = {}
    /\ source_stats = NoStats
    /\ frames = {}
    /\ scan_active_sources = {}
    /\ scanning = {}
    /\ alerts = {}
    /\ pc = "get"
    /\ in_hand = NoFrame

--------------------------------------------------------------------------------
Tick ==
    /\ elapsed < MaxElapsed
    /\ elapsed' = elapsed + 1
    /\ alerts' = {}
    /\ UNCHANGED <<zVars, counterVars, scanVars, pc, in_hand>>

(* packet_queue.get: a frame, or none within half a second.  The bound: a   *)
(* full interval is left for the timer to end before a frame may come.      *)
Get(frame) ==
    /\ pc = "get"
    /\ frame = NoFrame \/ packet_count < MaxRate \/ elapsed >= Second
    /\ pc' = "timer"
    /\ in_hand' = frame
    /\ alerts' = {}
    /\ UNCHANGED <<zVars, elapsed, counterVars, scanVars>>

AfterTimer == IF in_hand = NoFrame THEN "get" ELSE "frame"

TimerNotDue ==
    /\ pc = "timer"
    /\ elapsed < Second
    /\ pc' = AfterTimer
    /\ alerts' = {}
    /\ UNCHANGED <<zVars, elapsed, counterVars, scanVars, in_hand>>

(* KNNMonitor.classify: at least a fifth of the packets open a new port. *)
PlausibleScan(ports, packets) ==
    MinScanPorts <= ports /\ ports <= packets /\ packets > 0 /\ 5 * ports >= packets

IsScan(ports, packets) == PlausibleScan(ports, packets) /\ <<ports, packets>> \in ScanVotes

ScanSources ==
    {s \in DOMAIN source_stats : IsScan(Cardinality(source_stats[s].ports), source_stats[s].packets)}

(* Of several sources with the most packets the first seen is taken; the    *)
(* dict's order is not modelled, so any of them may be.                     *)
Loudest ==
    {s \in DOMAIN source_stats :
        \A t \in DOMAIN source_stats : source_stats[t].packets <= source_stats[s].packets}

(* Mutant: the loudest source is named however small its share. *)
DominantSources_AnyShare == IF source_stats = NoStats THEN {NoSource} ELSE Loudest

DominantSources ==
    IF source_stats = NoStats \/ packet_count = 0
    THEN {NoSource}
    ELSE {IF 100 * source_stats[s].packets >= MinShare * packet_count THEN s ELSE NoSource
          : s \in Loudest}

Alert(kind, src) == [kind |-> kind, src |-> src]

(* Mutant: a scan is reported in every interval it lasts. *)
NewScans_Always == ScanSources

NewScans == ScanSources \ scan_active_sources

(* The counters start afresh: packet_count = 0, the set cleared, the dict   *)
(* replaced, last_time = now.  Mutant: the set of ports is not cleared.     *)
ResetCounters_KeepPorts ==
    /\ elapsed' = 0
    /\ packet_count' = 0
    /\ source_stats' = NoStats
    /\ frames' = {}
    /\ UNCHANGED unique_ports

ResetCounters ==
    /\ elapsed' = 0
    /\ packet_count' = 0
    /\ unique_ports' = {}
    /\ source_stats' = NoStats
    /\ frames' = {}

(* What the frames themselves, not the counters, say about a source. *)
From(s) == {x \in frames : x[1] = s}
FramesOf(s) == Cardinality(From(s))
PortsOf(s) == IF s \in Blacklisted THEN {} ELSE {x[2] : x \in From(s)} \ {0}
Scanners == {s \in Sources : IsScan(Cardinality(PortsOf(s)), FramesOf(s))}

(* The interval engines, in their order; K-Means speaks only when the other *)
(* two do not.                                                              *)
TimerChecks ==
    /\ pc = "timer"
    /\ elapsed >= Second
    /\ Analyse(packet_count)
    /\ \E src \in DominantSources, novel \in BOOLEAN :
          alerts' =
            (IF verdict'.new THEN {Alert("ddos", src)} ELSE {})
            \cup {Alert("scan", s) : s \in NewScans}
            \cup (IF novel /\ ScanSources = {} /\ ~verdict'.threat
                  THEN {Alert("anomaly", src)} ELSE {})
    /\ scan_active_sources' = ScanSources
    /\ scanning' = Scanners
    /\ ResetCounters
    /\ pc' = AfterTimer
    /\ UNCHANGED in_hand

(* What the parser takes, but for the dashboard's own traffic. *)
InScope(frame) ==
    frame.decoded /\ frame.sport \notin DashboardPorts /\ frame.port \notin DashboardPorts

FrameIgnored ==
    /\ pc = "frame"
    /\ ~InScope(in_hand)
    /\ pc' = "get"
    /\ in_hand' = NoFrame
    /\ alerts' = {}
    /\ UNCHANGED <<zVars, elapsed, counterVars, scanVars>>

StatsOf(s) == IF s \in DOMAIN source_stats THEN source_stats[s] ELSE [packets |-> 0, ports |-> {}]

(* The set a frame adds its port to: none, for a blacklisted source (the    *)
(* loop goes on to the next frame before that) and for port 0.              *)
NewPorts(frame) ==
    IF frame.src \in Blacklisted \/ frame.port = 0 THEN {} ELSE {frame.port}

(* The frames of the interval, and one more. *)
Alike(frame) == {x \in From(frame.src) : x[2] = frame.port}
FramesWith(frame) == frames \cup {<<frame.src, frame.port, Cardinality(Alike(frame)) + 1>>}

CountFrame ==
    /\ pc = "frame"
    /\ InScope(in_hand)
    /\ packet_count' = packet_count + 1
    /\ source_stats' =
         [s \in DOMAIN source_stats \cup {in_hand.src} |->
            IF s = in_hand.src
            THEN [packets |-> StatsOf(s).packets + 1, ports |-> StatsOf(s).ports \cup NewPorts(in_hand)]
            ELSE source_stats[s]]
    /\ unique_ports' = unique_ports \cup NewPorts(in_hand)
    /\ frames' = FramesWith(in_hand)
    /\ alerts' \in IF in_hand.src \in Blacklisted
                   THEN {{Alert("blacklist", in_hand.src)}}
                   ELSE {{}, {Alert("payload", in_hand.src)}}
    /\ pc' = "get"
    /\ in_hand' = NoFrame
    /\ UNCHANGED <<zVars, elapsed, scanVars>>

(* The process ends and a new one starts with the exported baseline. *)
Restart ==
    /\ Restore
    /\ ResetCounters
    /\ scan_active_sources' = {}
    /\ scanning' = {}
    /\ alerts' = {}
    /\ pc' = "get"
    /\ in_hand' = NoFrame

Next ==
    \/ Tick
    \/ \E frame \in Arrivals \cup {NoFrame} : Get(frame)
    \/ TimerNotDue \/ TimerChecks
    \/ FrameIgnored \/ CountFrame
    \/ Restart

Spec == Init /\ [][Next]_vars

--------------------------------------------------------------------------------
(* Every in-scope frame counts in one interval, for its own source, and     *)
(* nothing of an earlier interval is left in any of the three counters.     *)
CountersMatchFrames ==
    /\ packet_count = Cardinality(frames)
    /\ unique_ports = UNION {PortsOf(s) : s \in Sources}
    /\ \A s \in Sources :
          IF FramesOf(s) = 0 THEN s \notin DOMAIN source_stats
          ELSE /\ s \in DOMAIN source_stats
               /\ source_stats[s] = [packets |-> FramesOf(s), ports |-> PortsOf(s)]

(* An interval alert names a source only if its frames make up the required *)
(* share of the interval and nobody sent more ("a missing source prevents   *)
(* the dispatcher from attempting an unsafe firewall block").               *)
AttributionHonest ==
    [][\A a \in alerts' :
          a.kind \in {"ddos", "anomaly"} /\ a.src # NoSource =>
              /\ FramesOf(a.src) > 0
              /\ 100 * FramesOf(a.src) >= MinShare * Cardinality(frames)
              /\ \A s \in Sources : FramesOf(s) <= FramesOf(a.src)]_vars

(* A scan is reported when it begins and not again while it lasts: in the   *)
(* interval in which the frames of a source first look like one.            *)
ScanReportedOnce ==
    [][TimerChecks => {a.src : a \in {a \in alerts' : a.kind = "scan"}} = Scanners \ scanning]_vars

(* A flood is reported when its episode begins, then only and whoever is to *)
(* blame: an alert in the step that announces it, none in any other.        *)
FloodReportedOnce ==
    [][(\E a \in alerts' : a.kind = "ddos") <=> (~announced /\ announced')]_vars

(* The three counters of an interval agree with its frames, and nothing of  *)
(* it outlives its end (sensor.py:185-213, 286-289).                        *)
CountersConsistent == TypeOK /\ CountersMatchFrames

(* A threat is shown for a sustained rate only, and just when it has been   *)
(* announced (z_score.py, MIN_PPS and the consecutive intervals).           *)
ThreatHonest == ThreatSustained /\ ThreatAnnounced

(* Scans and floods are reported at their onset and not again, however long *)
(* they last and however they overlap (sensor.py:230-262); with             *)
(* ThreatAnnounced, the onset of a flood is where its threat status begins. *)
ReportedOnce == ScanReportedOnce /\ FloodReportedOnce
================================================================================
