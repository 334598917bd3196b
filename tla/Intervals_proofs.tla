----------------------------- MODULE Intervals_proofs -----------------------------
(***************************************************************************)
(* The counters of an interval agree with its frames, so whoever is named  *)
(* is named on evidence; a flood is reported for a sustained rate and, as  *)
(* a scan, once at its onset: for every size of the window, threshold and  *)
(* number of consecutive intervals, and whatever the score itself says.    *)
(***************************************************************************)
EXTENDS Intervals, SequenceTheorems, FiniteSetTheorems, WellFoundedInduction, TLAPS

Low(n) == IF n < Required THEN n ELSE Required

(* The rates of the running streak are remembered, as far as they fit; an   *)
(* episode as long as Required has had its event.                           *)
StreakInv ==
    /\ anomaly_streak \in Nat
    /\ packet_count \in Nat
    /\ seen \in Seq(Nat) /\ Low(anomaly_streak) <= Len(seen) /\ Len(seen) <= Required
    /\ \A i \in 1..Len(seen) : i > Len(seen) - Low(anomaly_streak) => seen[i] >= MinPps
    /\ announced <=> anomaly_streak >= Required
    /\ seen # <<>> => (verdict.threat <=> anomaly_streak >= Required)

(* What is appended to a list that keeps the latest `size` ends it, the     *)
(* first one making room if it must.                                        *)
Cut(s, size) == IF Len(s) = size THEN 1 ELSE 0

LEMMA LatestAppended ==
    ASSUME NEW S, NEW s \in Seq(S), NEW x \in S, NEW size \in Nat \ {0}, Len(s) <= size
    PROVE  LET next == Latest(Append(s, x), size)
           IN  /\ next \in Seq(S)
               /\ Len(next) = Len(s) + 1 - Cut(s, size)
               /\ \A i \in 1..Len(next) : next[i] = IF i = Len(next) THEN x ELSE s[i + Cut(s, size)]
<1> DEFINE long == Append(s, x)
           next == Latest(long, size)
           cut  == Cut(s, size)
<1>1. /\ long \in Seq(S) /\ Len(long) = Len(s) + 1 /\ long[Len(s) + 1] = x
      /\ \A i \in 1..Len(s) : long[i] = s[i]
  OBVIOUS
<1>2. cut \in {0, 1} /\ cut <= Len(s)
  BY DEF Cut
<1>3. (IF Len(long) > size THEN Len(long) - size ELSE 0) = cut
  BY <1>1 DEF Cut
<1>4. next = SubSeq(long, 1 + cut, Len(s) + 1)
  BY <1>1, <1>3 DEF Latest
<1> HIDE DEF long, cut, next
<1>5. next \in Seq(S) /\ Len(next) = Len(s) + 1 - cut
  <2>1. 1 + cut \in 1..(Len(long) + 1) /\ Len(s) + 1 \in cut..Len(long)
    BY <1>1, <1>2
  <2> QED
    BY <1>1, <1>2, <1>4, <2>1, SubSeqProperties
<1>6. \A i \in 1..Len(next) : next[i] = long[i + cut]
  <2>1. 1 + cut \in 1..(Len(long) + 1) /\ Len(s) + 1 \in cut..Len(long)
    BY <1>1, <1>2
  <2> QED
    BY <1>1, <1>2, <1>4, <1>5, <2>1, SubSeqProperties
<1>7. ASSUME NEW i \in 1..Len(next) PROVE next[i] = IF i = Len(next) THEN x ELSE s[i + cut]
  <2>1. next[i] = long[i + cut]
    BY <1>6
  <2>2. CASE i = Len(next)
    BY <1>1, <1>2, <1>5, <2>1, <2>2
  <2>3. CASE i # Len(next)
    <3>1. i + cut \in 1..Len(s)
      BY <1>2, <1>5, <2>3
    <3> QED
      BY <1>1, <2>1, <2>3, <3>1
  <2> QED
    BY <2>2, <2>3
<1> QED
  BY <1>5, <1>7 DEF cut, next, long

LEMMA StreakStart == Init => StreakInv
BY ZScoreAssumption DEF Init, ZInit, StreakInv, NoVerdict, Low

(* One interval of x packets, whatever the score of x.                      *)
LEMMA StreakAnalyse ==
    ASSUME StreakInv, NEW x \in Nat, Analyse(x), packet_count' \in Nat
    PROVE  StreakInv' /\ (verdict'.new <=> ~announced /\ announced')
<1> DEFINE cut == Cut(seen, Required)
<1>1. /\ anomaly_streak' = Streak(x)
      /\ verdict'.threat <=> VolumeCandidate(x) /\ Streak(x) >= Required
      /\ verdict'.new <=> NewThreat(x)
      /\ seen' = Latest(Append(seen, x), Required)
      /\ announced' <=> VolumeCandidate(x) /\ (announced \/ NewThreat(x))
  BY DEF Analyse
<1>2. Required \in Nat \ {0} /\ MinPps \in Nat
  BY ZScoreAssumption
<1>3. /\ seen' \in Seq(Nat)
      /\ Len(seen') = Len(seen) + 1 - cut
      /\ \A i \in 1..Len(seen') : seen'[i] = IF i = Len(seen') THEN x ELSE seen[i + cut]
  <2>1. seen \in Seq(Nat) /\ Len(seen) <= Required
    BY DEF StreakInv
  <2> DEFINE next == Latest(Append(seen, x), Required)
  <2>2. /\ next \in Seq(Nat)
        /\ Len(next) = Len(seen) + 1 - cut
        /\ \A i \in 1..Len(next) : next[i] = IF i = Len(next) THEN x ELSE seen[i + cut]
    BY <1>2, <2>1, LatestAppended
  <2>3. seen' = next
    BY <1>1
  <2> HIDE DEF next, cut
  <2> QED
    BY <2>2, <2>3
<1> cut \in {0, 1} /\ (cut = 1 <=> Len(seen) = Required)
  BY DEF Cut
<1> HIDE DEF cut
<1>4. NewThreat(x) <=> VolumeCandidate(x) /\ anomaly_streak + 1 = Required
  BY DEF NewThreat
<1>5. VolumeCandidate(x) => x >= MinPps
  BY DEF VolumeCandidate
<1>6. Streak(x) = IF VolumeCandidate(x) THEN anomaly_streak + 1 ELSE 0
  BY DEF Streak
<1>7. /\ anomaly_streak \in Nat /\ seen \in Seq(Nat)
      /\ Low(anomaly_streak) <= Len(seen) /\ Len(seen) <= Required
      /\ announced <=> anomaly_streak >= Required
  BY DEF StreakInv
<1>8. Low(anomaly_streak') <= Len(seen') /\ Len(seen') <= Required
  BY <1>1, <1>2, <1>3, <1>6, <1>7 DEF Low
<1>9. ASSUME NEW i \in 1..Len(seen'), i > Len(seen') - Low(anomaly_streak')
      PROVE  seen'[i] >= MinPps
  <2>1. VolumeCandidate(x)
    BY <1>1, <1>2, <1>3, <1>6, <1>9 DEF Low
  <2>2. CASE i = Len(seen')
    BY <1>3, <1>5, <2>1, <2>2
  <2>3. CASE i # Len(seen')
    <3>1. seen'[i] = seen[i + cut] /\ i + cut \in 1..Len(seen)
      BY <1>3, <1>7, <2>3, SMTT(30)
    <3>2. i + cut > Len(seen) - Low(anomaly_streak)
      BY <1>1, <1>2, <1>3, <1>6, <1>7, <1>9, <2>1, <2>3 DEF Low
    <3> QED
      BY <3>1, <3>2 DEF StreakInv
  <2> QED
    BY <2>2, <2>3
<1>10. announced' <=> anomaly_streak' >= Required
  BY <1>1, <1>2, <1>4, <1>6, <1>7
<1>11. verdict'.threat <=> anomaly_streak' >= Required
  BY <1>1, <1>2, <1>6
<1>12. verdict'.new <=> ~announced /\ announced'
  BY <1>1, <1>2, <1>4, <1>7
<1> QED
  BY <1>1, <1>2, <1>3, <1>6, <1>7, <1>8, <1>9, <1>10, <1>11, <1>12 DEF StreakInv

LEMMA StreakStep == StreakInv /\ [Next]_vars => StreakInv'
<1> SUFFICES ASSUME StreakInv, [Next]_vars PROVE StreakInv'
  OBVIOUS
<1>1. CASE TimerChecks
  <2>1. packet_count \in Nat /\ Analyse(packet_count) /\ packet_count' = 0
    BY <1>1 DEF TimerChecks, ResetCounters, StreakInv
  <2> QED
    BY <2>1, StreakAnalyse
<1>2. CASE Restart
  BY <1>2, ZScoreAssumption DEF Restart, Restore, ResetCounters, StreakInv, Low
<1>3. ASSUME UNCHANGED zVars, packet_count' \in Nat PROVE StreakInv'
  BY <1>3 DEF StreakInv, zVars
<1>4. CASE CountFrame
  BY <1>3, <1>4 DEF CountFrame, StreakInv
<1>5. CASE UNCHANGED <<zVars, packet_count>>
  BY <1>3, <1>5 DEF StreakInv
<1> QED
  BY <1>1, <1>2, <1>4, <1>5 DEF Next, Tick, Get, TimerNotDue, FrameIgnored, vars, counterVars

(* A threat is shown for Required intervals in a row of at least MinPps     *)
(* each, and exactly while its episode is announced (z_score.py:130-200).   *)
THEOREM SustainedAndAnnounced == Spec => []ThreatHonest
<1>1. StreakInv => ThreatHonest
  BY ZScoreAssumption DEF StreakInv, ThreatHonest, ThreatSustained, ThreatAnnounced, Low
<1>2. QED
  BY <1>1, StreakStart, StreakStep, PTL DEF Spec

--------------------------------------------------------------------------------
LEMMA LatestTyped ==
    ASSUME NEW S, NEW s \in Seq(S), NEW size \in Nat \ {0}
    PROVE  Latest(s, size) \in Seq(S) /\ Len(Latest(s, size)) <= size
<1> DEFINE cut == IF Len(s) > size THEN Len(s) - size ELSE 0
<1>1. cut \in Nat /\ cut <= Len(s) /\ Len(s) - cut <= size /\ Len(s) \in Nat
  OBVIOUS
<1>2. Latest(s, size) = SubSeq(s, 1 + cut, Len(s))
  BY DEF Latest
<1> HIDE DEF cut
<1>3. 1 + cut \in 1..(Len(s) + 1) /\ Len(s) \in cut..Len(s)
  BY <1>1
<1>4. SubSeq(s, 1 + cut, Len(s)) \in Seq(S) /\ Len(SubSeq(s, 1 + cut, Len(s))) = Len(s) - cut
  BY <1>1, <1>3, SubSeqProperties
<1> QED
  BY <1>1, <1>2, <1>4

LEMMA ZTypeStart == ZInit => ZTypeOK
<1> SUFFICES ASSUME ZInit PROVE ZTypeOK
  OBVIOUS
<1>1. history \in Seq(0..MaxRate) /\ Len(history) <= Window
  BY LatestTyped, ZScoreAssumption DEF ZInit
<1>2. verdict \in [pps : 0..MaxRate, candidate : BOOLEAN, threat : BOOLEAN, new : BOOLEAN]
  <2>1. 0 \in 0..MaxRate
    BY ZScoreAssumption
  <2> QED
    BY <2>1 DEF ZInit, NoVerdict
<1>3. announced \in BOOLEAN
  BY DEF ZInit
<1> QED
  BY <1>1, <1>2, <1>3, ZScoreAssumption DEF ZInit, ZTypeOK

LEMMA ZTypeAnalyse ==
    ASSUME ZTypeOK, NEW x \in 0..MaxRate, Analyse(x)
    PROVE  ZTypeOK'
<1>1. /\ Window \in Nat \ {0} /\ Required \in Nat \ {0} /\ MaxSuppressed \in Nat /\ MaxRate \in Nat
      /\ history \in Seq(0..MaxRate) /\ seen \in Seq(0..MaxRate)
      /\ anomaly_streak \in Nat /\ suppressed \in 0..MaxSuppressed
  BY ZScoreAssumption DEF ZTypeOK
<1>2. Append(history, x) \in Seq(0..MaxRate) /\ Append(seen, x) \in Seq(0..MaxRate)
  BY <1>1
<1>3. history' \in Seq(0..MaxRate) /\ Len(history') <= Window
  BY <1>1, <1>2, LatestTyped DEF Analyse, Admitted, ZTypeOK
<1>4. seen' \in Seq(0..MaxRate) /\ Len(seen') <= Required
  BY <1>1, <1>2, LatestTyped DEF Analyse
<1>5. anomaly_streak' \in Nat
  BY <1>1 DEF Analyse, Streak
<1>6. suppressed' \in 0..MaxSuppressed
  <2>1. suppressed < MaxSuppressed /\ suppressed' \in {suppressed, suppressed + 1}
    BY <1>1 DEF Analyse
  <2> QED
    BY <1>1, <2>1
<1>7. /\ VolumeCandidate(x) \in BOOLEAN /\ NewThreat(x) \in BOOLEAN
      /\ (VolumeCandidate(x) /\ Streak(x) >= Required) \in BOOLEAN
      /\ (VolumeCandidate(x) /\ (announced \/ NewThreat(x))) \in BOOLEAN
  BY Zenon DEF VolumeCandidate, NewThreat
<1>8. verdict' \in [pps : 0..MaxRate, candidate : BOOLEAN, threat : BOOLEAN, new : BOOLEAN]
  BY <1>7 DEF Analyse
<1>9. announced' \in BOOLEAN
  BY <1>7 DEF Analyse
<1> QED
  BY <1>3, <1>4, <1>5, <1>6, <1>8, <1>9 DEF ZTypeOK

LEMMA ZTypeRestore == ZTypeOK /\ Restore => ZTypeOK'
<1> SUFFICES ASSUME ZTypeOK, Restore PROVE ZTypeOK'
  OBVIOUS
<1>1. history' \in Seq(0..MaxRate) /\ Len(history') <= Window
  BY LatestTyped, ZScoreAssumption DEF Restore, ZTypeOK
<1>2. announced' \in BOOLEAN
  BY DEF Restore
<1> QED
  BY <1>1, <1>2, ZScoreAssumption DEF Restore, ZTypeOK

--------------------------------------------------------------------------------
(* The n-th frame of a source to a port is not noted before the others.     *)
Numbered ==
    /\ IsFiniteSet(frames)
    /\ frames \subseteq Sources \X Ports \X Nat
    /\ \A x \in frames : x[3] <= Cardinality({y \in From(x[1]) : y[2] = x[2]})

LEMMA Parts ==
    ASSUME Numbered, NEW s
    PROVE  /\ IsFiniteSet(From(s)) /\ FramesOf(s) \in Nat
           /\ Cardinality(frames) \in Nat /\ FramesOf(s) <= Cardinality(frames)
           /\ FramesOf(s) = 0 <=> From(s) = {}
           /\ PortsOf(s) \subseteq Ports
<1>1. IsFiniteSet(frames) /\ From(s) \subseteq frames
  BY DEF Numbered, From
<1>2. IsFiniteSet(From(s)) /\ Cardinality(From(s)) <= Cardinality(frames)
  BY <1>1, FS_Subset
<1>3. Cardinality(frames) \in Nat /\ Cardinality(From(s)) \in Nat
  BY <1>1, <1>2, FS_CardinalityType
<1>4. Cardinality(From(s)) = 0 <=> From(s) = {}
  BY <1>2, FS_EmptySet
<1>5. PortsOf(s) \subseteq Ports
  BY DEF PortsOf, From, Numbered
<1> QED
  BY <1>2, <1>3, <1>4, <1>5 DEF FramesOf

LEMMA Bounds ==
    /\ MaxRate \in Nat \ {0} /\ Second \in Nat /\ MaxElapsed \in Nat /\ NoSource \notin Sources
    /\ Ports \subseteq Nat /\ Blacklisted \subseteq Sources
    /\ \A f \in Arrivals : f.src \in Sources /\ f.port \in Ports /\ f # NoFrame
BY ZScoreAssumption, IntervalsAssumption DEF NoFrame

(* One frame more, for its own source.                                      *)
LEMMA OneMore ==
    ASSUME Numbered, NEW f \in Arrivals, frames' = FramesWith(f)
    PROVE  /\ Numbered'
           /\ Cardinality(frames') = Cardinality(frames) + 1
           /\ \A s \in Sources :
                /\ FramesOf(s)' = FramesOf(s) + (IF s = f.src THEN 1 ELSE 0)
                /\ PortsOf(s)' = PortsOf(s) \cup (IF s = f.src THEN NewPorts(f) ELSE {})
<1> DEFINE no == Cardinality(Alike(f)) + 1
           new == <<f.src, f.port, no>>
<1>1. IsFiniteSet(Alike(f)) /\ Cardinality(Alike(f)) \in Nat
  <2>1. Alike(f) \subseteq frames
    BY DEF Alike, From
  <2> QED
    BY <2>1, FS_Subset, FS_CardinalityType DEF Numbered
<1>2. f.src \in Sources /\ f.port \in Ports
  BY Bounds
<1>3. /\ frames' = frames \cup {new} /\ new[1] = f.src /\ new[2] = f.port /\ new[3] = no
      /\ new \in Sources \X Ports \X Nat /\ no \in Nat
  BY <1>1, <1>2 DEF FramesWith
<1> HIDE DEF new, no
<1>4. new \notin frames
  <2> SUFFICES ASSUME new \in frames PROVE FALSE
    OBVIOUS
  <2>1. no <= Cardinality({y \in From(f.src) : y[2] = f.port})
    BY <1>3 DEF Numbered
  <2> QED
    BY <1>1, <2>1 DEF Alike, no
<1>5. IsFiniteSet(frames') /\ Cardinality(frames') = Cardinality(frames) + 1
  BY <1>3, <1>4, FS_AddElement DEF Numbered
<1>6. ASSUME NEW s \in Sources
      PROVE  /\ FramesOf(s)' = FramesOf(s) + (IF s = f.src THEN 1 ELSE 0)
             /\ PortsOf(s)' = PortsOf(s) \cup (IF s = f.src THEN NewPorts(f) ELSE {})
  <2>1. From(s)' = From(s) \cup (IF s = f.src THEN {new} ELSE {})
    BY <1>3 DEF From
  <2>2. IsFiniteSet(From(s)) /\ FramesOf(s) \in Nat
    BY Parts
  <2>3. new \notin From(s)
    BY <1>4 DEF From
  <2>4. FramesOf(s)' = FramesOf(s) + (IF s = f.src THEN 1 ELSE 0)
    <3>1. CASE s = f.src
      <4>1. From(s)' = From(s) \cup {new}
        BY <2>1, <3>1
      <4>2. Cardinality(From(s) \cup {new}) = Cardinality(From(s)) + 1
        BY <2>2, <2>3, FS_AddElement
      <4> QED
        BY <3>1, <4>1, <4>2 DEF FramesOf
    <3>2. CASE s # f.src
      BY <2>1, <2>2, <3>2 DEF FramesOf
    <3> QED
      BY <3>1, <3>2
  <2>5. PortsOf(s)' = PortsOf(s) \cup (IF s = f.src THEN NewPorts(f) ELSE {})
    <3>1. CASE s \in Blacklisted
      BY <3>1 DEF PortsOf, NewPorts
    <3>2. CASE s \notin Blacklisted
      <4>1. {x[2] : x \in From(s)'} = {x[2] : x \in From(s)} \cup (IF s = f.src THEN {f.port} ELSE {})
        BY <1>3, <2>1
      <4>2. PortsOf(s) = {x[2] : x \in From(s)} \ {0} /\ PortsOf(s)' = {x[2] : x \in From(s)'} \ {0}
        BY <3>2 DEF PortsOf
      <4>3. s = f.src => NewPorts(f) = {f.port} \ {0}
        BY <3>2 DEF NewPorts
      <4> QED
        BY <4>1, <4>2, <4>3
    <3> QED
      BY <3>1, <3>2
  <2> QED
    BY <2>4, <2>5
<1>7. Numbered'
  <2>1. ASSUME NEW x \in frames' PROVE x[3] <= Cardinality({y \in From(x[1])' : y[2] = x[2]})
    <3> DEFINE Old == {y \in From(x[1]) : y[2] = x[2]}
               New == {y \in From(x[1])' : y[2] = x[2]}
    <3>1. Old \subseteq New /\ IsFiniteSet(New) /\ IsFiniteSet(Old)
      <4>1. Old \subseteq New /\ New \subseteq frames' /\ Old \subseteq frames
        BY <1>3 DEF From
      <4> QED
        BY <1>5, <4>1, FS_Subset DEF Numbered
    <3>2. Cardinality(Old) <= Cardinality(New) /\ Cardinality(Old) \in Nat /\ Cardinality(New) \in Nat
      BY <3>1, FS_Subset, FS_CardinalityType
    <3>3. CASE x \in frames
      <4>1. x[3] <= Cardinality(Old) /\ x[3] \in Nat
        BY <3>3 DEF Numbered
      <4> QED
        BY <3>2, <4>1
    <3>4. CASE x = new
      <4>1. Old = Alike(f) /\ New = Old \cup {new} /\ new \notin Old
        BY <1>3, <1>4, <3>4 DEF Alike, From
      <4>2. Cardinality(New) = Cardinality(Old) + 1
        BY <3>1, <4>1, FS_AddElement
      <4>3. x[3] = Cardinality(Alike(f)) + 1
        BY <1>3, <3>4 DEF no
      <4>4. x[3] = Cardinality(New)
        BY <4>1, <4>2, <4>3
      <4> QED
        BY <3>2, <4>4
    <3> QED
      BY <1>3, <3>3, <3>4
  <2> QED
    BY <1>3, <1>5, <2>1 DEF Numbered
<1> QED
  BY <1>5, <1>6, <1>7

(* A frame is taken only if the interval has room for it; the counters      *)
(* agree with the frames, and so does what is remembered of the scans.      *)
IntervalInv ==
    /\ TypeOK /\ Numbered /\ CountersMatchFrames
    /\ pc = "frame" => in_hand \in Arrivals
    /\ in_hand # NoFrame => packet_count < MaxRate \/ (pc = "timer" /\ elapsed >= Second)
    /\ scanning = scan_active_sources

LEMMA StatsTyped ==
    ASSUME Numbered, CountersMatchFrames, DOMAIN source_stats \subseteq Sources, packet_count <= MaxRate
    PROVE  \A s \in DOMAIN source_stats : source_stats[s] \in [packets : 1..MaxRate, ports : SUBSET Ports]
<1> SUFFICES ASSUME NEW s \in DOMAIN source_stats
             PROVE  source_stats[s] \in [packets : 1..MaxRate, ports : SUBSET Ports]
  OBVIOUS
<1>1. /\ FramesOf(s) # 0 /\ source_stats[s] = [packets |-> FramesOf(s), ports |-> PortsOf(s)]
      /\ packet_count = Cardinality(frames)
  BY DEF CountersMatchFrames
<1>2. FramesOf(s) \in Nat /\ FramesOf(s) <= Cardinality(frames) /\ Cardinality(frames) \in Nat /\ PortsOf(s) \subseteq Ports
  BY Parts
<1>3. FramesOf(s) \in 1..MaxRate
  BY <1>1, <1>2, Bounds
<1> QED
  BY <1>1, <1>2, <1>3

(* The counters of an empty interval.                                       *)
LEMMA Cleared ==
    ASSUME frames' = {}, packet_count' = 0, unique_ports' = {}, source_stats' = NoStats
    PROVE  Numbered' /\ CountersMatchFrames' /\ DOMAIN source_stats' = {}
<1>1. IsFiniteSet({}) /\ Cardinality({}) = 0
  BY FS_EmptySet
<1>2. \A s : From(s)' = {} /\ FramesOf(s)' = 0 /\ PortsOf(s)' = {}
  BY <1>1 DEF From, FramesOf, PortsOf
<1>3. DOMAIN source_stats' = {}
  BY DEF NoStats
<1> QED
  BY <1>1, <1>2, <1>3 DEF Numbered, CountersMatchFrames

LEMMA CountersKept ==
    ASSUME UNCHANGED counterVars
    PROVE  /\ Numbered => Numbered'
           /\ CountersMatchFrames => CountersMatchFrames'
BY DEF counterVars, Numbered, CountersMatchFrames, From, FramesOf, PortsOf

LEMMA CountersGrow ==
    ASSUME TypeOK, Numbered, CountersMatchFrames, in_hand \in Arrivals, packet_count < MaxRate, CountFrame
    PROVE  /\ Numbered' /\ CountersMatchFrames'
           /\ packet_count' \in 0..MaxRate /\ unique_ports' \subseteq Ports
           /\ DOMAIN source_stats' \subseteq Sources
<1> DEFINE f == in_hand
<1>1. /\ frames' = FramesWith(f) /\ packet_count' = packet_count + 1 /\ unique_ports' = unique_ports \cup NewPorts(f)
      /\ source_stats' = [s \in DOMAIN source_stats \cup {f.src} |->
            IF s = f.src
            THEN [packets |-> StatsOf(s).packets + 1, ports |-> StatsOf(s).ports \cup NewPorts(f)]
            ELSE source_stats[s]]
  BY DEF CountFrame
<1>2. f \in Arrivals /\ f.src \in Sources /\ f.port \in Ports /\ NewPorts(f) \subseteq Ports
  BY Bounds DEF NewPorts
<1> HIDE DEF f
<1>3. /\ Numbered' /\ Cardinality(frames') = Cardinality(frames) + 1
      /\ \A s \in Sources :
            /\ FramesOf(s)' = FramesOf(s) + (IF s = f.src THEN 1 ELSE 0)
            /\ PortsOf(s)' = PortsOf(s) \cup (IF s = f.src THEN NewPorts(f) ELSE {})
  BY <1>1, <1>2, OneMore
<1>4. /\ packet_count \in 0..MaxRate /\ unique_ports \subseteq Ports /\ DOMAIN source_stats \subseteq Sources
  BY DEF TypeOK
<1>5. packet_count' = Cardinality(frames')
  BY <1>1, <1>3 DEF CountersMatchFrames
<1>6. unique_ports' = UNION {PortsOf(s)' : s \in Sources}
  <2>1. unique_ports = UNION {PortsOf(s) : s \in Sources}
    BY DEF CountersMatchFrames
  <2>2. ASSUME NEW p PROVE p \in unique_ports' <=> \E s \in Sources : p \in PortsOf(s)'
    BY <1>1, <1>2, <1>3, <2>1
  <2> QED
    BY <2>2
<1>7. ASSUME NEW s \in Sources
      PROVE  IF FramesOf(s)' = 0 THEN s \notin DOMAIN source_stats'
             ELSE /\ s \in DOMAIN source_stats'
                  /\ source_stats'[s] = [packets |-> FramesOf(s)', ports |-> PortsOf(s)']
  <2>1. /\ FramesOf(s) \in Nat /\ (FramesOf(s) = 0 => PortsOf(s) = {})
        /\ FramesOf(s)' = FramesOf(s) + (IF s = f.src THEN 1 ELSE 0)
        /\ PortsOf(s)' = PortsOf(s) \cup (IF s = f.src THEN NewPorts(f) ELSE {})
    BY <1>3, Parts DEF PortsOf
  <2>2. /\ FramesOf(s) = 0 => s \notin DOMAIN source_stats
        /\ FramesOf(s) # 0 => /\ s \in DOMAIN source_stats
                              /\ source_stats[s] = [packets |-> FramesOf(s), ports |-> PortsOf(s)]
    BY DEF CountersMatchFrames
  <2>3. CASE s = f.src
    <3>1. StatsOf(s).packets = FramesOf(s) /\ StatsOf(s).ports = PortsOf(s)
      BY <2>1, <2>2 DEF StatsOf
    <3>2. s \in DOMAIN source_stats' /\ source_stats'[s] = [packets |-> FramesOf(s) + 1, ports |-> PortsOf(s) \cup NewPorts(f)]
      BY <1>1, <2>3, <3>1
    <3> QED
      BY <2>1, <2>3, <3>2
  <2>4. CASE s # f.src
    <3>1. s \in DOMAIN source_stats' <=> s \in DOMAIN source_stats
      BY <1>1, <2>4
    <3>2. s \in DOMAIN source_stats => source_stats'[s] = source_stats[s]
      BY <1>1, <2>4
    <3> QED
      BY <2>1, <2>2, <2>4, <3>1, <3>2
  <2> QED
    BY <2>3, <2>4
<1>8. CountersMatchFrames'
  BY <1>5, <1>6, <1>7 DEF CountersMatchFrames
<1>9. packet_count' \in 0..MaxRate
  BY <1>1, <1>4, Bounds
<1>10. unique_ports' \subseteq Ports /\ DOMAIN source_stats' \subseteq Sources
  BY <1>1, <1>2, <1>4
<1> QED
  BY <1>3, <1>8, <1>9, <1>10

(* The counters are evidence: what IsScan is asked is what the frames say.  *)
LEMMA Evidence ==
    ASSUME Numbered, CountersMatchFrames, DOMAIN source_stats \subseteq Sources
    PROVE  ScanSources = Scanners
<1>1. ASSUME NEW s \in DOMAIN source_stats
      PROVE  source_stats[s].ports = PortsOf(s) /\ source_stats[s].packets = FramesOf(s)
  <2>1. source_stats[s] = [packets |-> FramesOf(s), ports |-> PortsOf(s)]
    BY DEF CountersMatchFrames
  <2> QED
    BY <2>1
<1>2. ASSUME NEW s \in Sources \ DOMAIN source_stats PROVE ~IsScan(Cardinality(PortsOf(s)), FramesOf(s))
  <2>1. FramesOf(s) = 0
    BY DEF CountersMatchFrames
  <2> QED
    BY <2>1 DEF IsScan, PlausibleScan
<1> QED
  BY <1>1, <1>2 DEF ScanSources, Scanners

LEMMA Named ==
    ASSUME TypeOK, NEW src \in DominantSources
    PROVE  src \in Sources \cup {NoSource}
BY DEF DominantSources, Loudest, TypeOK

LEMMA IntervalStart == Init => IntervalInv
<1> SUFFICES ASSUME Init PROVE IntervalInv
  OBVIOUS
<1>1. ZTypeOK
  BY ZTypeStart DEF Init
<1>2. IsFiniteSet({}) /\ Cardinality({}) = 0
  BY FS_EmptySet
<1>3. \A s : From(s) = {} /\ FramesOf(s) = 0 /\ PortsOf(s) = {}
  BY <1>2 DEF Init, From, FramesOf, PortsOf
<1>4. DOMAIN source_stats = {}
  BY DEF Init, NoStats
<1>5. Numbered /\ CountersMatchFrames
  BY <1>2, <1>3, <1>4 DEF Init, Numbered, CountersMatchFrames
<1>6. TypeOK
  BY <1>1, <1>4, Bounds DEF Init, TypeOK
<1> QED
  BY <1>5, <1>6 DEF Init, IntervalInv

LEMMA IntervalStep == IntervalInv /\ [Next]_vars => IntervalInv'
<1> SUFFICES ASSUME IntervalInv, [Next]_vars PROVE IntervalInv'
  OBVIOUS
<1>1. /\ TypeOK /\ Numbered /\ CountersMatchFrames
      /\ pc = "frame" => in_hand \in Arrivals
      /\ in_hand # NoFrame => packet_count < MaxRate \/ (pc = "timer" /\ elapsed >= Second)
      /\ scanning = scan_active_sources
  BY DEF IntervalInv
<1>2. ASSUME UNCHANGED zVars PROVE ZTypeOK'
  BY <1>1, <1>2 DEF TypeOK, ZTypeOK, zVars
<1>3. AfterTimer \in {"get", "frame"} /\ (AfterTimer = "frame" => in_hand \in Arrivals)
  BY <1>1 DEF AfterTimer, TypeOK
<1>4. (* a step that counts nothing *)
      ASSUME UNCHANGED <<zVars, counterVars, scanVars>>, elapsed' \in 0..MaxElapsed, alerts' = {},
             pc' \in {"get", "timer", "frame"}, in_hand' \in Arrivals \cup {NoFrame},
             pc' = "frame" => in_hand' \in Arrivals,
             in_hand' # NoFrame => packet_count < MaxRate \/ (pc' = "timer" /\ elapsed' >= Second)
      PROVE  IntervalInv'
  <2>1. Numbered' /\ CountersMatchFrames'
    BY <1>1, <1>4, CountersKept
  <2>2. TypeOK'
    BY <1>1, <1>2, <1>4 DEF TypeOK, counterVars, scanVars
  <2> QED
    BY <1>1, <1>4, <2>1, <2>2 DEF IntervalInv, counterVars, scanVars
<1>5. CASE Tick
  <2>1. elapsed' \in 0..MaxElapsed /\ (elapsed >= Second => elapsed' >= Second)
    BY <1>1, <1>5, Bounds DEF Tick, TypeOK
  <2> QED
    BY <1>1, <1>4, <1>5, <2>1 DEF Tick, TypeOK
<1>6. ASSUME NEW frame \in Arrivals \cup {NoFrame}, Get(frame) PROVE IntervalInv'
  BY <1>1, <1>4, <1>6 DEF Get, TypeOK
<1>7. CASE TimerNotDue
  BY <1>1, <1>3, <1>4, <1>7, Bounds DEF TimerNotDue, TypeOK
<1>8. CASE TimerChecks
  <2>1. /\ ResetCounters /\ pc = "timer" /\ pc' = AfterTimer /\ in_hand' = in_hand /\ Analyse(packet_count)
        /\ scan_active_sources' = ScanSources /\ scanning' = Scanners
    BY <1>8 DEF TimerChecks
  <2>2. Numbered' /\ CountersMatchFrames' /\ DOMAIN source_stats' = {}
    BY <2>1, Cleared DEF ResetCounters
  <2>3. packet_count' < MaxRate /\ packet_count' = 0 /\ elapsed' = 0 /\ unique_ports' = {}
    BY <1>1, <2>1, Bounds DEF ResetCounters, TypeOK
  <2>4. ZTypeOK'
    BY <1>1, <2>1, ZTypeAnalyse DEF TypeOK
  <2>5. ScanSources = Scanners /\ ScanSources \subseteq Sources
    BY <1>1, Evidence DEF TypeOK, ScanSources
  <2>6. alerts' \subseteq [kind : Kinds, src : Sources \cup {NoSource}]
    <3>1. PICK src \in DominantSources, novel \in BOOLEAN :
             alerts' = (IF verdict'.new THEN {Alert("ddos", src)} ELSE {})
                       \cup {Alert("scan", s) : s \in NewScans}
                       \cup (IF novel /\ ScanSources = {} /\ ~verdict'.threat THEN {Alert("anomaly", src)} ELSE {})
      BY <1>8 DEF TimerChecks
    <3>2. src \in Sources \cup {NoSource} /\ NewScans \subseteq Sources
      BY <1>1, <2>5, Named DEF NewScans
    <3>3. ASSUME NEW a \in alerts' PROVE a \in [kind : Kinds, src : Sources \cup {NoSource}]
      <4>1. \E kind \in {"ddos", "scan", "anomaly"}, s \in Sources \cup {NoSource} : a = Alert(kind, s)
        BY <3>1, <3>2
      <4> QED
        BY <4>1 DEF Alert, Kinds
    <3> QED
      BY <3>3
  <2>7. TypeOK'
    BY <1>1, <1>3, <2>1, <2>2, <2>3, <2>4, <2>5, <2>6, Bounds DEF TypeOK
  <2> QED
    BY <1>3, <2>1, <2>2, <2>3, <2>5, <2>7 DEF IntervalInv
<1>9. CASE FrameIgnored
  BY <1>1, <1>4, <1>9 DEF FrameIgnored, TypeOK
<1>10. CASE CountFrame
  <2>1. /\ in_hand \in Arrivals /\ packet_count < MaxRate /\ pc' = "get" /\ in_hand' = NoFrame
        /\ UNCHANGED <<zVars, elapsed, scanVars>>
    BY <1>1, <1>10, Bounds DEF CountFrame
  <2>2. /\ Numbered' /\ CountersMatchFrames'
        /\ packet_count' \in 0..MaxRate /\ unique_ports' \subseteq Ports
        /\ DOMAIN source_stats' \subseteq Sources
    BY <1>1, <1>10, <2>1, CountersGrow
  <2>3. \A s \in DOMAIN source_stats' : source_stats'[s] \in [packets : 1..MaxRate, ports : SUBSET Ports]
    <3>1. packet_count' <= MaxRate
      BY <2>2, Bounds
    <3>2. (Numbered /\ CountersMatchFrames /\ DOMAIN source_stats \subseteq Sources /\ packet_count <= MaxRate
           => \A s \in DOMAIN source_stats : source_stats[s] \in [packets : 1..MaxRate, ports : SUBSET Ports])'
      BY StatsTyped, PTL
    <3> QED
      BY <2>2, <3>1, <3>2
  <2>4. alerts' \subseteq [kind : Kinds, src : Sources \cup {NoSource}]
    <3>1. in_hand.src \in Sources
      BY <2>1, Bounds
    <3>2. ASSUME NEW a \in alerts' PROVE a = Alert("blacklist", in_hand.src) \/ a = Alert("payload", in_hand.src)
      BY <1>10 DEF CountFrame
    <3> QED
      BY <3>1, <3>2 DEF Alert, Kinds
  <2>5. TypeOK'
    BY <1>1, <1>2, <2>1, <2>2, <2>3, <2>4 DEF TypeOK, scanVars
  <2> QED
    BY <1>1, <2>1, <2>2, <2>5 DEF IntervalInv, scanVars
<1>11. CASE Restart
  <2>1. Restore /\ ResetCounters /\ scan_active_sources' = {} /\ scanning' = {} /\ alerts' = {} /\ pc' = "get"
        /\ in_hand' = NoFrame
    BY <1>11 DEF Restart
  <2>2. Numbered' /\ CountersMatchFrames' /\ DOMAIN source_stats' = {}
    BY <2>1, Cleared DEF ResetCounters
  <2>3. ZTypeOK'
    BY <1>1, <2>1, ZTypeRestore DEF TypeOK
  <2>4. TypeOK'
    BY <2>1, <2>2, <2>3, Bounds DEF TypeOK, ResetCounters
  <2> QED
    BY <2>1, <2>2, <2>4 DEF IntervalInv
<1>12. CASE UNCHANGED vars
  <2>1. Numbered' /\ CountersMatchFrames'
    BY <1>1, <1>12, CountersKept DEF vars
  <2>2. TypeOK'
    BY <1>1, <1>2, <1>12 DEF TypeOK, vars, counterVars, scanVars
  <2> QED
    BY <1>1, <1>12, <2>1, <2>2 DEF IntervalInv, vars, counterVars, scanVars
<1> QED
  BY <1>5, <1>6, <1>7, <1>8, <1>9, <1>10, <1>11, <1>12 DEF Next

(* Each frame that is in scope counts once, for its source and its          *)
(* interval, and nothing outlives the interval (sensor.py:185-213).         *)
THEOREM FramesCountOnce == Spec => []CountersConsistent
<1>1. IntervalInv => CountersConsistent
  BY DEF IntervalInv, CountersConsistent
<1>2. QED
  BY <1>1, IntervalStart, IntervalStep, PTL DEF Spec

(* An alert names a source only on the evidence of its own frames           *)
(* (sensor.py:264-284).                                                     *)
THEOREM NamedOnEvidence == Spec => AttributionHonest
<1> DEFINE Honest(a) ==
               /\ FramesOf(a.src) > 0
               /\ 100 * FramesOf(a.src) >= MinShare * Cardinality(frames)
               /\ \A s \in Sources : FramesOf(s) <= FramesOf(a.src)
           AllHonest == \A a \in alerts' : a.kind \in {"ddos", "anomaly"} /\ a.src # NoSource => Honest(a)
<1>1. IntervalInv /\ [Next]_vars => [AllHonest]_vars
  <2> SUFFICES ASSUME IntervalInv, Next, NEW a \in alerts', a.kind \in {"ddos", "anomaly"}, a.src # NoSource
               PROVE  Honest(a)
    OBVIOUS
  <2>1. TypeOK /\ Numbered /\ CountersMatchFrames
    BY DEF IntervalInv
  <2>2. TimerChecks
    <3>1. CountFrame => a.kind \in {"blacklist", "payload"}
      BY DEF CountFrame, Alert
    <3>2. alerts' # {}
      OBVIOUS
    <3> QED
      BY <3>1, <3>2 DEF Next, Tick, Get, TimerNotDue, FrameIgnored, Restart
  <2>3. a.src \in DominantSources
    BY <2>2 DEF TimerChecks, Alert
  <2>4. a.src \in Loudest /\ 100 * source_stats[a.src].packets >= MinShare * packet_count
    BY <2>3 DEF DominantSources
  <2>5. /\ a.src \in DOMAIN source_stats
        /\ \A t \in DOMAIN source_stats : source_stats[t].packets <= source_stats[a.src].packets
    BY <2>4 DEF Loudest
  <2>6. ASSUME NEW s \in DOMAIN source_stats
        PROVE  s \in Sources /\ source_stats[s].packets = FramesOf(s) /\ FramesOf(s) # 0
    <3>1. s \in Sources
      BY <2>1 DEF TypeOK
    <3>2. FramesOf(s) # 0 /\ source_stats[s] = [packets |-> FramesOf(s), ports |-> PortsOf(s)]
      BY <2>1, <3>1 DEF CountersMatchFrames
    <3> QED
      BY <3>1, <3>2
  <2>7. \A s \in Sources : s \notin DOMAIN source_stats => FramesOf(s) = 0
    BY <2>1 DEF CountersMatchFrames
  <2>8. \A s : FramesOf(s) \in Nat
    BY <2>1, Parts
  <2>9. packet_count = Cardinality(frames)
    BY <2>1 DEF CountersMatchFrames
  <2>10. \A s \in Sources : FramesOf(s) <= FramesOf(a.src)
    BY <2>5, <2>6, <2>7, <2>8
  <2> QED
    BY <2>4, <2>5, <2>6, <2>8, <2>9, <2>10
<1>2. QED
  BY <1>1, IntervalStart, IntervalStep, PTL DEF Spec, AttributionHonest

(* A flood is reported in the step in which its episode is announced, and   *)
(* in no other, however long it lasts (sensor.py:230-240).                  *)
THEOREM OneAlertPerFlood == Spec => FloodReportedOnce
<1> DEFINE Reported == \E a \in alerts' : a.kind = "ddos"
           Once == Reported <=> (~announced /\ announced')
<1>1. StreakInv /\ [Next]_vars => [Once]_vars
  <2> SUFFICES ASSUME StreakInv, Next PROVE Once
    OBVIOUS
  <2>1. CASE TimerChecks
    <3>1. packet_count \in Nat /\ Analyse(packet_count) /\ packet_count' = 0
      BY <2>1 DEF TimerChecks, ResetCounters, StreakInv
    <3>2. verdict'.new <=> (~announced /\ announced')
      BY <3>1, StreakAnalyse
    <3>3. PICK src \in DominantSources, novel \in BOOLEAN :
             alerts' = (IF verdict'.new THEN {Alert("ddos", src)} ELSE {})
                       \cup {Alert("scan", s) : s \in NewScans}
                       \cup (IF novel /\ ScanSources = {} /\ ~verdict'.threat THEN {Alert("anomaly", src)} ELSE {})
      BY <2>1 DEF TimerChecks
    <3>4. verdict'.new => Alert("ddos", src) \in alerts' /\ Alert("ddos", src).kind = "ddos"
      BY <3>3 DEF Alert
    <3>5. ~verdict'.new => \A a \in alerts' : a.kind \in {"scan", "anomaly"}
      BY <3>3 DEF Alert
    <3>6. Reported <=> verdict'.new
      BY <3>4, <3>5
    <3> QED
      BY <3>2, <3>6
  <2>2. CASE CountFrame
    <3>1. \A a \in alerts' : a.kind \in {"blacklist", "payload"}
      BY <2>2 DEF CountFrame, Alert
    <3>2. announced' = announced
      BY <2>2 DEF CountFrame, zVars
    <3> QED
      BY <3>1, <3>2
  <2>3. CASE alerts' = {} /\ (announced' = announced \/ announced' = FALSE)
    BY <2>3
  <2> QED
    BY <2>1, <2>2, <2>3 DEF Next, Tick, Get, TimerNotDue, FrameIgnored, Restart, Restore, zVars
<1>2. QED
  BY <1>1, StreakStart, StreakStep, PTL DEF Spec, FloodReportedOnce

(* A scan is reported in the interval in which the frames of a source first *)
(* look like one (sensor.py:243-262).                                       *)
THEOREM OneAlertPerScan == Spec => ScanReportedOnce
<1> DEFINE Once == TimerChecks => {a.src : a \in {a \in alerts' : a.kind = "scan"}} = Scanners \ scanning
<1>1. IntervalInv /\ [Next]_vars => [Once]_vars
  <2> SUFFICES ASSUME IntervalInv, TimerChecks
               PROVE  {a.src : a \in {a \in alerts' : a.kind = "scan"}} = Scanners \ scanning
    OBVIOUS
  <2>1. ScanSources = Scanners /\ scanning = scan_active_sources
    BY Evidence DEF IntervalInv, TypeOK
  <2>2. PICK src \in DominantSources, novel \in BOOLEAN :
           alerts' = (IF verdict'.new THEN {Alert("ddos", src)} ELSE {})
                     \cup {Alert("scan", s) : s \in NewScans}
                     \cup (IF novel /\ ScanSources = {} /\ ~verdict'.threat THEN {Alert("anomaly", src)} ELSE {})
    BY DEF TimerChecks
  <2>3. {a \in alerts' : a.kind = "scan"} = {Alert("scan", s) : s \in NewScans}
    BY <2>2 DEF Alert
  <2>4. {a.src : a \in {Alert("scan", s) : s \in NewScans}} = NewScans
    <3>1. \A s : Alert("scan", s).src = s
      BY DEF Alert
    <3>2. ASSUME NEW s PROVE s \in {a.src : a \in {Alert("scan", t) : t \in NewScans}} <=> s \in NewScans
      <4>1. s \in NewScans => Alert("scan", s) \in {Alert("scan", t) : t \in NewScans}
        OBVIOUS
      <4> QED
        BY <3>1, <4>1
    <3> QED
      BY <3>2
  <2> QED
    BY <2>1, <2>3, <2>4 DEF NewScans
<1>2. QED
  BY <1>1, IntervalStart, IntervalStep, PTL DEF Spec, ScanReportedOnce

(* Scans and floods are reported at their onset and only then, however they *)
(* overlap and however often the sensor restarts (sensor.py:230-262).       *)
THEOREM OnsetsReported == Spec => ReportedOnce
BY OneAlertPerFlood, OneAlertPerScan, PTL DEF ReportedOnce

--------------------------------------------------------------------------------
(* The score is a number whatever the window holds: sums have a value.      *)
LEMMA Least ==
    ASSUME NEW S \in SUBSET Nat, S # {}
    PROVE  \E x \in S : \A y \in S : x <= y
<1>1. PICK x \in S : \A y \in S : ~(<<y, x>> \in OpToRel(<, Nat))
  BY NatLessThanWellFounded, WFMin
<1>2. ASSUME NEW y \in S PROVE x <= y
  <2>1. <<y, x>> \in Nat \X Nat /\ ~(<<y, x>> \in OpToRel(<, Nat))
    BY <1>1
  <2> QED
    BY <2>1 DEF OpToRel
<1> QED
  BY <1>2

(* f holds the partial sums of the first n samples. *)
Sums(s, n, f) == f = [i \in 0..n |-> IF i = 0 THEN 0 ELSE f[i - 1] + s[i]]

LEMMA SumsExist ==
    ASSUME NEW s \in Seq(Int), NEW n \in 0..Len(s)
    PROVE  \E f \in [0..n -> Int] : Sums(s, n, f)
<1> DEFINE Has(m) == \E f \in [0..m -> Int] : Sums(s, m, f)
           Without == {m \in 0..Len(s) : ~Has(m)}
<1>1. SUFFICES ASSUME Without # {} PROVE FALSE
  OBVIOUS
<1>2. PICK m \in Without : \A k \in Without : m <= k
  <2>1. Without \in SUBSET Nat
    OBVIOUS
  <2> HIDE DEF Without
  <2> QED
    BY <1>1, <2>1, Least
<1>3. m \in 0..Len(s) /\ ~Has(m) /\ m \in Nat
  BY <1>2
<1>4. m # 0
  <2> DEFINE f == [i \in 0..0 |-> 0]
  <2>1. f \in [0..0 -> Int] /\ f = [i \in 0..0 |-> IF i = 0 THEN 0 ELSE f[i - 1] + s[i]]
    OBVIOUS
  <2>2. Has(0)
    BY <2>1, Zenon DEF Sums
  <2> QED
    BY <1>3, <2>2
<1>5. Has(m - 1)
  <2>1. m - 1 \in 0..Len(s) /\ ~(m <= m - 1)
    BY <1>3, <1>4
  <2> QED
    BY <1>2, <2>1
<1>6. PICK f \in [0..(m - 1) -> Int] : Sums(s, m - 1, f)
  BY <1>5
<1> DEFINE g == [i \in 0..m |-> IF i = 0 THEN 0 ELSE f[i - 1] + s[i]]
<1>7. \A i \in 1..m : i - 1 \in 0..(m - 1) /\ s[i] \in Int
  BY <1>3
<1>8. g \in [0..m -> Int]
  BY <1>3, <1>6, <1>7
<1>9. \A i \in 0..(m - 1) : g[i] = f[i]
  BY <1>3, <1>6, SMTT(30) DEF Sums
<1>10. g = [i \in 0..m |-> IF i = 0 THEN 0 ELSE g[i - 1] + s[i]]
  <2>1. \A i \in 0..m : (IF i = 0 THEN 0 ELSE f[i - 1] + s[i]) = (IF i = 0 THEN 0 ELSE g[i - 1] + s[i])
    <3>1. \A i \in 1..m : f[i - 1] = g[i - 1]
      BY <1>7, <1>9
    <3> HIDE DEF g
    <3> QED
      BY <1>3, <3>1
  <2> HIDE DEF g
  <2>2. g = [i \in 0..m |-> IF i = 0 THEN 0 ELSE f[i - 1] + s[i]]
    BY DEF g
  <2> QED
    BY <2>1, <2>2, Zenon
<1> HIDE DEF g
<1>11. QED
  BY <1>3, <1>8, <1>10, Zenon DEF Sums

LEMMA TotalTyped == ASSUME NEW s \in Seq(Int) PROVE Total(s) \in Int
<1> DEFINE upTo == CHOOSE f : Sums(s, Len(s), f)
           Untyped == {i \in 0..Len(s) : upTo[i] \notin Int}
<1>1. Sums(s, Len(s), upTo)
  <2>1. \E f : Sums(s, Len(s), f)
    BY SumsExist, Len(s) \in 0..Len(s)
  <2> QED
    BY <2>1, Zenon
<1>2. Total(s) = upTo[Len(s)]
  BY Zenon DEF Total, Sums
<1> HIDE DEF upTo
<1>3. \A i \in 0..Len(s) : upTo[i] = IF i = 0 THEN 0 ELSE upTo[i - 1] + s[i]
  BY <1>1 DEF Sums
<1>4. Untyped = {}
  <2>1. SUFFICES ASSUME Untyped # {} PROVE FALSE
    OBVIOUS
  <2>2. PICK i \in Untyped : \A k \in Untyped : i <= k
    <3>1. Untyped \in SUBSET Nat
      OBVIOUS
    <3> HIDE DEF Untyped
    <3> QED
      BY <2>1, <3>1, Least
  <2>3. i \in 0..Len(s) /\ upTo[i] \notin Int /\ i # 0
    BY <1>3, <2>2
  <2>4. i - 1 \in 0..Len(s) /\ ~(i <= i - 1) /\ s[i] \in Int
    BY <2>3
  <2>5. upTo[i - 1] \in Int
    BY <2>2, <2>4
  <2> QED
    BY <1>3, <2>3, <2>4, <2>5
<1> QED
  BY <1>2, <1>4

LEMMA SpreadTyped ==
    ASSUME NEW s \in Seq(Int)
    PROVE  Len(s) \in Nat /\ Total(s) \in Int /\ Spread(s) \in Int
<1>1. [i \in 1..Len(s) |-> s[i] * s[i]] \in Seq(Int)
  OBVIOUS
<1>2. Squares(s) \in Int
  BY <1>1, TotalTyped DEF Squares
<1> QED
  BY <1>2, TotalTyped DEF Spread

LEMMA SquareGrows ==
    ASSUME NEW a \in Int, NEW b \in Int, a > 0, a <= b
    PROVE  a * a <= b * b
<1>1. PICK d \in Nat : b = a + d
  BY b - a \in Nat, b = a + (b - a)
<1>2. b * b = a * a + 2 * (a * d) + d * d
  BY <1>1
<1>3. a * d >= 0 /\ d * d >= 0 /\ a * d \in Int /\ d * d \in Int /\ a * a \in Int
  OBVIOUS
<1> QED
  BY <1>2, <1>3

LEMMA ExcessGrows ==
    ASSUME NEW n \in Nat, NEW x \in Int, NEW y \in Int, x <= y
    PROVE  n * x <= n * y
<1>1. PICK d \in Nat : y = x + d
  BY y - x \in Nat, y = x + (y - x)
<1>2. n * y = n * x + n * d /\ n * d >= 0 /\ n * d \in Int /\ n * x \in Int
  BY <1>1
<1> QED
  BY <1>2

(* Against one baseline, what is said of a rate holds of every higher one.  *)
LEMMA HigherIsCandidate ==
    ASSUME history \in Seq(Int), NEW x \in Int, NEW y \in Int, x <= y, VolumeCandidate(x)
    PROVE  VolumeCandidate(y)
<1> DEFINE near == Excess(history, x)
           far  == Excess(history, y)
           limit == Threshold * Threshold * Spread(history)
<1>1. Len(history) \in Nat /\ Total(history) \in Int /\ Spread(history) \in Int
  BY SpreadTyped
<1>2. near \in Int /\ far \in Int /\ near <= far
  <2>1. Len(history) * x <= Len(history) * y
    BY <1>1, ExcessGrows
  <2>2. Len(history) * x \in Int /\ Len(history) * y \in Int
    BY <1>1
  <2> QED
    BY <1>1, <2>1, <2>2 DEF Excess
<1>3. limit \in Int
  BY <1>1, ZScoreAssumption
<1>4. near > 0 /\ near * near > limit /\ x >= MinPps
  BY DEF VolumeCandidate, StatisticalAnomaly
<1> HIDE DEF near, far, limit
<1>5. near * near <= far * far /\ near * near \in Int /\ far * far \in Int
  BY <1>2, <1>4, SquareGrows
<1>6. far > 0 /\ far * far > limit
  BY <1>2, <1>3, <1>4, <1>5
<1>7. y >= MinPps
  BY <1>4, ZScoreAssumption
<1> QED
  BY <1>6, <1>7 DEF far, limit, VolumeCandidate, StatisticalAnomaly

(* A candidate would still be one: the baseline that told it has not moved. *)
Standing ==
    /\ IntervalInv
    /\ verdict.candidate => VolumeCandidate(verdict.pps)

LEMMA SameBaseline ==
    ASSUME history' = history, NEW x
    PROVE  VolumeCandidate(x)' <=> VolumeCandidate(x)
BY DEF VolumeCandidate, StatisticalAnomaly

LEMMA RestoredWhole == ASSUME ZTypeOK, Restore PROVE history' = history
<1>1. history' = SubSeq(history, 1, Len(history)) /\ history \in Seq(0..MaxRate)
  <2>1. history \in Seq(0..MaxRate) /\ ~(Len(history) > Window)
    BY ZScoreAssumption DEF ZTypeOK
  <2> QED
    BY <2>1 DEF Restore, Latest
<1> QED
  BY <1>1

LEMMA AnalyseStands ==
    ASSUME GuardBaseline, NEW x, Analyse(x), verdict'.candidate
    PROVE  verdict'.pps = x /\ VolumeCandidate(x) /\ history' = history
<1>1. verdict'.pps = x /\ VolumeCandidate(x)
  BY DEF Analyse
<1> QED
  BY <1>1 DEF Analyse, Admitted

LEMMA StandingStep == ASSUME GuardBaseline PROVE Standing /\ [Next]_vars => Standing'
<1> SUFFICES ASSUME Standing, [Next]_vars, verdict'.candidate PROVE VolumeCandidate(verdict.pps)'
  BY IntervalStep DEF Standing
<1>1. IntervalInv /\ ZTypeOK
  BY DEF Standing, IntervalInv, TypeOK
<1>2. CASE UNCHANGED zVars
  <2>1. verdict' = verdict /\ history' = history
    BY <1>2 DEF zVars
  <2> QED
    BY <2>1, SameBaseline DEF Standing
<1>3. CASE TimerChecks
  <2>1. verdict'.pps = packet_count /\ VolumeCandidate(packet_count) /\ history' = history
    BY <1>3, AnalyseStands DEF TimerChecks
  <2> QED
    BY <2>1, SameBaseline
<1>4. CASE Restart
  <2>1. history' = history /\ verdict' = verdict
    BY <1>1, <1>4, RestoredWhole DEF Restart, Restore
  <2> QED
    BY <2>1, SameBaseline DEF Standing
<1> QED
  BY <1>2, <1>3, <1>4 DEF Next, vars, Tick, Get, TimerNotDue, FrameIgnored, CountFrame

(* While the guard is on a flood does not raise the baseline it is measured *)
(* against (z_score.py:150-166): a rate at least as high as one that was a  *)
(* candidate is a candidate in the next interval, a restart included.       *)
THEOREM FloodStaysVisible == ASSUME GuardBaseline PROVE Spec => FloodNotAbsorbed
<1> DEFINE Stays == verdict.candidate /\ verdict'.pps >= verdict.pps => verdict'.candidate
<1>1. Init => Standing
  BY IntervalStart DEF Init, ZInit, NoVerdict, Standing
<1>2. Standing /\ [Next]_vars => [Stays]_zVars
  <2> SUFFICES ASSUME Standing, Next, ~UNCHANGED zVars, verdict.candidate, verdict'.pps >= verdict.pps
               PROVE  verdict'.candidate
    BY DEF vars
  <2>1. TimerChecks \/ Restart
    BY DEF Next, Tick, Get, TimerNotDue, FrameIgnored, CountFrame
  <2>2. CASE Restart
    BY <2>2 DEF Restart, Restore
  <2>3. CASE TimerChecks
    <3>1. Analyse(packet_count) /\ verdict'.pps = packet_count
      BY <2>3 DEF TimerChecks, Analyse
    <3>2. /\ history \in Seq(0..MaxRate) /\ verdict.pps \in 0..MaxRate
          /\ packet_count \in 0..MaxRate /\ MaxRate \in Nat
      BY ZScoreAssumption DEF Standing, IntervalInv, TypeOK, ZTypeOK
    <3>3. history \in Seq(Int) /\ verdict.pps \in Int /\ packet_count \in Int
      BY <3>2
    <3>4. VolumeCandidate(packet_count)
      BY <3>1, <3>3, HigherIsCandidate DEF Standing
    <3> QED
      BY <3>1, <3>4 DEF Analyse
  <2> QED
    BY <2>1, <2>2, <2>3
<1>3. GuardBaseline
  OBVIOUS
<1>4. Standing /\ [Next]_vars => Standing'
  BY <1>3, StandingStep
<1> QED
  BY <1>1, <1>2, <1>4, PTL DEF Spec, FloodNotAbsorbed
================================================================================
