------------------------------ MODULE Replay_proofs ------------------------------
(***************************************************************************)
(* The offline replay, for every set of frames, any number of records and  *)
(* every order of their time stamps: nothing of a capture escapes the      *)
(* analysis, every step but those at a silent second and at a frame of the *)
(* dashboard is a step of the live sensor, and the parser in front of it    *)
(* reads no byte it does not have.                                          *)
(***************************************************************************)
EXTENDS Replay, SequenceTheorems, TLAPS

(* Every decoded packet is in a second that was analysed or in the one at   *)
(* hand, which is empty once the file has been replayed.                    *)
Accounted ==
    /\ packet_count \in Nat /\ analysed \in Int
    /\ counts \in [records : Int, packets : Int, dropped : Int]
    /\ counts.packets = analysed + packet_count
    /\ pc = "done" => packet_count = 0

(* Whatever else is done with a second that is closed, its packets are      *)
(* analysed; the boundary and the end of the file then clear the counter.   *)
LEMMA Closing ==
    ASSUME Accounted, Boundary \/ LastSecond
    PROVE  /\ analysed' + packet_count' = analysed + packet_count
           /\ analysed' \in Int /\ packet_count' \in Nat
           /\ counts' = counts
           /\ LastSecond => packet_count' = 0
           /\ Boundary => pc' = "frame"
<1> DEFINE Cleared == CloseSecond /\ FreshCounters
           Left == UNCHANGED engineVars /\ UNCHANGED counterVars
           Emptied == packet_count = 0 /\ UNCHANGED engineVars /\ FreshCounters
<1>1. packet_count \in Nat /\ analysed \in Int
  BY DEF Accounted
<1>2. /\ counts' = counts
      /\ Boundary => pc' = "frame"
      /\ LastSecond => pc' = "done" /\ pc = "last"
      /\ Boundary => pc = "close"
  BY DEF Boundary, LastSecond
<1>3. Boundary => Cleared \/ Left \/ Emptied
  BY <1>1 DEF Boundary
<1>4. LastSecond => Cleared \/ (packet_count = 0 /\ Left)
  BY <1>1 DEF LastSecond
<1>5. Cleared => analysed' = analysed + packet_count /\ packet_count' = 0
  BY DEF CloseSecond, FreshCounters
<1>6. Left => analysed' = analysed /\ packet_count' = packet_count
  BY DEF engineVars, counterVars
<1>7. Emptied => packet_count = 0 /\ analysed' = analysed /\ packet_count' = 0
  BY DEF engineVars, FreshCounters
<1> HIDE DEF Cleared, Left, Emptied
<1>8. LastSecond => packet_count' = 0
  BY <1>1, <1>4, <1>5, <1>6
<1>9. analysed' + packet_count' = analysed + packet_count /\ analysed' \in Int /\ packet_count' \in Nat
  BY <1>1, <1>3, <1>4, <1>5, <1>6, <1>7
<1>10. QED
  BY <1>2, <1>8, <1>9

LEMMA AccountedStep == Accounted /\ [Next]_vars => Accounted'
<1> SUFFICES ASSUME Accounted, [Next]_vars PROVE Accounted'
  OBVIOUS
<1>1. CASE Boundary
  BY <1>1, Closing DEF Accounted
<1>2. CASE LastSecond
  BY <1>2, Closing DEF Accounted
<1>3. CASE Count
  BY <1>3 DEF Count, Accounted, engineVars
<1>4. CASE Skip
  BY <1>4 DEF Skip, Accounted, engineVars, counterVars
<1>5. ASSUME NEW second \in 0..MaxSecond, ReadHeader(second) PROVE Accounted'
  BY <1>5 DEF ReadHeader, Accounted, engineVars, counterVars
<1>6. CASE UNCHANGED <<packet_count, analysed, counts>> /\ (pc' # "done" \/ pc' = pc)
  BY <1>6 DEF Accounted
<1>7. QED
  BY <1>1, <1>2, <1>3, <1>4, <1>5, <1>6
  DEF Next, ReadData, FileEnds, LoopEnds, vars, engineVars, counterVars

(* However a capture is cut and its stamps run, each packet the parser      *)
(* accepted is in a second the engines were given (replay.py:181-234).      *)
THEOREM EveryPacketAnalysed == Spec => []NothingLost
<1>1. Init => Accounted
  BY DEF Init, Accounted
<1>2. Accounted => NothingLost
  BY DEF Accounted, NothingLost
<1>3. QED
  BY <1>1, <1>2, AccountedStep, PTL DEF Spec

--------------------------------------------------------------------------------
(* The rolling baseline and the streak stay typed, as in the live sensor.   *)
LEMMA LatestTyped ==
    ASSUME NEW S, NEW s \in Seq(S), NEW size \in Nat \ {0}
    PROVE  Latest(s, size) \in Seq(S) /\ Len(Latest(s, size)) <= size
<1> DEFINE cut == IF Len(s) > size THEN Len(s) - size ELSE 0
<1>1. cut \in Nat /\ cut <= Len(s) /\ Len(s) - cut <= size /\ Len(s) \in Nat
  OBVIOUS
<1>2. Latest(s, size) = SubSeq(s, 1 + cut, Len(s))
  BY DEF Latest
<1> HIDE DEF cut
<1>3. 1 + cut \in 1..(Len(s) + 1) /\ Len(s) \in cut..Len(s)
  BY <1>1
<1>4. SubSeq(s, 1 + cut, Len(s)) \in Seq(S) /\ Len(SubSeq(s, 1 + cut, Len(s))) = Len(s) - cut
  BY <1>1, <1>3, SubSeqProperties
<1> QED
  BY <1>1, <1>2, <1>4

LEMMA ZTypeStart == ZInit => ZTypeOK
<1> SUFFICES ASSUME ZInit PROVE ZTypeOK
  OBVIOUS
<1>1. history \in Seq(0..MaxRate) /\ Len(history) <= Window
  BY LatestTyped, ZScoreAssumption DEF ZInit
<1>2. verdict \in [pps : 0..MaxRate, candidate : BOOLEAN, threat : BOOLEAN, new : BOOLEAN]
  <2>1. 0 \in 0..MaxRate
    BY ZScoreAssumption
  <2> QED
    BY <2>1 DEF ZInit, NoVerdict
<1>3. announced \in BOOLEAN
  BY DEF ZInit
<1> QED
  BY <1>1, <1>2, <1>3, ZScoreAssumption DEF ZInit, ZTypeOK

LEMMA ZTypeAnalyse ==
    ASSUME ZTypeOK, NEW x \in 0..MaxRate, Analyse(x)
    PROVE  ZTypeOK'
<1>1. /\ Window \in Nat \ {0} /\ Required \in Nat \ {0} /\ MaxSuppressed \in Nat /\ MaxRate \in Nat
      /\ history \in Seq(0..MaxRate) /\ seen \in Seq(0..MaxRate)
      /\ anomaly_streak \in Nat /\ suppressed \in 0..MaxSuppressed
  BY ZScoreAssumption DEF ZTypeOK
<1>2. Append(history, x) \in Seq(0..MaxRate) /\ Append(seen, x) \in Seq(0..MaxRate)
  BY <1>1
<1>3. history' \in Seq(0..MaxRate) /\ Len(history') <= Window
  BY <1>1, <1>2, LatestTyped DEF Analyse, Admitted, ZTypeOK
<1>4. seen' \in Seq(0..MaxRate) /\ Len(seen') <= Required
  BY <1>1, <1>2, LatestTyped DEF Analyse
<1>5. anomaly_streak' \in Nat
  BY <1>1 DEF Analyse, Streak
<1>6. suppressed' \in 0..MaxSuppressed
  <2>1. suppressed < MaxSuppressed /\ suppressed' \in {suppressed, suppressed + 1}
    BY <1>1 DEF Analyse
  <2> QED
    BY <1>1, <2>1
<1>7. /\ VolumeCandidate(x) \in BOOLEAN /\ NewThreat(x) \in BOOLEAN
      /\ (VolumeCandidate(x) /\ Streak(x) >= Required) \in BOOLEAN
      /\ (VolumeCandidate(x) /\ (announced \/ NewThreat(x))) \in BOOLEAN
  BY Zenon DEF VolumeCandidate, NewThreat
<1>8. verdict' \in [pps : 0..MaxRate, candidate : BOOLEAN, threat : BOOLEAN, new : BOOLEAN]
  BY <1>7 DEF Analyse
<1>9. announced' \in BOOLEAN
  BY <1>7 DEF Analyse
<1> QED
  BY <1>3, <1>4, <1>5, <1>6, <1>8, <1>9 DEF ZTypeOK

(* A record is read only if its second has room for it; each of them is     *)
(* decoded or dropped; a second without packets left nothing behind.  A     *)
(* second is over from the header of a record on until that record is the   *)
(* one at hand.                                                             *)
ReplayInv ==
    /\ TypeOK
    /\ pc = "close" => (IF Over THEN 0 ELSE packet_count) < MaxRate
    /\ pc = "frame" => packet_count < MaxRate
    /\ packet_count = 0 => unique_ports = {} /\ source_stats = NoStats /\ frames = {}
    /\ counts.packets + counts.dropped
          + (IF pc \in {"data", "close", "frame"} THEN 1 ELSE 0) <= counts.records
    /\ pc \in {"read", "frame"} => ~Over

LEMMA Limits ==
    /\ MaxRate \in Nat /\ MaxSecond \in Nat /\ MaxRecords \in Nat
    /\ NoSource \notin Sources /\ 0 \in Ports
    /\ \A f \in RawFrames : f.src \in Sources /\ f.dport \in Ports
    /\ DOMAIN NoStats = {}
BY ZScoreAssumption, ReplayAssumption DEF NoStats

LEMMA ReplayStart == Init => ReplayInv
<1> SUFFICES ASSUME Init PROVE ReplayInv
  OBVIOUS
<1>1. ZTypeOK
  BY ZTypeStart DEF Init
<1>2. raw \in RawFrames
  BY ReplayAssumption DEF Init
<1>3. TypeOK
  BY <1>1, <1>2, Limits DEF Init, TypeOK
<1> QED
  BY <1>3 DEF Init, ReplayInv, Over

(* What closing a second and clearing the counters make of the types.       *)
LEMMA ClosingTyped ==
    ASSUME TypeOK, CloseSecond
    PROVE  ZTypeOK' /\ scan_active_sources' \subseteq Sources
<1>1. ZTypeOK'
  BY ZTypeAnalyse DEF CloseSecond, TypeOK
<1> QED
  BY <1>1 DEF CloseSecond, ScanSources, TypeOK

LEMMA ReplayStep == ReplayInv /\ [Next]_vars => ReplayInv'
<1> SUFFICES ASSUME ReplayInv, [Next]_vars PROVE ReplayInv'
  OBVIOUS
<1> USE DEF engineVars, counterVars
<1>1. /\ TypeOK
      /\ pc = "close" => (IF Over THEN 0 ELSE packet_count) < MaxRate
      /\ pc = "frame" => packet_count < MaxRate
      /\ packet_count = 0 => unique_ports = {} /\ source_stats = NoStats /\ frames = {}
      /\ counts.packets + counts.dropped
            + (IF pc \in {"data", "close", "frame"} THEN 1 ELSE 0) <= counts.records
      /\ pc \in {"read", "frame"} => ~Over
  BY DEF ReplayInv
<1>2. /\ packet_count \in 0..MaxRate /\ counts \in [records : 0..MaxRecords, packets : 0..MaxRecords, dropped : 0..MaxRecords]
      /\ current_second \in 0..MaxSecond /\ stamp \in 0..MaxSecond /\ raw \in RawFrames
      /\ MaxRate \in Nat /\ MaxRecords \in Nat
  BY <1>1, Limits DEF TypeOK
<1>3. UNCHANGED zVars => (ZTypeOK => ZTypeOK')
  BY DEF ZTypeOK, zVars
<1>4. ASSUME NEW second \in 0..MaxSecond, ReadHeader(second) PROVE ReplayInv'
  <2>1. /\ counts' = [counts EXCEPT !.records = @ + 1] /\ counts.records < MaxRecords
        /\ pc = "read" /\ pc' = "data" /\ stamp' = second
        /\ UNCHANGED <<engineVars, counterVars, current_second, raw>>
    BY <1>4 DEF ReadHeader
  <2>2. counts' \in [records : 0..MaxRecords, packets : 0..MaxRecords, dropped : 0..MaxRecords]
    BY <1>2, <2>1
  <2>3. TypeOK'
    BY <1>1, <1>3, <2>1, <2>2 DEF TypeOK
  <2>4. counts'.packets + counts'.dropped + 1 <= counts'.records
    BY <1>1, <1>2, <2>1
  <2> QED
    BY <1>1, <2>1, <2>3, <2>4 DEF ReplayInv
<1>5. ASSUME NEW f \in RawFrames, ReadData(f) PROVE ReplayInv'
  <2>1. /\ pc = "data" /\ pc' = "close" /\ raw' = f /\ (IF Over THEN 0 ELSE packet_count) < MaxRate
        /\ UNCHANGED <<engineVars, counterVars, current_second, stamp, counts>>
    BY <1>5 DEF ReadData
  <2>2. TypeOK'
    BY <1>1, <1>3, <2>1 DEF TypeOK
  <2> QED
    BY <1>1, <2>1, <2>2 DEF ReplayInv, Over
<1>6. CASE FileEnds \/ LoopEnds
  <2>1. /\ pc' \in {"eof", "last"} /\ pc \in {"read", "data", "eof"}
        /\ UNCHANGED <<engineVars, counterVars, current_second, stamp, raw, counts>>
    BY <1>6 DEF FileEnds, LoopEnds
  <2>2. TypeOK'
    BY <1>1, <1>3, <2>1 DEF TypeOK
  <2>3. pc' \notin {"data", "close", "frame", "read"}
    BY <2>1
  <2>4. counts'.packets + counts'.dropped
           + (IF pc' \in {"data", "close", "frame"} THEN 1 ELSE 0) <= counts'.records
    BY <1>1, <1>2, <2>1, <2>3
  <2>5. packet_count' = 0 => unique_ports' = {} /\ source_stats' = NoStats /\ frames' = {}
    BY <1>1, <2>1
  <2> QED
    BY <2>2, <2>3, <2>4, <2>5 DEF ReplayInv
<1>7. CASE Boundary
  <2>1. /\ pc = "close" /\ pc' = "frame" /\ UNCHANGED <<stamp, raw, counts>>
        /\ IF Over THEN current_second' = stamp /\ FreshCounters ELSE UNCHANGED <<current_second, counterVars>>
        /\ CloseSecond \/ UNCHANGED engineVars
    BY <1>7 DEF Boundary
  <2>2. ZTypeOK' /\ scan_active_sources' \subseteq Sources
    BY <1>1, <1>3, <2>1, ClosingTyped DEF TypeOK
  <2>3. /\ packet_count' \in 0..MaxRate /\ packet_count' < MaxRate /\ unique_ports' \subseteq Ports
        /\ DOMAIN source_stats' \subseteq Sources /\ current_second' \in 0..MaxSecond
    BY <1>1, <1>2, <2>1, Limits DEF FreshCounters, TypeOK
  <2>4. packet_count' = 0 => unique_ports' = {} /\ source_stats' = NoStats /\ frames' = {}
    BY <1>1, <2>1 DEF FreshCounters
  <2>5. TypeOK'
    BY <1>2, <2>1, <2>2, <2>3 DEF TypeOK
  <2>6. ~Over'
    BY <1>2, <2>1 DEF Over
  <2> QED
    BY <1>1, <2>1, <2>3, <2>4, <2>5, <2>6 DEF ReplayInv
<1>8. CASE LastSecond
  <2>1. /\ pc = "last" /\ pc' = "done" /\ UNCHANGED <<current_second, stamp, raw, counts>>
        /\ (CloseSecond /\ FreshCounters) \/ UNCHANGED <<engineVars, counterVars>>
    BY <1>8 DEF LastSecond
  <2>2. ZTypeOK' /\ scan_active_sources' \subseteq Sources
    BY <1>1, <1>3, <2>1, ClosingTyped DEF TypeOK
  <2>3. /\ packet_count' \in 0..MaxRate /\ unique_ports' \subseteq Ports /\ DOMAIN source_stats' \subseteq Sources
    BY <1>1, <1>2, <2>1, Limits DEF FreshCounters, TypeOK
  <2>4. packet_count' = 0 => unique_ports' = {} /\ source_stats' = NoStats /\ frames' = {}
    BY <1>1, <2>1 DEF FreshCounters
  <2>5. TypeOK'
    BY <1>2, <2>1, <2>2, <2>3 DEF TypeOK
  <2> QED
    BY <1>1, <2>1, <2>4, <2>5 DEF ReplayInv
<1>9. CASE Skip
  <2>1. /\ pc = "frame" /\ pc' = "read" /\ counts' = [counts EXCEPT !.dropped = @ + 1]
        /\ UNCHANGED <<engineVars, counterVars, current_second, stamp, raw>>
    BY <1>9 DEF Skip
  <2>2. /\ counts' \in [records : 0..MaxRecords, packets : 0..MaxRecords, dropped : 0..MaxRecords]
        /\ counts'.packets + counts'.dropped <= counts'.records
    BY <1>1, <1>2, <2>1
  <2>3. TypeOK'
    BY <1>1, <1>3, <2>1, <2>2 DEF TypeOK
  <2> QED
    BY <1>1, <2>1, <2>2, <2>3 DEF ReplayInv, Over
<1>10. CASE Count
  <2>1. /\ pc = "frame" /\ pc' = "read" /\ counts' = [counts EXCEPT !.packets = @ + 1]
        /\ packet_count' = packet_count + 1 /\ unique_ports' = unique_ports \cup PortNoted
        /\ DOMAIN source_stats' = DOMAIN source_stats \cup {raw.src}
        /\ UNCHANGED <<engineVars, current_second, stamp, raw>>
    BY <1>10 DEF Count
  <2>2. /\ counts' \in [records : 0..MaxRecords, packets : 0..MaxRecords, dropped : 0..MaxRecords]
        /\ counts'.packets + counts'.dropped <= counts'.records
    BY <1>1, <1>2, <2>1
  <2>3. packet_count' \in 0..MaxRate /\ packet_count' # 0
    BY <1>1, <1>2, <2>1
  <2>4. unique_ports' \subseteq Ports /\ DOMAIN source_stats' \subseteq Sources
    <3>1. raw.src \in Sources /\ PortNoted \subseteq Ports
      BY <1>2, Limits DEF PortNoted, DPort
    <3> QED
      BY <1>1, <2>1, <3>1 DEF TypeOK
  <2>5. TypeOK'
    BY <1>1, <1>3, <2>1, <2>2, <2>3, <2>4 DEF TypeOK
  <2> QED
    BY <1>1, <2>1, <2>2, <2>3, <2>5 DEF ReplayInv, Over
<1>11. CASE UNCHANGED vars
  <2>1. TypeOK'
    BY <1>1, <1>3, <1>11 DEF TypeOK, vars
  <2> QED
    BY <1>1, <1>11, <2>1 DEF ReplayInv, vars, Over
<1> QED
  BY <1>4, <1>5, <1>6, <1>7, <1>8, <1>9, <1>10, <1>11 DEF Next

--------------------------------------------------------------------------------
(* The engine the live sensor is instantiated with is the one at hand.      *)
LEMMA TotalSame == ASSUME NEW s PROVE Live!Total(s) = Total(s)
BY DEF Live!Total, Total

LEMMA SquaresSame == ASSUME NEW s PROVE Live!Squares(s) = Squares(s)
BY TotalSame DEF Live!Squares, Squares

LEMMA LatestSame == ASSUME NEW s, NEW n PROVE Live!Latest(s,n) = Latest(s,n)
BY DEF Live!Latest, Latest

LEMMA CandidateSame == ASSUME NEW x PROVE Live!VolumeCandidate(x) = VolumeCandidate(x)
<1>1. Live!Spread(history) = Spread(history) /\ Live!Excess(history, x) = Excess(history, x)
  BY TotalSame, SquaresSame DEF Spread, Live!Spread, Excess, Live!Excess
<1>2. Live!StatisticalAnomaly(x) = StatisticalAnomaly(x)
  BY <1>1, Zenon DEF StatisticalAnomaly, Live!StatisticalAnomaly
<1> QED
  BY <1>2, Zenon DEF VolumeCandidate, Live!VolumeCandidate

LEMMA AnalyseSame == ASSUME NEW x, Analyse(x) PROVE Live!Analyse(x)
<1>1. Live!Streak(x) = Streak(x) /\ Live!Admitted(x) = Admitted(x) /\ Live!NewThreat(x) = NewThreat(x)
  BY CandidateSame, LatestSame, Zenon DEF Live!Streak, Streak, Live!Admitted, Admitted, NewThreat, Live!NewThreat
<1> QED
  BY CandidateSame, LatestSame, <1>1, Zenon DEF Live!Analyse, Analyse

LEMMA LiveStart == Init => Live!Init
<1> SUFFICES ASSUME Init PROVE Live!Init
  OBVIOUS
<1>1. live_elapsed = 0 /\ live_pc = "get" /\ live_in_hand = NoFrame /\ live_alerts = {}
  BY DEF Init, live_elapsed, live_pc, live_in_hand, live_alerts, Leaving
<1>2. Live!ZInit
  BY DEF Init, ZInit, Live!ZInit, Live!Latest, Latest, Live!NoVerdict, NoVerdict
<1> QED
  BY <1>1, <1>2 DEF Init, Live!Init, Live!NoStats, NoStats, Live!NoFrame, NoFrame

LEMMA LiveTick ==
    ASSUME live_elapsed = 0, live_elapsed' = 1, live_alerts' = {},
           live_pc' = live_pc, live_in_hand' = live_in_hand,
           UNCHANGED <<engineVars, counterVars>>
    PROVE  Live!Tick
BY DEF Live!Tick, Live!zVars, zVars, Live!counterVars, counterVars, Live!scanVars, engineVars

LEMMA LiveStutter ==
    ASSUME live_elapsed' = live_elapsed, live_alerts' = live_alerts,
           live_pc' = live_pc, live_in_hand' = live_in_hand,
           UNCHANGED <<engineVars, counterVars>>
    PROVE  UNCHANGED Live!vars
BY DEF Live!vars, Live!zVars, zVars, Live!counterVars, counterVars, Live!scanVars, engineVars

LEMMA LiveGet ==
    ASSUME NEW frame, frame = NoFrame \/ packet_count < MaxRate \/ live_elapsed = 1,
           live_pc = "get", live_pc' = "timer",
           live_in_hand' = frame, live_alerts' = {}, live_elapsed' = live_elapsed,
           UNCHANGED <<engineVars, counterVars>>
    PROVE  Live!Get(frame)
BY DEF Live!Get, Live!NoFrame, NoFrame, Live!zVars, zVars, Live!counterVars, counterVars, Live!scanVars, engineVars

LEMMA LiveNotDue ==
    ASSUME live_pc = "timer", live_elapsed = 0, live_pc' = Live!AfterTimer, live_alerts' = {},
           live_elapsed' = live_elapsed, live_in_hand' = live_in_hand,
           UNCHANGED <<engineVars, counterVars>>
    PROVE  Live!TimerNotDue
BY DEF Live!TimerNotDue, Live!zVars, zVars, Live!counterVars, counterVars, Live!scanVars, engineVars

(* The second copy of the attribution and of the reporting says the same.   *)
LEMMA DominantSame ==
    ASSUME packet_count # 0, NEW src, DominantSource(src)
    PROVE  src \in Live!DominantSources
<1>1. PICK s \in DOMAIN source_stats :
        /\ \A t \in DOMAIN source_stats : Packets(t) <= Packets(s)
        /\ src = IF 100 * Packets(s) >= MinShare * packet_count THEN s ELSE NoSource
  BY DEF DominantSource
<1>2. s \in Live!Loudest
  BY <1>1 DEF Live!Loudest, Packets
<1>3. source_stats # Live!NoStats
  <2>1. DOMAIN Live!NoStats = {}
    BY DEF Live!NoStats
  <2> QED
    BY <2>1
<1> QED
  BY <1>1, <1>2, <1>3 DEF Live!DominantSources, Packets

LEMMA LiveChecks ==
    ASSUME CloseSecond, FreshCounters, packet_count # 0,
           live_pc = "timer", live_elapsed = 1, live_pc' = Live!AfterTimer, live_alerts' = alerts',
           live_elapsed' = 0, live_in_hand' = live_in_hand
    PROVE  Live!TimerChecks
<1>1. Live!ScanSources = ScanSources
  <2>1. \A S : Live!Cardinality(S) = Cardinality(S)
    BY Zenon DEF Cardinality, Live!Cardinality
  <2> QED
    BY <2>1, Zenon DEF Live!ScanSources, ScanSources
<1>2. PICK src \in Sources \cup {NoSource}, novel \in BOOLEAN :
        /\ DominantSource(src)
        /\ alerts' = {Live!Alert("ddos", src) : x \in {y \in {0} : verdict'.new}}
              \cup {Live!Alert("scan", s) : s \in ScanSources \ scan_active_sources}
              \cup {Live!Alert("anomaly", src) :
                      x \in {y \in {0} : novel /\ ScanSources = {} /\ ~verdict'.threat}}
  BY DEF CloseSecond
<1>3. {Live!Alert("ddos", src) : x \in {y \in {0} : verdict'.new}}
        = IF verdict'.new THEN {Live!Alert("ddos", src)} ELSE {}
  OBVIOUS
<1>4. {Live!Alert("anomaly", src) : x \in {y \in {0} : novel /\ ScanSources = {} /\ ~verdict'.threat}}
        = IF novel /\ ScanSources = {} /\ ~verdict'.threat THEN {Live!Alert("anomaly", src)} ELSE {}
  OBVIOUS
<1>5. live_alerts' = (IF verdict'.new THEN {Live!Alert("ddos", src)} ELSE {})
        \cup {Live!Alert("scan", s) : s \in Live!NewScans}
        \cup (IF novel /\ Live!ScanSources = {} /\ ~verdict'.threat
              THEN {Live!Alert("anomaly", src)} ELSE {})
  BY <1>1, <1>2, <1>3, <1>4, Zenon DEF Live!NewScans
<1>6. src \in Live!DominantSources
  BY <1>2, DominantSame
<1>7. Live!Analyse(packet_count) /\ scan_active_sources' = Live!ScanSources /\ scanning' = Live!Scanners
  BY <1>1, AnalyseSame DEF CloseSecond
<1>8. Live!ResetCounters
  BY DEF FreshCounters, Live!ResetCounters, NoStats, Live!NoStats
<1> QED
  BY <1>2, <1>5, <1>6, <1>7, <1>8 DEF Live!TimerChecks

LEMMA LiveStep == ReplayInv /\ [Next]_vars => [Live!Next \/ Departs]_(Live!vars)
<1> SUFFICES ASSUME ReplayInv, [Next]_vars, ~Departs PROVE Live!Next \/ UNCHANGED Live!vars
  OBVIOUS
<1> USE DEF engineVars, counterVars
<1>1. TypeOK /\ TypeOK'
  BY ReplayStep DEF ReplayInv
<1>2. \A f \in RawFrames : FrameOf(f) # NoFrame
  <2>1. \A f \in RawFrames : FrameOf(f).src # NoFrame.src
    BY Limits DEF FrameOf, NoFrame
  <2> QED
    BY <2>1
<1>3. /\ Live!NoFrame = NoFrame /\ raw \in RawFrames /\ packet_count \in 0..MaxRate /\ MaxRate \in Nat
      /\ pc \in {"close", "last"} /\ Over => packet_count > 0
  BY <1>1, Limits DEF Live!NoFrame, NoFrame, TypeOK, Departs, PassesOverSilence
<1>4. ASSUME NEW second \in 0..MaxSecond, ReadHeader(second) PROVE Live!Next \/ UNCHANGED Live!vars
  <2>1. /\ pc = "read" /\ pc' = "data" /\ UNCHANGED <<engineVars, counterVars, current_second, alerts, raw>>
    BY <1>4 DEF ReadHeader
  <2>2. live_pc = "get" /\ live_pc' = "get" /\ live_in_hand = NoFrame /\ live_in_hand' = NoFrame /\ live_elapsed = 0
    BY <2>1 DEF live_pc, live_in_hand, live_elapsed, Leaving
  <2>3. CASE Leaving'
    <3>1. live_elapsed' = 1 /\ live_alerts' = {}
      BY <2>1, <2>3 DEF live_elapsed, live_alerts
    <3> QED
      BY <2>1, <2>2, <3>1, LiveTick DEF Live!Next
  <2>4. CASE ~Leaving'
    <3>1. live_elapsed' = 0 /\ live_alerts' = live_alerts
      BY <2>1, <2>4 DEF live_elapsed, live_alerts, Leaving
    <3> QED
      BY <2>1, <2>2, <3>1, LiveStutter
  <2> QED
    BY <2>3, <2>4
<1>5. ASSUME NEW f \in RawFrames, ReadData(f) PROVE Live!Next \/ UNCHANGED Live!vars
  <2>1. /\ pc = "data" /\ pc' = "close" /\ raw' = f /\ alerts' = {}
        /\ UNCHANGED <<engineVars, counterVars, current_second, stamp>>
    BY <1>5 DEF ReadData
  <2>2. Leaving' <=> Leaving
    BY <2>1 DEF Leaving, Over
  <2>3. /\ live_pc = "get" /\ live_pc' = "timer" /\ live_in_hand' = FrameOf(raw')
        /\ live_elapsed' = live_elapsed /\ live_alerts' = {}
    BY <2>1, <2>2 DEF live_pc, live_in_hand, live_elapsed, live_alerts, FrameOf, Decoded, DPort, SPort
  <2>4. FrameOf(raw') = FrameOf(f)
    BY <2>1
  <2>5. packet_count < MaxRate \/ live_elapsed = 1
    BY <1>5, <2>1 DEF ReadData, live_elapsed, Leaving
  <2>6. Live!Get(FrameOf(f))
    BY <2>1, <2>3, <2>4, <2>5, LiveGet
  <2> QED
    BY <2>6 DEF Live!Next
<1>6. CASE FileEnds
  <2>1. /\ pc \in {"read", "data"} /\ pc' = "eof"
        /\ UNCHANGED <<engineVars, counterVars, current_second, stamp, raw, alerts>>
    BY <1>6 DEF FileEnds
  <2>2. live_pc = "get" /\ live_pc' = "get" /\ live_in_hand = NoFrame /\ live_in_hand' = NoFrame
    BY <2>1 DEF live_pc, live_in_hand
  <2>3. Leaving => Leaving'
    BY <2>1 DEF Leaving, Over
  <2>4. CASE Leaving' /\ ~Leaving
    <3>1. live_elapsed = 0 /\ live_elapsed' = 1 /\ live_alerts' = {}
      BY <2>1, <2>4 DEF live_elapsed, live_alerts
    <3> QED
      BY <2>1, <2>2, <3>1, LiveTick DEF Live!Next
  <2>5. CASE Leaving' <=> Leaving
    <3>1. live_elapsed' = live_elapsed /\ live_alerts' = live_alerts
      BY <2>1, <2>5 DEF live_elapsed, live_alerts, Leaving
    <3> QED
      BY <2>1, <2>2, <3>1, LiveStutter
  <2> QED
    BY <2>3, <2>4, <2>5
<1>7. CASE LoopEnds
  <2>1. /\ pc = "eof" /\ pc' = "last" /\ alerts' = {}
        /\ UNCHANGED <<engineVars, counterVars, current_second, stamp, raw>>
    BY <1>7 DEF LoopEnds
  <2>2. Leaving' <=> Leaving
    BY <2>1 DEF Leaving, Over
  <2>3. /\ live_pc = "get" /\ live_pc' = "timer" /\ live_in_hand' = NoFrame
        /\ live_elapsed' = live_elapsed /\ live_alerts' = {}
    BY <2>1, <2>2 DEF live_pc, live_in_hand, live_elapsed, live_alerts
  <2>4. Live!Get(NoFrame)
    BY <1>3, <2>1, <2>3, LiveGet
  <2> QED
    BY <1>3, <2>4 DEF Live!Next
<1>8. CASE Boundary
  <2>1. /\ pc = "close" /\ pc' = "frame" /\ UNCHANGED <<stamp, raw, counts>>
        /\ IF Over THEN current_second' = stamp /\ FreshCounters ELSE UNCHANGED <<current_second, counterVars>>
        /\ IF Over /\ packet_count > 0 THEN CloseSecond ELSE alerts' = {} /\ UNCHANGED engineVars
    BY <1>8 DEF Boundary
  <2>2. /\ live_pc = "timer" /\ live_pc' = "frame" /\ live_in_hand = FrameOf(raw) /\ live_in_hand' = FrameOf(raw)
        /\ live_elapsed' = 0 /\ live_alerts' = alerts' /\ live_elapsed = IF Over THEN 1 ELSE 0
    BY <2>1 DEF live_pc, live_in_hand, live_elapsed, live_alerts, Leaving, FrameOf, Decoded, DPort, SPort
  <2>3. live_pc' = Live!AfterTimer
    BY <1>2, <1>3, <2>2 DEF Live!AfterTimer
  <2>4. CASE Over
    <3>1. CloseSecond /\ FreshCounters /\ packet_count # 0 /\ live_elapsed = 1
      BY <1>3, <2>1, <2>2, <2>4
    <3> QED
      BY <2>2, <2>3, <3>1, LiveChecks DEF Live!Next
  <2>5. CASE ~Over
    <3>1. UNCHANGED <<engineVars, counterVars>> /\ alerts' = {} /\ live_elapsed = 0
      BY <2>1, <2>2, <2>5
    <3> QED
      BY <2>2, <2>3, <3>1, LiveNotDue DEF Live!Next
  <2> QED
    BY <2>4, <2>5
<1>9. CASE LastSecond
  <2>1. /\ pc = "last" /\ pc' = "done"
        /\ IF packet_count > 0 THEN CloseSecond /\ FreshCounters
           ELSE alerts' = {} /\ UNCHANGED <<engineVars, counterVars>>
    BY <1>9 DEF LastSecond
  <2>2. /\ live_pc = "timer" /\ live_pc' = "get" /\ live_in_hand = NoFrame /\ live_in_hand' = NoFrame
        /\ live_elapsed' = 0 /\ live_alerts' = alerts' /\ live_elapsed = IF packet_count > 0 THEN 1 ELSE 0
    BY <1>3, <2>1 DEF live_pc, live_in_hand, live_elapsed, live_alerts, Leaving
  <2>3. live_pc' = Live!AfterTimer
    BY <1>3, <2>2 DEF Live!AfterTimer
  <2>4. CASE packet_count > 0
    <3>1. CloseSecond /\ FreshCounters /\ packet_count # 0 /\ live_elapsed = 1
      BY <1>3, <2>1, <2>2, <2>4
    <3> QED
      BY <2>2, <2>3, <3>1, LiveChecks DEF Live!Next
  <2>5. CASE ~(packet_count > 0)
    <3>1. UNCHANGED <<engineVars, counterVars>> /\ alerts' = {} /\ live_elapsed = 0
      BY <2>1, <2>2, <2>5
    <3> QED
      BY <2>2, <2>3, <3>1, LiveNotDue DEF Live!Next
  <2> QED
    BY <2>4, <2>5
<1>10. CASE Skip
  <2>1. pc = "frame" /\ pc' = "read" /\ alerts' = {} /\ ~Decoded(raw) /\ UNCHANGED <<engineVars, counterVars>>
    BY <1>10 DEF Skip
  <2>2. /\ live_pc = "frame" /\ live_pc' = "get" /\ live_in_hand = FrameOf(raw) /\ live_in_hand' = NoFrame
        /\ live_elapsed = 0 /\ live_elapsed' = 0 /\ live_alerts' = {}
    BY <2>1 DEF live_pc, live_in_hand, live_elapsed, live_alerts, Leaving
  <2>3. ~Live!InScope(live_in_hand)
    BY <2>1, <2>2 DEF FrameOf, Live!InScope
  <2>4. Live!FrameIgnored
    BY <1>3, <2>1, <2>2, <2>3 DEF Live!FrameIgnored, Live!zVars, zVars, Live!counterVars, Live!scanVars
  <2> QED
    BY <2>4 DEF Live!Next
<1>11. CASE Count
  <2>1. /\ pc = "frame" /\ pc' = "read" /\ Decoded(raw) /\ UNCHANGED <<engineVars, raw>>
        /\ packet_count' = packet_count + 1 /\ unique_ports' = unique_ports \cup PortNoted
        /\ source_stats' = [s \in DOMAIN source_stats \cup {raw.src} |->
              IF s = raw.src
              THEN [packets |-> setdefault(s).packets + 1, ports |-> setdefault(s).ports \cup PortNoted]
              ELSE source_stats[s]]
        /\ frames' = Live!FramesWith(FrameOf(raw))
        /\ alerts' \in IF raw.src \in Blacklisted THEN {{Live!Alert("blacklist", raw.src)}}
                       ELSE {{}, {Live!Alert("payload", raw.src)}}
    BY <1>11 DEF Count
  <2>2. /\ live_pc = "frame" /\ live_pc' = "get" /\ live_in_hand = FrameOf(raw) /\ live_in_hand' = NoFrame
        /\ live_elapsed = 0 /\ live_elapsed' = 0 /\ live_alerts' = alerts'
    BY <2>1 DEF live_pc, live_in_hand, live_elapsed, live_alerts, Leaving
  <2>3. /\ FrameOf(raw).src = raw.src /\ Live!NewPorts(FrameOf(raw)) = PortNoted
        /\ \A s : Live!StatsOf(s) = setdefault(s)
    BY DEF FrameOf, Live!NewPorts, PortNoted, Live!StatsOf, setdefault
  <2>4. source_stats' = [s \in DOMAIN source_stats \cup {FrameOf(raw).src} |->
          IF s = FrameOf(raw).src
          THEN [packets |-> Live!StatsOf(s).packets + 1,
                ports |-> Live!StatsOf(s).ports \cup Live!NewPorts(FrameOf(raw))]
          ELSE source_stats[s]]
    BY <2>1, <2>3
  <2>5. Live!InScope(live_in_hand)
    <3>1. SPort(raw) \notin DashboardPorts /\ DPort(raw) \notin DashboardPorts
      BY <2>1 DEF Departs, CountsDashboard
    <3>2. /\ FrameOf(raw).decoded = TRUE
          /\ FrameOf(raw).sport = SPort(raw) /\ FrameOf(raw).port = DPort(raw)
      BY <2>1 DEF FrameOf
    <3> QED
      BY <2>2, <3>1, <3>2 DEF Live!InScope
  <2>6. Live!CountFrame
    BY <1>3, <2>1, <2>2, <2>3, <2>4, <2>5 DEF Live!CountFrame, Live!zVars, zVars, Live!scanVars
  <2> QED
    BY <2>6 DEF Live!Next
<1>12. CASE UNCHANGED vars
  <2>1. UNCHANGED <<engineVars, counterVars, current_second, alerts, pc, stamp, raw>>
    BY <1>12 DEF vars
  <2>2. /\ live_elapsed' = live_elapsed /\ live_alerts' = live_alerts
        /\ live_pc' = live_pc /\ live_in_hand' = live_in_hand
    BY <2>1 DEF live_pc, live_in_hand, live_elapsed, live_alerts, Leaving, Over, FrameOf, Decoded, DPort, SPort
  <2> QED
    BY <2>1, <2>2, LiveStutter
<1> QED
  BY <1>4, <1>5, <1>6, <1>7, <1>8, <1>9, <1>10, <1>11, <1>12 DEF Next

(* Every step of a replay is a step of the live sensor: the same frames are *)
(* counted, the seconds that are over are analysed, the same alerts are     *)
(* raised (replay.py:181-234 and sensor.py:174-289).  Excepted are the end  *)
(* of a silent second, which replay.py:238 does not analyse, and a frame of *)
(* the dashboard, which sensor.py:178-183 does not count.                   *)
THEOREM ReplayedAsLive == Spec => ImplementsLive
<1>1. Spec => []ReplayInv
  BY ReplayStart, ReplayStep, PTL DEF Spec
<1>2. QED
  BY <1>1, LiveStart, LiveStep, PTL DEF Spec, ImplementsLive

--------------------------------------------------------------------------------
(* As many tags are skipped as lie within the frame.                        *)
LEMMA TagsWithin ==
    ASSUME NEW f, f.len \in Nat, f.tags \in Nat, f.len >= EthHeaderLen
    PROVE  TagsRead(f) \in 0..f.tags /\ f.len >= EthHeaderLen + VlanTagLen * TagsRead(f)
<1> DEFINE Fit == {t \in 0..f.tags : f.len >= EthHeaderLen + VlanTagLen * t}
           room == (f.len - 14) \div 4
           most == IF room <= f.tags THEN room ELSE f.tags
<1>1. room \in Nat /\ f.len >= 14 + 4 * room /\ f.len < 14 + 4 * room + 4
  BY DEF EthHeaderLen
<1> HIDE DEF room
<1>2. most \in Fit /\ \A t \in Fit : most >= t
  BY <1>1 DEF EthHeaderLen, VlanTagLen
<1> HIDE DEF most
<1>3. Max(Fit) \in Fit
  BY <1>2, Zenon DEF Max
<1> QED
  BY <1>3 DEF TagsRead

LEMMA MaxOfTwo ==
    ASSUME NEW a \in Nat, NEW b \in Nat
    PROVE  Max({a, b}) \in {a, b} /\ Max({a, b}) >= a /\ Max({a, b}) >= b
<1>1. \E x \in {a, b} : \A y \in {a, b} : x >= y
  <2>1. CASE a >= b
    BY <2>1
  <2>2. CASE b >= a
    BY <2>2
  <2> QED
    BY <2>1, <2>2
<1>2. Max({a, b}) \in {a, b} /\ \A y \in {a, b} : Max({a, b}) >= y
  BY <1>1, Zenon DEF Max
<1> QED
  BY <1>2

LEMMA Offsets ==
    ASSUME NEW f, WellFormed(f), f.len >= EthHeaderLen
    PROVE  /\ TagsRead(f) \in Nat /\ f.len >= IpOffset(f) /\ IpOffset(f) = 14 + 4 * TagsRead(f)
           /\ IpOffset(f) \in Nat /\ TransportOffset(f) = IpOffset(f) + 4 * f.ihl
           /\ TransportOffset(f) \in Nat /\ f.ihl \in Nat
           /\ f.proto \in DOMAIN HeaderLen =>
                 /\ HeaderLen[f.proto] \in {4, 8, 20} /\ UnpackedLen[f.proto] \in {2, 8, 20}
                 /\ UnpackedLen[f.proto] <= HeaderLen[f.proto]
           /\ f.proto = "tcp" => HeaderLen[f.proto] = 20 /\ UnpackedLen[f.proto] = 20
<1>1. TagsRead(f) \in Nat /\ f.len >= 14 + 4 * TagsRead(f)
  BY TagsWithin DEF WellFormed, EthHeaderLen, VlanTagLen
<1>2. IpOffset(f) = 14 + 4 * TagsRead(f)
  BY DEF IpOffset, EthHeaderLen, VlanTagLen
<1>3. f.ihl \in Nat
  BY DEF WellFormed
<1>4. TransportOffset(f) = IpOffset(f) + 4 * f.ihl
  BY DEF TransportOffset
<1>5. /\ f.proto \in DOMAIN HeaderLen =>
            /\ HeaderLen[f.proto] \in {4, 8, 20} /\ UnpackedLen[f.proto] \in {2, 8, 20}
            /\ UnpackedLen[f.proto] <= HeaderLen[f.proto]
      /\ f.proto = "tcp" => HeaderLen[f.proto] = 20 /\ UnpackedLen[f.proto] = 20
  BY DEF HeaderLen, UnpackedLen
<1> QED
  BY <1>1, <1>2, <1>3, <1>4, <1>5

(* What is unpacked, read by read.                                          *)
LEMMA ReadsOf ==
    ASSUME NEW f, NEW r \in Reads(f), WellFormed(f)
    PROVE  /\ f.len >= EthHeaderLen
           /\ \/ r = <<0, 14>>
              \/ \E t \in 1..TagsRead(f) : r = <<14 + 4 * (t - 1) + 2, 14 + 4 * t>>
              \/ f.len >= IpOffset(f) + 20 /\ r = <<IpOffset(f), IpOffset(f) + 20>>
              \/ /\ parse(f) = "parsed" /\ f.proto \in DOMAIN HeaderLen
                 /\ r = <<TransportOffset(f), TransportOffset(f) + UnpackedLen[f.proto]>>
<1>1. f.len \in Nat
  BY DEF WellFormed
<1>2. f.len >= EthHeaderLen
  BY <1>1 DEF Reads, EthHeaderLen
<1>3. Reads(f) =
        {<<0, EthHeaderLen>>}
         \cup {<<EthHeaderLen + VlanTagLen * (t - 1) + 2, EthHeaderLen + VlanTagLen * t>> : t \in 1..TagsRead(f)}
         \cup (IF IsIpv4(f) /\ f.len >= IpOffset(f) + 20
               THEN {<<IpOffset(f), IpOffset(f) + 20>>} ELSE {})
         \cup (IF parse(f) = "parsed" /\ f.proto \in DOMAIN HeaderLen
               THEN {<<TransportOffset(f), TransportOffset(f) + UnpackedLen[f.proto]>>} ELSE {})
  <2>1. ~(f.len < EthHeaderLen)
    BY <1>1, <1>2 DEF EthHeaderLen
  <2> QED
    BY <2>1, Zenon DEF Reads
<1>4. \/ r = <<0, EthHeaderLen>>
      \/ \E t \in 1..TagsRead(f) : r = <<EthHeaderLen + VlanTagLen * (t - 1) + 2, EthHeaderLen + VlanTagLen * t>>
      \/ f.len >= IpOffset(f) + 20 /\ r = <<IpOffset(f), IpOffset(f) + 20>>
      \/ /\ parse(f) = "parsed" /\ f.proto \in DOMAIN HeaderLen
         /\ r = <<TransportOffset(f), TransportOffset(f) + UnpackedLen[f.proto]>>
  BY <1>3, Zenon
<1> QED
  BY <1>2, <1>4 DEF EthHeaderLen, VlanTagLen

LEMMA ParsedWhole ==
    ASSUME NEW f, WellFormed(f), parse(f) = "parsed"
    PROVE  /\ f.len >= EthHeaderLen /\ f.len >= IpOffset(f) + 20 /\ f.ihl >= 5
           /\ Complete(f) /\ TagsRead(f) = f.tags
<1>1. f.len \in Nat
  BY DEF WellFormed
<1>2. f.len >= EthHeaderLen /\ IsIpv4(f)
  <2>1. f.len < EthHeaderLen \/ f.len >= EthHeaderLen
    BY <1>1 DEF EthHeaderLen
  <2> QED
    BY <1>1, <2>1 DEF parse, EthHeaderLen
<1> QED
  BY <1>1, <1>2 DEF parse, EthHeaderLen, IsIpv4

LEMMA InBounds == ASSUME NEW f, WellFormed(f), NEW r \in Reads(f) PROVE r[1] < r[2] /\ r[2] <= f.len
<1>1. f.len >= EthHeaderLen /\ f.len \in Nat
  BY ReadsOf DEF WellFormed
<1> USE Offsets, <1>1
<1>2. CASE r = <<0, 14>>
  BY <1>2 DEF EthHeaderLen
<1>3. ASSUME NEW t \in 1..TagsRead(f), r = <<14 + 4 * (t - 1) + 2, 14 + 4 * t>> PROVE r[1] < r[2] /\ r[2] <= f.len
  <2>1. t \in Nat /\ t <= TagsRead(f)
    OBVIOUS
  <2>2. r[1] = 14 + 4 * (t - 1) + 2 /\ r[2] = 14 + 4 * t
    BY <1>3
  <2> QED
    BY <2>1, <2>2
<1>4. CASE f.len >= IpOffset(f) + 20 /\ r = <<IpOffset(f), IpOffset(f) + 20>>
  BY <1>4
<1>5. CASE /\ parse(f) = "parsed" /\ f.proto \in DOMAIN HeaderLen
           /\ r = <<TransportOffset(f), TransportOffset(f) + UnpackedLen[f.proto]>>
  <2>1. f.len >= TransportOffset(f) + HeaderLen[f.proto]
    BY <1>5, ParsedWhole DEF Complete
  <2>2. /\ HeaderLen[f.proto] \in {4, 8, 20} /\ UnpackedLen[f.proto] \in {2, 8, 20}
        /\ UnpackedLen[f.proto] <= HeaderLen[f.proto]
    BY <1>5
  <2> QED
    BY <1>5, <2>1, <2>2
<1> QED
  BY <1>2, <1>3, <1>4, <1>5, ReadsOf

(* The payload begins behind the transport header that was read, and behind *)
(* the one that is declared; it begins at the later of the two.             *)
LEMMA PayloadStarts ==
    ASSUME NEW f, WellFormed(f), parse(f) = "parsed", f.proto \in DOMAIN HeaderLen
    PROVE  /\ PayloadStart(f) \in Nat /\ DeclaredEnd(f) \in Nat
           /\ PayloadStart(f) >= TransportOffset(f) + HeaderLen[f.proto]
           /\ PayloadStart(f) >= DeclaredEnd(f)
           /\ \/ PayloadStart(f) = DeclaredEnd(f)
              \/ f.proto = "tcp" /\ PayloadStart(f) = TransportOffset(f) + 20
<1>1. f.len >= EthHeaderLen /\ f.tags \in Nat /\ f.ihl \in Nat
  BY ParsedWhole DEF WellFormed
<1>2. TransportOffset(f) = 14 + 4 * f.tags + 4 * f.ihl /\ TransportOffset(f) \in Nat
  BY <1>1, Offsets, ParsedWhole
<1>3. f.proto \in {"tcp", "udp", "icmp"}
  BY DEF HeaderLen
<1>4. CASE f.proto = "tcp"
  <2>1. 4 * f.doff \in Nat
    BY DEF WellFormed
  <2>2. /\ Max({4 * f.doff, 20}) \in {4 * f.doff, 20}
        /\ Max({4 * f.doff, 20}) >= 4 * f.doff /\ Max({4 * f.doff, 20}) >= 20
    BY <2>1, MaxOfTwo
  <2>3. PayloadStart(f) = TransportOffset(f) + Max({4 * f.doff, 20})
    BY <1>4 DEF PayloadStart
  <2>4. DeclaredEnd(f) = TransportOffset(f) + 4 * f.doff /\ HeaderLen[f.proto] = 20
    BY <1>2, <1>4 DEF DeclaredEnd, HeaderLen
  <2> QED
    BY <1>2, <1>4, <2>1, <2>2, <2>3, <2>4
<1>5. CASE f.proto # "tcp"
  <2>1. PayloadStart(f) = TransportOffset(f) + HeaderLen[f.proto]
    BY <1>5 DEF PayloadStart
  <2>2. DeclaredEnd(f) = TransportOffset(f) + HeaderLen[f.proto] /\ HeaderLen[f.proto] \in Nat
    BY <1>2, <1>3, <1>5 DEF DeclaredEnd, HeaderLen
  <2> QED
    BY <1>2, <2>1, <2>2
<1> QED
  BY <1>4, <1>5

LEMMA BehindHeaders ==
    ASSUME NEW f, WellFormed(f), parse(f) = "parsed", f.proto \in DOMAIN HeaderLen, NEW r \in Reads(f)
    PROVE  r[2] <= PayloadStart(f) /\ r[2] \in Int
<1>1. f.len >= EthHeaderLen /\ f.len \in Nat /\ f.ihl \in Nat /\ f.ihl >= 5
  BY ParsedWhole DEF WellFormed
<1> USE Offsets, <1>1
<1>2. TransportOffset(f) >= IpOffset(f) + 20
  OBVIOUS
<1>3. PayloadStart(f) \in Nat /\ PayloadStart(f) >= TransportOffset(f) + HeaderLen[f.proto]
  BY PayloadStarts
<1>4. /\ HeaderLen[f.proto] \in {4, 8, 20} /\ UnpackedLen[f.proto] \in {2, 8, 20}
      /\ UnpackedLen[f.proto] <= HeaderLen[f.proto]
  OBVIOUS
<1>5. CASE r = <<0, 14>>
  BY <1>2, <1>3, <1>4, <1>5
<1>6. ASSUME NEW t \in 1..TagsRead(f), r = <<14 + 4 * (t - 1) + 2, 14 + 4 * t>>
      PROVE  r[2] <= PayloadStart(f) /\ r[2] \in Int
  <2>1. t \in Nat /\ t <= TagsRead(f)
    OBVIOUS
  <2>2. r[2] = 14 + 4 * t
    BY <1>6
  <2> QED
    BY <1>2, <1>3, <1>4, <2>1, <2>2
<1>7. CASE r = <<IpOffset(f), IpOffset(f) + 20>>
  BY <1>2, <1>3, <1>4, <1>7
<1>8. CASE r = <<TransportOffset(f), TransportOffset(f) + UnpackedLen[f.proto]>>
  BY <1>3, <1>4, <1>8
<1> QED
  BY <1>5, <1>6, <1>7, <1>8, ReadsOf

LEMMA RestIsPayload ==
    ASSUME NEW f, WellFormed(f), Decoded(f), f.proto \in DOMAIN HeaderLen
    PROVE  PayloadBytes(f) = {i \in 0..(f.len - 1) : /\ i >= DeclaredEnd(f)
                                                      /\ \A r \in Reads(f) : i >= r[2]}
<1>1. parse(f) = "parsed" /\ f.len \in Nat
  BY DEF Decoded, WellFormed
<1>2. /\ PayloadStart(f) \in Nat /\ DeclaredEnd(f) \in Nat /\ PayloadStart(f) >= DeclaredEnd(f)
      /\ \/ PayloadStart(f) = DeclaredEnd(f)
         \/ f.proto = "tcp" /\ PayloadStart(f) = TransportOffset(f) + 20
  BY <1>1, PayloadStarts
<1>3. \A r \in Reads(f) : r[2] <= PayloadStart(f) /\ r[2] \in Int
  BY <1>1, BehindHeaders
<1>4. ASSUME NEW i \in PayloadBytes(f)
      PROVE  i \in 0..(f.len - 1) /\ i >= DeclaredEnd(f) /\ \A r \in Reads(f) : i >= r[2]
  <2>1. i \in PayloadStart(f)..(f.len - 1)
    BY DEF PayloadBytes
  <2> QED
    BY <1>1, <1>2, <1>3, <2>1
<1>5. ASSUME NEW i \in 0..(f.len - 1), i >= DeclaredEnd(f), \A r \in Reads(f) : i >= r[2]
      PROVE  i \in PayloadBytes(f)
  <2>1. i >= PayloadStart(f)
    <3>1. CASE PayloadStart(f) = DeclaredEnd(f)
      BY <1>5, <3>1
    <3>2. CASE f.proto = "tcp" /\ PayloadStart(f) = TransportOffset(f) + 20
      <4>1. UnpackedLen[f.proto] = 20 /\ ~(f.len < EthHeaderLen)
        BY <1>1, <3>2, ParsedWhole DEF UnpackedLen, EthHeaderLen
      <4>2. <<TransportOffset(f), TransportOffset(f) + 20>> \in Reads(f)
        BY <1>1, <4>1, Zenon DEF Reads
      <4>3. i >= <<TransportOffset(f), TransportOffset(f) + 20>>[2]
        BY <1>5, <4>2
      <4> QED
        BY <3>2, <4>3
    <3> QED
      BY <1>2, <3>1, <3>2
  <2>2. f.len > PayloadStart(f)
    BY <1>1, <1>2, <2>1
  <2> QED
    BY <1>1, <1>2, <2>1, <2>2 DEF PayloadBytes, HasPayload
<1> QED
  BY <1>4, <1>5

(* Whatever its tags, options and length, a frame is unpacked within its    *)
(* bounds, and what of it is looked at as payload are the bytes behind the  *)
(* headers as they declare their own lengths, all of them and no other      *)
(* (parser.py:62-184).                                                      *)
THEOREM ParsedWithinBounds == Spec => []ParserSound
<1>1. \A f \in ProbeFrames : WellFormed(f)
  BY ReplayAssumption
<1>2. ReadsInBounds
  BY <1>1, InBounds DEF ReadsInBounds
<1>3. PayloadIsTheRest
  BY <1>1, RestIsPayload DEF PayloadIsTheRest
<1>4. ReplayInv => ParserSound
  BY <1>2, <1>3 DEF ReplayInv, ParserSound
<1>5. QED
  BY <1>4, ReplayStart, ReplayStep, PTL DEF Spec
================================================================================
