----------------------------- MODULE SensorNode_proofs -----------------------------
(***************************************************************************)
(* Two threads shut the sensor down, interrupted or failing anywhere: the  *)
(* session is exported at most once, the report claims what it lists, and  *)
(* no frame between wire and capture file is lost unseen, for every length *)
(* of the queue and any number of frames, alerts and interrupts.           *)
(***************************************************************************)
EXTENDS SensorNode, SequenceTheorems, TLAPS

Working == {"stop", "close_pcap", "open_brain"}

(* Whoever is between acquiring and releasing holds the lock, and nobody    *)
(* else; shutdown is claimed once, and the one export follows the claim.                      *)
ExportInv ==
    /\ DOMAIN pc = Threads
    /\ \A t \in Stoppers : shutdown_lock = t <=> pc[t] \in ShutdownSteps \ {"acquire"}
    /\ exports \in {0, 1}
    /\ ~shutdown_complete => exports = 0
    /\ \A t \in Stoppers : pc[t] = "claim" => ~shutdown_complete
    /\ \A t \in Stoppers : pc[t] \in Working => shutdown_complete /\ exports = 0

Places == {"sleep", "done", "finally", "join", "return", "finalize", "exited", "wait"}

LEMMA ExportStart == Init => ExportInv
<1> SUFFICES ASSUME Init PROVE ExportInv
  OBVIOUS
<1>1. /\ DOMAIN pc = Threads /\ ~shutdown_complete /\ exports = 0
      /\ \A t \in Stoppers : shutdown_lock # t /\ pc[t] \in {"wait", "start"}
  BY DEF Init, Threads, Stoppers, Free
<1>2. {"wait", "start"} \cap (ShutdownSteps \cup Working) = {}
  BY DEF ShutdownSteps, Working
<1>3. "claim" \in ShutdownSteps
  BY DEF ShutdownSteps
<1> QED
  BY <1>1, <1>2, <1>3 DEF ExportInv

LEMMA OthersApart ==
    ASSUME ExportInv, UNCHANGED <<shutdown_lock, shutdown_complete, exports>>,
           DOMAIN pc' = Threads, \A t \in Stoppers : pc'[t] = pc[t]
    PROVE  ExportInv'
BY DEF ExportInv

(* A stopper t that leaves its shutdown, and the lock with it, or has yet   *)
(* to begin it.                                                             *)
LEMMA StopperOutside ==
    ASSUME ExportInv, UNCHANGED <<shutdown_complete, exports>>,
           NEW t \in Stoppers, NEW from, NEW to \in Places \cup {"acquire"}, Goto(t, from, to),
           shutdown_lock' = Released(t)
    PROVE  ExportInv'
<1>1. /\ pc'[t] = to /\ DOMAIN pc' = Threads
      /\ \A u \in Stoppers : u # t => pc'[u] = pc[u]
  BY DEF ExportInv, Goto, Threads, Stoppers
<1>2. to \notin ShutdownSteps \ {"acquire"} /\ to \notin Working /\ to # "claim"
  BY DEF Places, ShutdownSteps, Working
<1>3. /\ shutdown_lock' # t
      /\ \A u \in Stoppers : u # t => (shutdown_lock' = u <=> shutdown_lock = u)
  BY DEF Released, Stoppers, Free
<1> QED
  BY <1>1, <1>2, <1>3 DEF ExportInv

(* A stopper t that goes from one step of its shutdown to the next.         *)
LEMMA StopperInside ==
    ASSUME ExportInv, NEW t \in Stoppers,
           NEW from \in ShutdownSteps \ {"acquire"}, NEW to \in ShutdownSteps \ {"acquire"},
           Goto(t, from, to), UNCHANGED shutdown_lock,
           exports' \in {0, 1}, ~shutdown_complete' => exports' = 0,
           to = "claim" => ~shutdown_complete',
           to \in Working => shutdown_complete' /\ exports' = 0
    PROVE  ExportInv'
<1>1. /\ pc[t] = from /\ pc'[t] = to /\ DOMAIN pc' = Threads
      /\ \A u \in Stoppers : u # t => pc'[u] = pc[u]
  BY DEF ExportInv, Goto, Threads, Stoppers
<1>2. shutdown_lock = t
  BY <1>1 DEF ExportInv
<1>3. ASSUME NEW u \in Stoppers, u # t PROVE pc[u] \notin ShutdownSteps \ {"acquire"}
  BY <1>2, <1>3 DEF ExportInv
<1>4. "claim" \in ShutdownSteps \ {"acquire"} /\ Working \subseteq ShutdownSteps \ {"acquire"}
  BY DEF Working, ShutdownSteps
<1> QED
  BY <1>1, <1>2, <1>3, <1>4 DEF ExportInv

(* A stopper outside its shutdown has no lock to let go.                    *)
LEMMA NothingReleased ==
    ASSUME ExportInv, NEW t \in Stoppers, pc[t] \notin ShutdownSteps \ {"acquire"}
    PROVE  Released(t) = shutdown_lock
BY DEF ExportInv, Released

LEMMA Elsewhere ==
    ASSUME ExportInv, NEW t \in {"sniffer", "analyzer"}, NEW from, NEW to, Goto(t, from, to),
           UNCHANGED <<shutdown_lock, shutdown_complete, exports>>
    PROVE  ExportInv'
<1>1. DOMAIN pc' = Threads /\ \A u \in Stoppers : pc'[u] = pc[u]
  BY DEF ExportInv, Goto, Threads, Stoppers
<1> QED
  BY <1>1, OthersApart

LEMMA ShutdownKeeps ==
    ASSUME ExportInv, NEW t \in Stoppers, Shutdown(t)
    PROVE  ExportInv'
<1> DEFINE Steps == ShutdownSteps \ {"acquire"}
<1>1. CASE Acquire(t)
  <2>1. /\ Goto(t, "acquire", "check") /\ shutdown_lock = Free /\ shutdown_lock' = t
        /\ UNCHANGED <<shutdown_complete, exports>>
    BY <1>1 DEF Acquire, flagVars, workVars
  <2>2. /\ pc'[t] = "check" /\ DOMAIN pc' = Threads
        /\ \A u \in Stoppers : u # t => pc'[u] = pc[u]
    BY <2>1 DEF ExportInv, Goto, Threads, Stoppers
  <2>3. \A u \in Stoppers : pc[u] \notin Steps
    BY <2>1 DEF ExportInv, Stoppers, Free
  <2>4. "claim" \in Steps /\ Working \subseteq Steps /\ "check" \notin Working
    BY DEF Working, ShutdownSteps
  <2>5. \A u \in Stoppers : shutdown_lock' = u <=> pc'[u] \in Steps
    BY <2>1, <2>2, <2>3 DEF ShutdownSteps
  <2> QED
    BY <2>1, <2>2, <2>3, <2>4, <2>5 DEF ExportInv
<1>2. CASE AlreadyComplete(t) \/ NotComplete(t)
  <2>1. PICK to \in {"release", "claim"} : Goto(t, "check", to) /\ (to = "claim" => ~shutdown_complete)
    BY <1>2 DEF AlreadyComplete, NotComplete
  <2>2. UNCHANGED <<shutdown_lock, shutdown_complete, exports>>
    BY <1>2 DEF AlreadyComplete, NotComplete, flagVars, workVars
  <2>3. {"check", "release", "claim"} \subseteq Steps /\ to \notin Working
    BY DEF ShutdownSteps, Working
  <2> QED
    BY <2>1, <2>2, <2>3, StopperInside DEF ExportInv
<1>3. CASE ClaimShutdown(t)
  <2>1. Goto(t, "claim", "stop") /\ shutdown_complete' /\ UNCHANGED <<shutdown_lock, exports>>
    BY <1>3 DEF ClaimShutdown, workVars
  <2>2. exports = 0 /\ {"claim", "stop"} \subseteq Steps
    BY <2>1 DEF Goto, ExportInv, ShutdownSteps
  <2> QED
    BY <2>1, <2>2, StopperInside
<1>4. CASE StopRunning(t) \/ ClosePcap(t)
  <2>1. PICK from \in {"stop", "close_pcap"}, to \in {"close_pcap", "open_brain"} : Goto(t, from, to)
    BY <1>4 DEF StopRunning, ClosePcap
  <2>2. UNCHANGED <<shutdown_lock, shutdown_complete, exports>>
    BY <1>4 DEF StopRunning, ClosePcap, flagVars, workVars
  <2>3. shutdown_complete /\ exports = 0 /\ {from, to} \subseteq Steps
    BY <2>1 DEF Goto, ExportInv, ShutdownSteps, Working
  <2> QED
    BY <2>1, <2>2, <2>3, StopperInside
<1>5. CASE OpenBrain(t)
  <2>1. PICK to \in {"dump_brain", "generate"} : Goto(t, "open_brain", to)
    BY <1>5 DEF OpenBrain
  <2>2. UNCHANGED <<shutdown_lock, shutdown_complete>> /\ exports' = exports + 1
    BY <1>5 DEF OpenBrain, flagVars
  <2>3. shutdown_complete /\ exports = 0 /\ {"open_brain", to} \subseteq Steps /\ to \notin Working \cup {"claim"}
    BY <2>1 DEF Goto, ExportInv, ShutdownSteps, Working
  <2> QED
    BY <2>1, <2>2, <2>3, StopperInside
<1>6. CASE DumpBrain(t) \/ GenerateNothing(t) \/ GenerateRows(t) \/ WriteReport(t)
  <2>1. PICK from \in {"dump_brain", "generate", "write_report"},
             to \in {"generate", "release", "write_report"} : Goto(t, from, to)
    BY <1>6 DEF DumpBrain, GenerateNothing, GenerateRows, WriteReport
  <2>2. UNCHANGED <<shutdown_lock, shutdown_complete, exports>>
    BY <1>6 DEF DumpBrain, GenerateNothing, GenerateRows, WriteReport, flagVars, workVars
  <2>3. {from, to} \subseteq Steps /\ to \notin Working \cup {"claim"}
    BY DEF ShutdownSteps, Working
  <2> QED
    BY <2>1, <2>2, <2>3, StopperInside DEF ExportInv
<1>7. CASE Release(t)
  <2>1. Goto(t, "release", AfterShutdown(t)) /\ shutdown_lock' = Free /\ UNCHANGED <<shutdown_complete, exports>>
    BY <1>7 DEF Release, flagVars, workVars
  <2>2. shutdown_lock = t
    BY <2>1 DEF Goto, ExportInv, ShutdownSteps
  <2>3. AfterShutdown(t) \in Places
    BY DEF AfterShutdown, Places
  <2> QED
    BY <2>1, <2>2, <2>3, StopperOutside DEF Released
<1>8. CASE WorkFails(t)
  <2>1. PICK from : Raise(t, from)
    BY <1>8 DEF WorkFails
  <2>2. Goto(t, from, AfterException(t)) /\ shutdown_lock' = Released(t) /\ UNCHANGED <<shutdown_complete, exports>>
    BY <2>1 DEF Raise, flagVars, workVars
  <2>3. AfterException(t) \in Places
    BY DEF AfterException, Places
  <2> QED
    BY <2>2, <2>3, StopperOutside
<1> QED
  BY <1>1, <1>2, <1>3, <1>4, <1>5, <1>6, <1>7, <1>8 DEF Shutdown

LEMMA ExportStep == ExportInv /\ [Next]_vars => ExportInv'
<1> SUFFICES ASSUME ExportInv, [Next]_vars PROVE ExportInv'
  OBVIOUS
<1> DEFINE Kept == UNCHANGED <<shutdown_lock, shutdown_complete, exports>>
<1>1. CASE Sniffer
  <2>1. PICK from, to : Goto("sniffer", from, to)
    BY <1>1 DEF Sniffer, SnifferOpens, SnifferRefused, SnifferReceives
  <2>2. Kept
    BY <1>1 DEF Sniffer, SnifferOpens, SnifferRefused, SnifferReceives, flagVars, workVars
  <2> QED
    BY <2>1, <2>2, Elsewhere
<1>2. CASE Analyzer
  <2> USE DEF AnalyzerPolls, AnalyzerGets, AnalyzerTimesOut, TimerAlert, TimerDone, WriteCapture,
              FrameIgnored, FrameClean, FrameAlert, FrameRecorded, DispatchCounts, DispatchReports,
              DispatchAudits
  <2>1. PICK from, to : Goto("analyzer", from, to)
    BY <1>2 DEF Analyzer
  <2>2. Kept
    BY <1>2 DEF Analyzer, flagVars, workVars
  <2> QED
    BY <2>1, <2>2, Elsewhere
<1>3. CASE Sensor
  <2>1. CASE SensorStarts
    <3>1. Kept /\ DOMAIN pc' = Threads /\ pc'["main"] = pc["main"] /\ pc'["sensor"] = "sleep"
      BY <2>1 DEF SensorStarts, ExportInv, Threads, flagVars, workVars
    <3>2. "sleep" \notin ShutdownSteps \cup Working \cup {"claim"}
      BY DEF ShutdownSteps, Working
    <3>3. pc["sensor"] \notin ShutdownSteps
      BY <2>1 DEF SensorStarts, ShutdownSteps
    <3> QED
      BY <3>1, <3>2, <3>3 DEF ExportInv, Stoppers
  <2>2. CASE SensorWakes
    <3>1. Kept /\ Goto("sensor", "sleep", "acquire") /\ "sensor" \in Stoppers
      BY <2>2 DEF SensorWakes, flagVars, workVars, Stoppers
    <3>2. shutdown_lock = Released("sensor")
      BY <3>1, NothingReleased DEF Goto, ShutdownSteps
    <3> QED
      BY <3>1, <3>2, StopperOutside
  <2> QED
    BY <1>3, <2>1, <2>2, ShutdownKeeps DEF Sensor, Stoppers
<1>4. CASE Main
  <2>1. CASE MainSeesSensorEnd \/ MainFinally \/ MainJoins \/ MainReturns \/ ProcessExits
    <3>1. PICK from \in Places, to \in Places \cup {"acquire"} : Goto("main", from, to)
      BY <2>1 DEF MainSeesSensorEnd, MainFinally, MainJoins, MainReturns, ProcessExits, Places
    <3>2. Kept /\ "main" \in Stoppers
      BY <2>1 DEF MainSeesSensorEnd, MainFinally, MainJoins, MainReturns, ProcessExits, flagVars, workVars,
              Stoppers
    <3>3. shutdown_lock = Released("main")
      BY <3>1, <3>2, NothingReleased DEF Goto, Places, ShutdownSteps
    <3> QED
      BY <3>1, <3>2, <3>3, StopperOutside
  <2> QED
    BY <1>4, <2>1, ShutdownKeeps DEF Main, Stoppers
<1>5. CASE Interrupt
  <2>1. UNCHANGED <<shutdown_complete, exports>>
    BY <1>5 DEF Interrupt, flagVars, workVars
  <2>2. PICK to \in Places \cup {"acquire"} : \E from : Goto("main", from, to)
    <3>1. \/ Goto("main", "wait", "acquire")
          \/ Goto("main", pc["main"], AfterException("main"))
          \/ Goto("main", "finalize", "exited")
      BY <1>5 DEF Interrupt
    <3>2. {AfterException("main"), "acquire", "exited"} \subseteq Places \cup {"acquire"}
      BY DEF AfterException, Places
    <3> QED
      BY <3>1, <3>2
  <2>3. shutdown_lock' = Released("main")
    <3>1. CASE shutdown_lock' = Released("main")
      BY <3>1
    <3>2. CASE Goto("main", "wait", "acquire") \/ Goto("main", "finalize", "exited")
      <4>1. pc["main"] \notin ShutdownSteps /\ "main" \in Stoppers
        BY <3>2 DEF Goto, ShutdownSteps, Stoppers
      <4>2. UNCHANGED shutdown_lock
        BY <1>5, <4>1 DEF Interrupt, Goto, ShutdownSteps, Released, ExportInv
      <4> QED
        BY <4>1, <4>2, NothingReleased
    <3> QED
      BY <1>5, <3>1, <3>2 DEF Interrupt
  <2>4. PICK from : Goto("main", from, to)
    BY <2>2
  <2> QED
    BY <2>1, <2>3, <2>4, StopperOutside DEF Stoppers
<1>6. CASE UNCHANGED vars
  BY <1>6 DEF vars, flagVars, workVars, ExportInv
<1> QED
  BY <1>1, <1>2, <1>3, <1>4, <1>5, <1>6 DEF Next, Terminated

(* However often Ctrl+C arrives and whatever fails, the session is exported *)
(* once at most, by the thread that holds the lock, and the lock is freed   *)
(* by whoever leaves (sensor.py:322-359).                                   *)
THEOREM ExportedOnce == Spec => []ShutdownOnce
<1>1. ExportInv => ShutdownOnce
  BY DEF ExportInv, ShutdownOnce
<1>2. QED
  BY <1>1, ExportStart, ExportStep, PTL DEF Spec

--------------------------------------------------------------------------------
(* An alert is counted before it is reported, and the rows are gathered     *)
(* before the total that goes into the same report is read.                 *)
CountInv ==
    /\ DOMAIN pc = Threads
    /\ total \in Nat /\ alerts \in Nat /\ report_rows \in Nat
    /\ report \in [rows : Nat, count : Nat]
    /\ alerts <= total
    /\ pc["analyzer"] = "report" => alerts < total
    /\ report_rows <= alerts
    /\ resume # "report"
    /\ ReportSound

LEMMA CountStart == Init => CountInv
BY SensorAssumption DEF Init, CountInv, ReportSound, NoReport, Threads

(* Where the analyzer is matters for its own steps only.                    *)
LEMMA CountsKept ==
    ASSUME CountInv, UNCHANGED <<alertVars, report_rows, report>>, DOMAIN pc' = Threads, resume' # "report",
           pc'["analyzer"] = "report" => pc["analyzer"] = "report"
    PROVE  CountInv'
BY DEF CountInv, ReportSound, alertVars

LEMMA CountGoto ==
    ASSUME CountInv, UNCHANGED <<alertVars, report_rows, report>>, resume' # "report",
           NEW t, NEW from, NEW to, Goto(t, from, to), t = "analyzer" => to # "report"
    PROVE  CountInv'
<1>1. DOMAIN pc' = Threads /\ (pc'["analyzer"] = "report" => pc["analyzer"] = "report")
  BY DEF CountInv, Goto, Threads
<1> QED
  BY <1>1, CountsKept

LEMMA CountAnalyzer ==
    ASSUME CountInv, Analyzer
    PROVE  CountInv'
<1>1. CASE DispatchCounts
  <2>1. /\ pc' = [pc EXCEPT !["analyzer"] = "report"] /\ total' = total + 1
        /\ UNCHANGED <<alerts, report_rows, report, resume>>
    BY <1>1 DEF DispatchCounts, Goto, workVars
  <2> QED
    BY <2>1 DEF CountInv, ReportSound, Threads
<1>2. CASE DispatchReports
  <2>1. /\ pc["analyzer"] = "report" /\ pc' = [pc EXCEPT !["analyzer"] = "audit"]
        /\ alerts' = alerts + 1 /\ UNCHANGED <<report_rows, report, resume>>
    BY <1>2 DEF DispatchReports, Goto, workVars
  <2>2. total' = total
    BY <1>2 DEF DispatchReports, alertVars
  <2> QED
    BY <2>1, <2>2 DEF CountInv, ReportSound, Threads
<1>3. ASSUME NEW from, NEW to, Goto("analyzer", from, to), to # "report",
             UNCHANGED <<alertVars, report_rows, report>>, resume' # "report"
      PROVE  CountInv'
  BY <1>3, CountGoto
<1>4. CASE AnalyzerPolls \/ AnalyzerGets \/ AnalyzerTimesOut \/ TimerAlert \/ TimerDone
  BY <1>3, <1>4 DEF AnalyzerPolls, AnalyzerGets, AnalyzerTimesOut, TimerAlert, TimerDone, workVars,
     CountInv
<1>5. CASE WriteCapture \/ FrameIgnored \/ FrameClean \/ FrameAlert \/ FrameRecorded
  BY <1>3, <1>5 DEF WriteCapture, FrameIgnored, FrameClean, FrameAlert, FrameRecorded, workVars, CountInv
<1>6. CASE DispatchAudits
  BY <1>3, <1>6 DEF DispatchAudits, workVars, CountInv
<1> QED
  BY <1>1, <1>2, <1>4, <1>5, <1>6 DEF Analyzer

LEMMA CountShutdown ==
    ASSUME CountInv, NEW t \in Stoppers, Shutdown(t)
    PROVE  CountInv'
<1>1. t # "analyzer"
  BY DEF Stoppers
<1>2. ASSUME NEW from, NEW to, Goto(t, from, to), UNCHANGED <<alertVars, report_rows, report, resume>>
      PROVE  CountInv'
  <2>1. resume' # "report"
    BY <1>2 DEF CountInv
  <2> QED
    BY <1>1, <1>2, <2>1, CountGoto
<1>3. CASE GenerateRows(t)
  <2>1. /\ DOMAIN pc' = Threads /\ pc'["analyzer"] = pc["analyzer"]
        /\ report_rows' = alerts /\ UNCHANGED <<alertVars, report, resume>>
    BY <1>1, <1>3 DEF GenerateRows, Goto, CountInv, Threads
  <2> QED
    BY <2>1 DEF CountInv, ReportSound, alertVars
<1>4. CASE WriteReport(t)
  <2>1. /\ DOMAIN pc' = Threads /\ pc'["analyzer"] = pc["analyzer"]
        /\ report' = [rows |-> report_rows, count |-> alerts] /\ UNCHANGED <<alertVars, report_rows, resume>>
    BY <1>1, <1>4 DEF WriteReport, Goto, CountInv, Threads
  <2> QED
    BY <2>1 DEF CountInv, ReportSound, alertVars
<1>5. CASE Acquire(t) \/ AlreadyComplete(t) \/ NotComplete(t) \/ ClaimShutdown(t) \/ StopRunning(t)
  BY <1>2, <1>5 DEF Acquire, AlreadyComplete, NotComplete, ClaimShutdown, StopRunning, workVars
<1>6. CASE ClosePcap(t) \/ OpenBrain(t) \/ DumpBrain(t) \/ GenerateNothing(t) \/ Release(t)
  BY <1>2, <1>6 DEF ClosePcap, OpenBrain, DumpBrain, GenerateNothing, Release, workVars
<1>7. CASE WorkFails(t)
  BY <1>2, <1>7 DEF WorkFails, Raise, workVars
<1> QED
  BY <1>3, <1>4, <1>5, <1>6, <1>7 DEF Shutdown

LEMMA CountStep == CountInv /\ [Next]_vars => CountInv'
<1> SUFFICES ASSUME CountInv, [Next]_vars PROVE CountInv'
  OBVIOUS
<1>1. ASSUME NEW t \in Threads \ {"analyzer"}, NEW from, NEW to, Goto(t, from, to),
             UNCHANGED <<alertVars, report_rows, report, resume>>
      PROVE  CountInv'
  <2>1. resume' # "report"
    BY <1>1 DEF CountInv
  <2> QED
    BY <1>1, <2>1, CountGoto
<1>2. CASE Sniffer
  BY <1>1, <1>2 DEF Sniffer, SnifferOpens, SnifferRefused, SnifferReceives, workVars, Threads
<1>3. CASE Analyzer
  BY <1>3, CountAnalyzer
<1>4. CASE SensorStarts
  <2>1. /\ DOMAIN pc' = Threads /\ pc'["analyzer"] # "report"
        /\ UNCHANGED <<alertVars, report_rows, report, resume>>
    BY <1>4 DEF SensorStarts, CountInv, Threads, workVars
  <2>2. resume' # "report"
    BY <2>1 DEF CountInv
  <2> QED
    BY <2>1, <2>2, CountsKept
<1>5. CASE SensorWakes
  BY <1>1, <1>5 DEF SensorWakes, workVars, Threads
<1>6. CASE MainSeesSensorEnd \/ MainFinally \/ MainJoins \/ MainReturns \/ ProcessExits
  BY <1>1, <1>6 DEF MainSeesSensorEnd, MainFinally, MainJoins, MainReturns, ProcessExits, workVars, Threads
<1>7. CASE Shutdown("sensor") \/ Shutdown("main")
  BY <1>7, CountShutdown DEF Stoppers
<1>8. CASE Interrupt
  BY <1>1, <1>8 DEF Interrupt, workVars, Threads
<1>9. CASE UNCHANGED vars
  BY <1>9, CountsKept DEF vars, workVars, CountInv
<1> QED
  BY <1>2, <1>3, <1>4, <1>5, <1>6, <1>7, <1>8, <1>9 DEF Next, Sensor, Main, Terminated

(* The report never lists more alerts than it says it does, nor says it has *)
(* more than were raised (sensor.py:351, dashboard_ui/reporting.py).         *)
THEOREM ReportHonest == Spec => []ReportSound
<1>1. CountInv => ReportSound
  BY DEF CountInv
<1>2. QED
  BY <1>1, CountStart, CountStep, PTL DEF Spec

--------------------------------------------------------------------------------
(* Types, one group of variables at a time.                                 *)
PcOK ==
    /\ pc \in [Threads -> UNION {Locations[t] : t \in Threads}]
    /\ \A t \in Threads : pc[t] \in Locations[t]

ControlOK ==
    /\ is_running \in BOOLEAN /\ shutdown_complete \in BOOLEAN
    /\ shutdown_lock \in Stoppers \cup {Free}
    /\ stopped_at \in Nat
    /\ resume \in {"timer", "record"}
    /\ main_in \in {"try", "except", "finally"}
    /\ pending \in BOOLEAN /\ timed_out \in BOOLEAN
    /\ outcome \in {"running", "exception", "unbound exit_code", "exit_code 1"}
    /\ interrupts \in 0..MaxInterrupts

FramesOK ==
    /\ packet_queue \in Seq(Frames)
    /\ captured \in 0..MaxFrames
    /\ dropped \subseteq Frames
    /\ handled \in Seq(Frames)
    /\ in_hand \in Frames \cup {NoFrame}
    /\ pcap_open \in BOOLEAN /\ pcap_frames \in Seq(Frames)
    /\ unwritten \subseteq Frames

(* An alert that is about to be counted is one the bound has room for.      *)
WorkOK ==
    /\ total \in 0..MaxAlerts /\ alerts \in 0..MaxAlerts /\ report_rows \in 0..MaxAlerts
    /\ report \in [rows : 0..MaxAlerts, count : 0..MaxAlerts]
    /\ brain \in {"none", "partial", "saved"}
    /\ exports \in Nat
    /\ pc["analyzer"] = "dispatch" => total < MaxAlerts

LEMMA TypeParts == PcOK /\ ControlOK /\ FramesOK /\ WorkOK => TypeOK
BY DEF TypeOK, PcOK, ControlOK, FramesOK, WorkOK

LEMMA GotoTyped ==
    ASSUME PcOK, NEW t \in Threads, NEW from, NEW to \in Locations[t], Goto(t, from, to)
    PROVE  PcOK' /\ pc[t] = from /\ pc'[t] = to /\ \A u \in Threads : u # t => pc'[u] = pc[u]
BY DEF PcOK, Goto

LEMMA Whereabouts ==
    /\ Locations["main"] = ShutdownSteps \cup {"wait", "finally", "join", "return", "finalize", "exited"}
    /\ Locations["sensor"] = ShutdownSteps \cup {"start", "sleep", "done"}
    /\ Locations["sniffer"] = {"unborn", "open", "recv", "done"}
    /\ Locations["analyzer"] = {"unborn", "poll", "get", "timer", "write", "inspect", "dispatch",
                                "report", "audit", "record", "done"}
    /\ \A t \in Stoppers : ShutdownSteps \subseteq Locations[t] /\ AfterException(t) \in Locations[t]
                                                               /\ AfterShutdown(t) \in Locations[t]
    /\ Stoppers \subseteq Threads /\ {"sniffer", "analyzer"} \subseteq Threads
BY DEF Locations, Stoppers, AfterException, AfterShutdown, Threads

LEMMA PcStep == PcOK /\ resume \in {"timer", "record"} /\ [Next]_vars => PcOK'
<1> SUFFICES ASSUME PcOK, resume \in {"timer", "record"}, [Next]_vars PROVE PcOK'
  OBVIOUS
<1>1. ASSUME NEW t \in Threads, NEW from, NEW to \in Locations[t], Goto(t, from, to) PROVE PcOK'
  BY <1>1, GotoTyped
<1>2. CASE Sniffer
  BY <1>1, <1>2, Whereabouts DEF Sniffer, SnifferOpens, SnifferRefused, SnifferReceives
<1>3. CASE Analyzer
  <2> USE DEF AnalyzerPolls, AnalyzerGets, AnalyzerTimesOut, TimerAlert, TimerDone, WriteCapture,
              FrameIgnored, FrameClean, FrameAlert, FrameRecorded, DispatchCounts, DispatchReports,
              DispatchAudits
  <2>1. PICK from, to \in Locations["analyzer"] : Goto("analyzer", from, to)
    BY <1>3, Whereabouts DEF Analyzer, Goto, PcOK
  <2> QED
    BY <1>1, <2>1, Whereabouts
<1>4. ASSUME NEW t \in Stoppers, Shutdown(t) PROVE PcOK'
  <2> USE DEF Acquire, AlreadyComplete, NotComplete, ClaimShutdown, StopRunning, ClosePcap, OpenBrain,
              DumpBrain, GenerateNothing, GenerateRows, WriteReport, Release, WorkFails, Raise
  <2>1. PICK to \in Locations[t] : \E from : Goto(t, from, to)
    <3>1. \E to \in ShutdownSteps \cup {AfterException(t), AfterShutdown(t)} : \E from : Goto(t, from, to)
      BY <1>4 DEF Shutdown, ShutdownSteps
    <3> QED
      BY <3>1, Whereabouts
  <2> QED
    BY <1>1, <2>1, Whereabouts
<1>5. CASE SensorStarts
  BY <1>5, Whereabouts DEF SensorStarts, PcOK, Threads
<1>6. CASE SensorWakes
  BY <1>1, <1>6, Whereabouts DEF SensorWakes, Stoppers, ShutdownSteps
<1>7. CASE MainSeesSensorEnd \/ MainFinally \/ MainJoins \/ MainReturns \/ ProcessExits
  BY <1>1, <1>7, Whereabouts DEF MainSeesSensorEnd, MainFinally, MainJoins, MainReturns, ProcessExits,
     Stoppers, ShutdownSteps
<1>8. CASE Interrupt
  <2>1. \E to \in {"acquire", AfterException("main"), "exited"} : \E from : Goto("main", from, to)
    BY <1>8 DEF Interrupt
  <2>2. {"acquire", AfterException("main"), "exited"} \subseteq Locations["main"] /\ "main" \in Threads
    BY Whereabouts DEF Stoppers, ShutdownSteps
  <2> QED
    BY <1>1, <2>1, <2>2
<1>9. CASE UNCHANGED vars
  BY <1>9 DEF vars, PcOK
<1> QED
  BY <1>2, <1>3, <1>4, <1>5, <1>6, <1>7, <1>8, <1>9 DEF Next, Sensor, Main, Terminated, Stoppers

LEMMA ControlStep == ControlOK /\ handled \in Seq(Frames) /\ [Next]_vars => ControlOK'
<1> SUFFICES ASSUME ControlOK, handled \in Seq(Frames), [Next]_vars PROVE ControlOK'
  OBVIOUS
<1> USE DEF flagVars, mainVars
<1>1. ASSUME UNCHANGED <<flagVars, shutdown_lock, resume, mainVars>> PROVE ControlOK'
  BY <1>1 DEF ControlOK
<1>2. ClearRunning => is_running' \in BOOLEAN /\ stopped_at' \in Nat
  <2>1. Len(handled) \in Nat
    OBVIOUS
  <2>4. stopped_at \in Nat
    BY DEF ControlOK
  <2>2. ClearRunning => is_running' \in BOOLEAN
    BY DEF ClearRunning
  <2>3. ClearRunning => stopped_at' \in {Len(handled), stopped_at}
    BY DEF ClearRunning
  <2> QED
    BY <2>1, <2>2, <2>3, <2>4
<1>3. ASSUME is_running' \in BOOLEAN, stopped_at' \in Nat,
             UNCHANGED <<shutdown_complete, shutdown_lock, resume, mainVars>>
      PROVE  ControlOK'
  BY <1>3 DEF ControlOK
<1>4. CASE Sniffer
  BY <1>1, <1>2, <1>3, <1>4 DEF Sniffer, SnifferOpens, SnifferRefused, SnifferReceives
<1>5. CASE Analyzer
  <2>1. UNCHANGED <<flagVars, shutdown_lock, mainVars>> /\ resume' \in {resume, "timer", "record"}
    BY <1>5 DEF Analyzer, AnalyzerPolls, AnalyzerGets, AnalyzerTimesOut, TimerAlert, TimerDone, WriteCapture,
       FrameIgnored, FrameClean, FrameAlert, FrameRecorded, DispatchCounts, DispatchReports, DispatchAudits
  <2> QED
    BY <2>1 DEF ControlOK
<1>6. ASSUME NEW t \in Stoppers, Shutdown(t) PROVE ControlOK'
  <2>1. CASE Acquire(t)
    BY <1>6, <2>1 DEF Acquire, ControlOK
  <2>2. CASE ClaimShutdown(t)
    <3>1. shutdown_complete' \in BOOLEAN
      BY <2>2 DEF ClaimShutdown
    <3> QED
      BY <2>2, <3>1 DEF ClaimShutdown, ControlOK
  <2>3. CASE StopRunning(t)
    BY <1>2, <1>3, <2>3 DEF StopRunning
  <2>4. CASE Release(t)
    BY <2>4 DEF Release, ControlOK
  <2>5. CASE WorkFails(t)
    <3>1. /\ shutdown_lock' = Released(t) /\ pending' = (pending \/ t = "main")
          /\ main_in' \in {main_in, "finally"} /\ outcome' \in {outcome, "exception"}
          /\ UNCHANGED <<flagVars, resume, timed_out, interrupts>>
      BY <2>5 DEF WorkFails, Raise
    <3>2. pending' \in BOOLEAN
      BY <3>1
    <3> QED
      BY <3>1, <3>2 DEF ControlOK, Released
  <2>6. CASE AlreadyComplete(t) \/ NotComplete(t) \/ ClosePcap(t) \/ OpenBrain(t) \/ DumpBrain(t)
             \/ GenerateNothing(t) \/ GenerateRows(t) \/ WriteReport(t)
    BY <1>1, <2>6 DEF AlreadyComplete, NotComplete, ClosePcap, OpenBrain, DumpBrain, GenerateNothing,
       GenerateRows, WriteReport
  <2> QED
    BY <1>6, <2>1, <2>2, <2>3, <2>4, <2>5, <2>6 DEF Shutdown
<1>7. CASE SensorStarts \/ SensorWakes
  BY <1>1, <1>7 DEF SensorStarts, SensorWakes
<1>8. CASE MainSeesSensorEnd \/ MainFinally \/ ProcessExits
  <2>1. /\ main_in' \in {main_in, "finally"}
        /\ UNCHANGED <<flagVars, shutdown_lock, resume, pending, timed_out, outcome, interrupts>>
    BY <1>8 DEF MainSeesSensorEnd, MainFinally, ProcessExits
  <2> QED
    BY <2>1 DEF ControlOK
<1>9. CASE MainJoins
  <2>1. timed_out' \in BOOLEAN
    BY <1>9 DEF MainJoins, SensorAlive
  <2> QED
    BY <1>9, <2>1 DEF MainJoins, ControlOK
<1>10. CASE MainReturns
  <2>1. outcome' \in {"exception", "exit_code 1", "unbound exit_code"}
    BY <1>10 DEF MainReturns
  <2> QED
    BY <1>10, <2>1 DEF MainReturns, ControlOK
<1>11. CASE Interrupt
  <2>1. /\ main_in' \in {main_in, "except", "finally"} /\ shutdown_lock' \in {shutdown_lock, Released("main")}
        /\ outcome' \in {outcome, "exception"} /\ UNCHANGED <<flagVars, resume, timed_out>>
    BY <1>11 DEF Interrupt
  <2>2. pending' = pending \/ pending' = TRUE
    BY <1>11 DEF Interrupt
  <2>3. pending' \in BOOLEAN
    BY <2>2 DEF ControlOK
  <2>4. interrupts' \in 0..MaxInterrupts
    <3>1. interrupts < MaxInterrupts /\ interrupts' = interrupts + 1
      BY <1>11 DEF Interrupt
    <3>2. interrupts \in 0..MaxInterrupts
      BY DEF ControlOK
    <3> QED
      BY <3>1, <3>2, SensorAssumption
  <2> QED
    BY <2>1, <2>3, <2>4 DEF ControlOK, Released
<1>12. CASE UNCHANGED vars
  BY <1>1, <1>12 DEF vars
<1> QED
  BY <1>4, <1>5, <1>6, <1>7, <1>8, <1>9, <1>10, <1>11, <1>12 DEF Next, Sensor, Main, Terminated, Stoppers

LEMMA FramesStep ==
    ASSUME FramesOK, pc["analyzer"] = "write" => in_hand # NoFrame, [Next]_vars
    PROVE  FramesOK'
<1> USE DEF queueVars, pcapVars
<1>1. ASSUME UNCHANGED <<queueVars, handled, in_hand, pcap_frames, unwritten>>, pcap_open' \in {pcap_open, FALSE}
      PROVE  FramesOK'
  <2>1. pcap_open' \in BOOLEAN
    BY <1>1 DEF FramesOK
  <2> QED
    BY <1>1, <2>1 DEF FramesOK
<1>2. CASE SnifferReceives
  <2>1. captured + 1 \in Frames /\ captured' = captured + 1 /\ captured' \in 0..MaxFrames
    BY <1>2, SensorAssumption DEF SnifferReceives, FramesOK, Frames
  <2>2. packet_queue' \in Seq(Frames) /\ dropped' \subseteq Frames
    <3>1. packet_queue' \in {packet_queue, Append(packet_queue, captured + 1)} /\ dropped' \subseteq dropped \cup {captured + 1}
      BY <1>2 DEF SnifferReceives
    <3>2. packet_queue \in Seq(Frames) /\ dropped \subseteq Frames
      BY DEF FramesOK
    <3> QED
      BY <2>1, <3>1, <3>2
  <2> QED
    BY <1>2, <2>1, <2>2 DEF SnifferReceives, FramesOK
<1>3. CASE SnifferOpens \/ SnifferRefused
  BY <1>1, <1>3 DEF SnifferOpens, SnifferRefused
<1>4. CASE AnalyzerGets
  <2>1. /\ Head(packet_queue) \in Frames /\ Tail(packet_queue) \in Seq(Frames)
        /\ Append(handled, Head(packet_queue)) \in Seq(Frames)
    BY <1>4 DEF AnalyzerGets, FramesOK
  <2> QED
    BY <1>4, <2>1 DEF AnalyzerGets, FramesOK
<1>5. CASE WriteCapture
  <2>1. in_hand \in Frames
    BY <1>5 DEF WriteCapture, Goto, FramesOK
  <2>2. pcap_frames' \in {pcap_frames, Append(pcap_frames, in_hand)} /\ unwritten' \subseteq unwritten \cup {in_hand}
    BY <1>5 DEF WriteCapture
  <2>3. pcap_frames' \in Seq(Frames) /\ unwritten' \subseteq Frames
    BY <2>1, <2>2 DEF FramesOK
  <2> QED
    BY <1>5, <2>3 DEF WriteCapture, FramesOK
<1>6. CASE FrameIgnored \/ FrameRecorded
  BY <1>6 DEF FrameIgnored, FrameRecorded, FramesOK
<1>7. CASE AnalyzerPolls \/ AnalyzerTimesOut \/ TimerAlert \/ TimerDone \/ FrameClean \/ FrameAlert
           \/ DispatchCounts \/ DispatchReports \/ DispatchAudits
  BY <1>1, <1>7 DEF AnalyzerPolls, AnalyzerTimesOut, TimerAlert, TimerDone, FrameClean, FrameAlert,
     DispatchCounts, DispatchReports, DispatchAudits
<1>8. ASSUME NEW t \in Stoppers, Shutdown(t) PROVE FramesOK'
  <2>1. UNCHANGED <<queueVars, handled, in_hand, pcap_frames, unwritten>> /\ pcap_open' \in {pcap_open, FALSE}
    BY <1>8 DEF Shutdown, Acquire, AlreadyComplete, NotComplete, ClaimShutdown, StopRunning, ClosePcap,
       OpenBrain, DumpBrain, GenerateNothing, GenerateRows, WriteReport, Release, WorkFails, Raise
  <2> QED
    BY <1>1, <2>1
<1>9. CASE SensorStarts \/ SensorWakes \/ MainSeesSensorEnd \/ MainFinally \/ MainJoins \/ MainReturns
           \/ ProcessExits \/ Interrupt
  BY <1>1, <1>9 DEF SensorStarts, SensorWakes, MainSeesSensorEnd, MainFinally, MainJoins, MainReturns,
     ProcessExits, Interrupt
<1>10. CASE UNCHANGED vars
  BY <1>1, <1>10 DEF vars
<1> QED
  BY <1>2, <1>3, <1>4, <1>5, <1>6, <1>7, <1>8, <1>9, <1>10
  DEF Next, Sniffer, Analyzer, Sensor, Main, Terminated, Stoppers

LEMMA WorkStep == PcOK /\ ControlOK /\ WorkOK /\ CountInv /\ [Next]_vars => WorkOK'
<1> SUFFICES ASSUME PcOK, ControlOK, WorkOK, CountInv, [Next]_vars PROVE WorkOK'
  OBVIOUS
<1> USE DEF workVars, alertVars
<1>1. /\ MaxAlerts \in Nat /\ total \in 0..MaxAlerts /\ alerts \in 0..MaxAlerts /\ report_rows \in 0..MaxAlerts
      /\ report \in [rows : 0..MaxAlerts, count : 0..MaxAlerts] /\ exports \in Nat
  BY SensorAssumption DEF WorkOK
<1>2. ASSUME UNCHANGED <<alertVars, report_rows, report>>, brain' \in {brain, "partial", "saved"},
             exports' \in {exports, exports + 1}, pc'["analyzer"] = pc["analyzer"]
      PROVE  WorkOK'
  BY <1>2 DEF WorkOK
<1>3. ASSUME UNCHANGED <<alertVars, workVars>>, pc'["analyzer"] # "dispatch" PROVE WorkOK'
  BY <1>3 DEF WorkOK
<1>4. ASSUME NEW t \in Threads, NEW from, NEW to, Goto(t, from, to) PROVE pc[t] = from /\ pc'[t] = to
  BY <1>4 DEF Goto, PcOK
<1>5. ASSUME NEW t \in Threads \ {"analyzer"}, NEW from, NEW to, Goto(t, from, to)
      PROVE  pc'["analyzer"] = pc["analyzer"]
  BY <1>5 DEF Goto, PcOK
<1>6. CASE Sniffer
  BY <1>2, <1>5, <1>6, Whereabouts DEF Sniffer, SnifferOpens, SnifferRefused, SnifferReceives
<1>7. CASE TimerAlert \/ FrameAlert
  <2>1. total < MaxAlerts /\ UNCHANGED <<alertVars, workVars>>
    BY <1>7 DEF TimerAlert, FrameAlert
  <2> QED
    BY <2>1 DEF WorkOK
<1>8. CASE DispatchCounts
  <2>1. pc["analyzer"] = "dispatch" /\ pc'["analyzer"] = "report"
    BY <1>4, <1>8, Whereabouts DEF DispatchCounts
  <2>2. total' \in 0..MaxAlerts /\ UNCHANGED <<alerts, workVars>>
    BY <1>1, <1>8, <2>1 DEF DispatchCounts, WorkOK
  <2> QED
    BY <2>1, <2>2 DEF WorkOK
<1>9. CASE DispatchReports
  <2>1. pc["analyzer"] = "report" /\ pc'["analyzer"] = "audit"
    BY <1>4, <1>9, Whereabouts DEF DispatchReports
  <2>2. alerts' \in 0..MaxAlerts /\ UNCHANGED <<total, workVars>>
    BY <1>1, <1>9, <2>1 DEF DispatchReports, CountInv
  <2> QED
    BY <2>1, <2>2 DEF WorkOK
<1>10. CASE AnalyzerPolls \/ AnalyzerGets \/ AnalyzerTimesOut \/ TimerDone \/ WriteCapture
           \/ FrameIgnored \/ FrameClean \/ FrameRecorded
  <2>1. PICK from, to : Goto("analyzer", from, to) /\ to # "dispatch"
    BY <1>10 DEF AnalyzerPolls, AnalyzerGets, AnalyzerTimesOut, TimerDone, WriteCapture, FrameIgnored, FrameClean,
       FrameRecorded
  <2>2. UNCHANGED <<alertVars, workVars>>
    BY <1>10 DEF AnalyzerPolls, AnalyzerGets, AnalyzerTimesOut, TimerDone, WriteCapture, FrameIgnored, FrameClean,
       FrameRecorded
  <2> QED
    BY <1>3, <1>4, <2>1, <2>2, Whereabouts
<1>11. CASE DispatchAudits
  <2>1. Goto("analyzer", "audit", resume) /\ UNCHANGED <<alertVars, workVars>>
    BY <1>11 DEF DispatchAudits
  <2>2. pc["analyzer"] = "audit" /\ pc'["analyzer"] = resume
    BY <1>4, <2>1, Whereabouts
  <2>3. resume # "dispatch"
    BY DEF ControlOK
  <2> QED
    BY <1>3, <2>1, <2>2, <2>3
<1>12. ASSUME NEW t \in Stoppers, Shutdown(t) PROVE WorkOK'
  <2>1. PICK from, to : Goto(t, from, to)
    BY <1>12 DEF Shutdown, Acquire, AlreadyComplete, NotComplete, ClaimShutdown, StopRunning, ClosePcap,
       OpenBrain, DumpBrain, GenerateNothing, GenerateRows, WriteReport, Release, WorkFails, Raise
  <2>2. pc'["analyzer"] = pc["analyzer"]
    BY <1>5, <2>1 DEF Stoppers, Threads
  <2>3. CASE GenerateRows(t)
    BY <1>1, <2>2, <2>3 DEF GenerateRows, WorkOK
  <2>4. CASE WriteReport(t)
    BY <1>1, <2>2, <2>4 DEF WriteReport, WorkOK
  <2>5. CASE Acquire(t) \/ AlreadyComplete(t) \/ NotComplete(t) \/ ClaimShutdown(t) \/ StopRunning(t)
             \/ ClosePcap(t) \/ OpenBrain(t) \/ DumpBrain(t) \/ GenerateNothing(t) \/ Release(t) \/ WorkFails(t)
    <3>1. /\ UNCHANGED <<alertVars, report_rows, report>> /\ brain' \in {brain, "partial", "saved"}
          /\ exports' \in {exports, exports + 1}
      BY <2>5 DEF Acquire, AlreadyComplete, NotComplete, ClaimShutdown, StopRunning, ClosePcap,
         OpenBrain, DumpBrain, GenerateNothing, Release, WorkFails, Raise
    <3> QED
      BY <1>2, <2>2, <3>1
  <2> QED
    BY <1>12, <2>3, <2>4, <2>5 DEF Shutdown
<1>13. CASE SensorStarts
  BY <1>3, <1>13 DEF SensorStarts, PcOK, Threads
<1>14. CASE SensorWakes \/ MainSeesSensorEnd \/ MainFinally \/ MainJoins \/ MainReturns \/ ProcessExits \/ Interrupt
  <2>1. \E t \in {"sensor", "main"} : \E from, to : Goto(t, from, to)
    BY <1>14 DEF SensorWakes, MainSeesSensorEnd, MainFinally, MainJoins, MainReturns, ProcessExits, Interrupt
  <2>2. pc'["analyzer"] = pc["analyzer"]
    BY <1>5, <2>1 DEF Threads
  <2> QED
    BY <1>2, <1>14, <2>2 DEF SensorWakes, MainSeesSensorEnd, MainFinally, MainJoins, MainReturns, ProcessExits, Interrupt
<1>15. CASE UNCHANGED vars
  BY <1>2, <1>15 DEF vars
<1> QED
  BY <1>6, <1>7, <1>8, <1>9, <1>10, <1>11, <1>12, <1>13, <1>14, <1>15
  DEF Next, Analyzer, Sensor, Main, Terminated, Stoppers

--------------------------------------------------------------------------------
(* The frames in capture order: those the analyzer took, then those queued. *)
LEMMA SetOf ==
    ASSUME NEW S, NEW s \in Seq(S)
    PROVE  /\ \A x : x \in ToSet(s) <=> \E i \in 1..Len(s) : s[i] = x
           /\ ToSet(s) \subseteq S
           /\ \A x \in S : ToSet(Append(s, x)) = ToSet(s) \cup {x}
<1>1. \A x : x \in ToSet(s) <=> \E i \in 1..Len(s) : s[i] = x
  BY DEF ToSet
<1>2. ToSet(s) \subseteq S
  BY <1>1
<1>3. ASSUME NEW x \in S PROVE ToSet(Append(s, x)) = ToSet(s) \cup {x}
  <2> DEFINE t == Append(s, x)
  <2>1. t \in Seq(S) /\ Len(t) = Len(s) + 1 /\ t[Len(s) + 1] = x /\ \A i \in 1..Len(s) : t[i] = s[i]
    OBVIOUS
  <2> HIDE DEF t
  <2>2. \A y : y \in ToSet(t) <=> \E i \in 1..Len(t) : t[i] = y
    BY <2>1 DEF ToSet
  <2>3. \A y \in ToSet(t) : y = x \/ y \in ToSet(s)
    BY <1>1, <2>1, <2>2
  <2>4. x \in ToSet(t) /\ \A y \in ToSet(s) : y \in ToSet(t)
    BY <1>1, <2>1, <2>2
  <2> QED
    BY <2>3, <2>4 DEF t
<1> QED
  BY <1>1, <1>2, <1>3

LEMMA LineKept ==
    ASSUME NEW S, NEW s \in Seq(S), NEW t \in Seq(S), t # <<>>
    PROVE  Append(s, Head(t)) \o Tail(t) = s \o t
<1>1. /\ Append(s, Head(t)) \in Seq(S) /\ Tail(t) \in Seq(S) /\ Head(t) = t[1] /\ Len(t) \in Nat \ {0}
      /\ Len(Append(s, Head(t))) = Len(s) + 1 /\ Len(Tail(t)) = Len(t) - 1
      /\ \A i \in 1..Len(s) : Append(s, Head(t))[i] = s[i]
      /\ Append(s, Head(t))[Len(s) + 1] = t[1]
      /\ \A i \in 1..Len(Tail(t)) : Tail(t)[i] = t[i + 1]
  OBVIOUS
<1> DEFINE a == Append(s, Head(t))
           b == Tail(t)
<1> HIDE DEF a, b
<1>2. /\ a \o b \in Seq(S) /\ Len(a \o b) = Len(s) + Len(t)
      /\ \A i \in 1..Len(s) + Len(t) : (a \o b)[i] = IF i <= Len(s) + 1 THEN a[i] ELSE b[i - (Len(s) + 1)]
  BY <1>1, ConcatProperties DEF a, b
<1>3. /\ s \o t \in Seq(S) /\ Len(s \o t) = Len(s) + Len(t)
      /\ \A i \in 1..Len(s) + Len(t) : (s \o t)[i] = IF i <= Len(s) THEN s[i] ELSE t[i - Len(s)]
  BY ConcatProperties
<1>4. ASSUME NEW i \in 1..Len(s) + Len(t) PROVE (a \o b)[i] = (s \o t)[i]
  <2>1. CASE i <= Len(s)
    BY <1>1, <1>2, <1>3, <2>1 DEF a
  <2>2. CASE i = Len(s) + 1
    BY <1>1, <1>2, <1>3, <2>2 DEF a
  <2>3. CASE i > Len(s) + 1
    <3>1. i - (Len(s) + 1) \in 1..Len(Tail(t)) /\ (i - (Len(s) + 1)) + 1 = i - Len(s)
      BY <1>1, <2>3
    <3> QED
      BY <1>1, <1>2, <1>3, <2>3, <3>1 DEF b
  <2>4. i <= Len(s) \/ i = Len(s) + 1 \/ i > Len(s) + 1
    BY <1>1
  <2> QED
    BY <2>1, <2>2, <2>3, <2>4
<1> QED
  BY <1>2, <1>3, <1>4 DEF a, b

LEMMA LineExtended ==
    ASSUME NEW S, NEW s \in Seq(S), NEW t \in Seq(S), NEW x \in S
    PROVE  s \o Append(t, x) = Append(s \o t, x)
<1> DEFINE a == s \o Append(t, x)
           b == Append(s \o t, x)
<1>1. /\ Append(t, x) \in Seq(S) /\ Len(Append(t, x)) = Len(t) + 1 /\ Append(t, x)[Len(t) + 1] = x
      /\ \A i \in 1..Len(t) : Append(t, x)[i] = t[i]
  OBVIOUS
<1>2. /\ s \o t \in Seq(S) /\ Len(s \o t) = Len(s) + Len(t)
      /\ \A i \in 1..Len(s) + Len(t) : (s \o t)[i] = IF i <= Len(s) THEN s[i] ELSE t[i - Len(s)]
  BY ConcatProperties
<1>3. /\ a \in Seq(S) /\ Len(a) = Len(s) + Len(t) + 1
      /\ \A i \in 1..Len(s) + Len(t) + 1 : a[i] = IF i <= Len(s) THEN s[i] ELSE Append(t, x)[i - Len(s)]
  BY <1>1, ConcatProperties, SMTT(30)
<1>4. /\ b \in Seq(S) /\ Len(b) = Len(s) + Len(t) + 1 /\ b[Len(s) + Len(t) + 1] = x
      /\ \A i \in 1..Len(s) + Len(t) : b[i] = (s \o t)[i]
  BY <1>2
<1> HIDE DEF a, b
<1>5. ASSUME NEW i \in 1..Len(s) + Len(t) + 1 PROVE a[i] = b[i]
  <2>1. CASE i <= Len(s)
    BY <1>2, <1>3, <1>4, <2>1, SMTT(30)
  <2>2. CASE i > Len(s) /\ i <= Len(s) + Len(t)
    <3>1. i - Len(s) \in 1..Len(t) /\ i \in 1..Len(s) + Len(t)
      BY <2>2
    <3> QED
      BY <1>1, <1>2, <1>3, <1>4, <2>2, <3>1
  <2>3. CASE i = Len(s) + Len(t) + 1
    <3>1. i - Len(s) = Len(t) + 1 /\ ~(i <= Len(s))
      BY <2>3
    <3> QED
      BY <1>1, <1>3, <1>4, <2>3, <3>1
  <2> QED
    BY <2>1, <2>2, <2>3
<1> QED
  BY <1>3, <1>4, <1>5 DEF a, b

LEMMA AccountedStart == Init => FramesAccounted
<1> SUFFICES ASSUME Init PROVE FramesAccounted
  OBVIOUS
<1>1. handled \o packet_queue \in Seq(Frames) /\ Len(handled \o packet_queue) = 0
  BY DEF Init
<1>2. ToSet(handled \o packet_queue) = {}
  BY <1>1 DEF ToSet
<1>3. Len(packet_queue) <= QueueSize /\ (1..captured) \ dropped = {} /\ dropped = {}
  BY SensorAssumption DEF Init
<1> QED
  BY <1>1, <1>2, <1>3 DEF FramesAccounted

(* A frame received is queued last or counted as dropped, and the analyzer  *)
(* takes the first of the queue.                                            *)
LEMMA AccountedStep == FramesOK /\ FramesAccounted /\ [Next]_vars => FramesAccounted'
<1> SUFFICES ASSUME FramesOK, FramesAccounted, [Next]_vars PROVE FramesAccounted'
  OBVIOUS
<1> USE DEF queueVars
<1>1. ASSUME UNCHANGED <<queueVars, handled>> PROVE FramesAccounted'
  BY <1>1 DEF FramesAccounted
<1>2. /\ handled \in Seq(Frames) /\ packet_queue \in Seq(Frames) /\ handled \o packet_queue \in Seq(Frames)
      /\ captured \in 0..MaxFrames /\ MaxFrames \in Nat /\ QueueSize \in Nat \ {0}
      /\ \A x \in Frames : x \in Nat
  BY SensorAssumption DEF FramesOK, Frames
<1>3. CASE AnalyzerGets
  <2>1. /\ packet_queue # <<>> /\ packet_queue' = Tail(packet_queue)
        /\ handled' = Append(handled, Head(packet_queue)) /\ UNCHANGED <<captured, dropped>>
    BY <1>3 DEF AnalyzerGets
  <2>2. handled' \o packet_queue' = handled \o packet_queue
    BY <1>2, <2>1, LineKept
  <2>3. Len(packet_queue') <= QueueSize
    BY <1>2, <2>1 DEF FramesAccounted
  <2> QED
    BY <2>1, <2>2, <2>3 DEF FramesAccounted
<1>4. CASE SnifferReceives
  <2> DEFINE frame == captured + 1
             line == handled \o packet_queue
  <2>1. /\ captured' = frame /\ handled' = handled /\ captured < MaxFrames
        /\ \/ Len(packet_queue) < QueueSize /\ packet_queue' = Append(packet_queue, frame) /\ dropped' = dropped
           \/ dropped' = dropped \cup {frame} /\ packet_queue' = packet_queue
    BY <1>4 DEF SnifferReceives
  <2>2. frame \in Frames /\ frame \notin 1..captured /\ 1..frame = (1..captured) \cup {frame}
    BY <1>2, <2>1 DEF Frames
  <2>3. /\ ToSet(line) = (1..captured) \ dropped /\ dropped \subseteq 1..captured
        /\ Len(packet_queue) <= QueueSize
        /\ \A i, j \in 1..Len(line) : i < j => line[i] < line[j]
    BY DEF FramesAccounted
  <2>4. CASE Len(packet_queue) < QueueSize /\ packet_queue' = Append(packet_queue, frame) /\ dropped' = dropped
    <3>1. handled' \o packet_queue' = Append(line, frame)
      BY <1>2, <2>1, <2>2, <2>4, LineExtended, SMTT(30)
    <3> HIDE DEF line, frame
    <3>2. ToSet(Append(line, frame)) = (1..captured') \ dropped'
      <4>1. ToSet(Append(line, frame)) = ToSet(line) \cup {frame}
        BY <1>2, <2>2, SetOf DEF line
      <4> QED
        BY <2>1, <2>2, <2>3, <2>4, <4>1
    <3>3. Len(packet_queue') <= QueueSize
      BY <1>2, <2>2, <2>4
    <3>4. ASSUME NEW i \in 1..Len(Append(line, frame)), NEW j \in 1..Len(Append(line, frame)), i < j
          PROVE  Append(line, frame)[i] < Append(line, frame)[j]
      <4>1. /\ line \in Seq(Frames) /\ Len(Append(line, frame)) = Len(line) + 1
            /\ Append(line, frame)[Len(line) + 1] = frame
            /\ \A k \in 1..Len(line) : Append(line, frame)[k] = line[k]
        BY <1>2, <2>2 DEF line
      <4>2. i \in 1..Len(line)
        BY <3>4, <4>1
      <4>3. CASE j \in 1..Len(line)
        BY <2>3, <3>4, <4>1, <4>2, <4>3
      <4>4. CASE j = Len(line) + 1
        <5>1. line[i] \in 1..captured
          BY <2>3, <4>1, <4>2, SetOf
        <5> QED
          BY <1>2, <4>1, <4>2, <4>4, <5>1 DEF frame
      <4> QED
        BY <4>1, <4>3, <4>4
    <3> QED
      BY <2>1, <2>2, <2>3, <2>4, <3>1, <3>2, <3>3, <3>4 DEF FramesAccounted
  <2>5. CASE dropped' = dropped \cup {frame} /\ packet_queue' = packet_queue
    BY <2>1, <2>2, <2>3, <2>5 DEF FramesAccounted
  <2> QED
    BY <2>1, <2>4, <2>5
<1>5. CASE SnifferOpens \/ SnifferRefused
  BY <1>1, <1>5 DEF SnifferOpens, SnifferRefused
<1>6. CASE Analyzer /\ ~AnalyzerGets
  BY <1>1, <1>6 DEF Analyzer, AnalyzerPolls, AnalyzerTimesOut, TimerAlert, TimerDone, WriteCapture, FrameIgnored,
     FrameClean, FrameAlert, FrameRecorded, DispatchCounts, DispatchReports, DispatchAudits
<1>7. ASSUME NEW t \in Stoppers, Shutdown(t) PROVE FramesAccounted'
  BY <1>1, <1>7 DEF Shutdown, Acquire, AlreadyComplete, NotComplete, ClaimShutdown, StopRunning, ClosePcap,
     OpenBrain, DumpBrain, GenerateNothing, GenerateRows, WriteReport, Release, WorkFails, Raise
<1>8. CASE SensorStarts \/ SensorWakes \/ MainSeesSensorEnd \/ MainFinally \/ MainJoins \/ MainReturns
           \/ ProcessExits \/ Interrupt
  BY <1>1, <1>8 DEF SensorStarts, SensorWakes, MainSeesSensorEnd, MainFinally, MainJoins, MainReturns,
     ProcessExits, Interrupt
<1>9. CASE UNCHANGED vars
  BY <1>1, <1>9 DEF vars
<1> QED
  BY <1>3, <1>4, <1>5, <1>6, <1>7, <1>8, <1>9 DEF Next, Sniffer, Sensor, Main, Terminated, Stoppers

LEMMA HandledIncreases ==
    FramesOK /\ FramesAccounted => \A i, j \in 1..Len(handled) : i < j => handled[i] < handled[j]
<1> SUFFICES ASSUME FramesOK, FramesAccounted, NEW i \in 1..Len(handled), NEW j \in 1..Len(handled), i < j
             PROVE  handled[i] < handled[j]
  OBVIOUS
<1>1. handled \in Seq(Frames) /\ packet_queue \in Seq(Frames)
  BY DEF FramesOK
<1>2. /\ Len(handled \o packet_queue) = Len(handled) + Len(packet_queue)
      /\ \A k \in 1..Len(handled) : (handled \o packet_queue)[k] = handled[k]
  BY <1>1, ConcatProperties
<1>3. i \in 1..Len(handled \o packet_queue) /\ j \in 1..Len(handled \o packet_queue)
  BY <1>1, <1>2
<1> QED
  BY <1>2, <1>3 DEF FramesAccounted

--------------------------------------------------------------------------------
(* The frame in hand has not come to the capture file yet.                  *)
Unseen ==
    /\ in_hand # NoFrame
    /\ \/ pc["analyzer"] \in {"timer", "write"}
       \/ pc["analyzer"] \in {"dispatch", "report", "audit"} /\ resume = "timer"

Settled == ToSet(pcap_frames) \cup unwritten

(* The frame in hand is the last one taken; while the file is open every    *)
(* other frame taken was written or is known to have failed.                *)
HandInv ==
    /\ pc["analyzer"] \in {"unborn", "poll", "get", "done"} => in_hand = NoFrame
    /\ pc["analyzer"] = "write" => in_hand # NoFrame
    /\ in_hand # NoFrame => handled # <<>> /\ in_hand = handled[Len(handled)]
    /\ Unseen => in_hand \notin Settled
    /\ Settled \subseteq ToSet(handled)
    /\ pcap_open => \A i \in 1..Len(handled) :
          handled[i] \in Settled \/ (Unseen /\ i = Len(handled))

(* The one late frame is taken by an analyzer that polled before the stop.  *)
LateInv ==
    ~is_running =>
        /\ Len(handled) <= stopped_at + 1
        /\ pc["analyzer"] = "get" => Len(handled) <= stopped_at

(* The analyzer is not running before the sensor thread starts it.          *)
BornInv == pc["sensor"] = "start" => pc["analyzer"] = "unborn"

(* A step that leaves the capture alone, and does not settle what becomes   *)
(* of the frame in hand.                                                    *)
LEMMA CaptureKept ==
    ASSUME HandInv, CaptureIsPrefix, UNCHANGED <<handled, pcap_frames, unwritten>>,
           in_hand' \in {in_hand, NoFrame}, pcap_open' => pcap_open, Unseen' <=> Unseen,
           pc'["analyzer"] \in {"unborn", "poll", "get", "done"} => in_hand' = NoFrame,
           pc'["analyzer"] = "write" => in_hand' # NoFrame
    PROVE  HandInv' /\ CaptureIsPrefix'
<1>1. CaptureIsPrefix'
  BY DEF CaptureIsPrefix
<1>2. Settled' = Settled
  BY DEF Settled
<1>3. in_hand' # NoFrame => in_hand' = in_hand
  OBVIOUS
<1>4. Unseen' => in_hand' # NoFrame
  BY DEF Unseen
<1> QED
  BY <1>1, <1>2, <1>3, <1>4 DEF HandInv

(* A frame is taken.                                                        *)
LEMMA CaptureGets ==
    ASSUME PcOK, FramesOK, FramesAccounted, FramesOK', FramesAccounted', HandInv, CaptureIsPrefix, AnalyzerGets
    PROVE  HandInv' /\ CaptureIsPrefix'
<1> DEFINE frame == Head(packet_queue)
           last == Len(handled) + 1
<1>1. /\ pc["analyzer"] = "get" /\ pc'["analyzer"] = "timer" /\ in_hand' = frame /\ handled' = Append(handled, frame)
      /\ UNCHANGED <<pcap_open, pcap_frames, unwritten>> /\ packet_queue # <<>>
  BY Whereabouts DEF AnalyzerGets, Goto, pcapVars, PcOK
<1>2. /\ packet_queue \in Seq(Frames) /\ handled \in Seq(Frames) /\ frame \in Frames
      /\ pcap_frames \in Seq(Frames) /\ Frames \subseteq Nat \ {0}
  BY <1>1, SensorAssumption DEF FramesOK, Frames
<1> HIDE DEF frame
<1>3. /\ Len(handled') = last /\ handled'[last] = frame /\ \A i \in 1..Len(handled) : handled'[i] = handled[i]
      /\ last \in Nat \ {0}
  BY <1>1, <1>2
<1>4. ToSet(handled') = ToSet(handled) \cup {frame}
  BY <1>1, <1>2, SetOf
<1>5. \A x \in ToSet(handled) : x < frame
  <2>1. \A i, j \in 1..Len(handled') : i < j => handled'[i] < handled'[j]
    <3>1. (FramesOK /\ FramesAccounted => \A i, j \in 1..Len(handled) : i < j => handled[i] < handled[j])'
      BY HandledIncreases, PTL
    <3> QED
      BY <3>1
  <2>2. ASSUME NEW x \in ToSet(handled) PROVE x < frame
    <3>1. PICK i \in 1..Len(handled) : handled[i] = x
      BY <1>2, SetOf
    <3>2. i \in 1..last /\ last \in 1..last /\ i < last
      BY <1>2, <1>3
    <3> QED
      BY <1>3, <2>1, <3>1, <3>2
  <2> QED
    BY <2>2
<1>6. in_hand = NoFrame /\ ~Unseen
  BY <1>1 DEF HandInv, Unseen
<1>7. Unseen' /\ Settled' = Settled /\ Settled \subseteq ToSet(handled)
  BY <1>1, <1>2 DEF Unseen, Settled, HandInv, NoFrame
<1>8. frame \notin Settled
  BY <1>2, <1>5, <1>7
<1>9. HandInv'
  <2>1. ASSUME pcap_open', NEW i \in 1..Len(handled')
        PROVE  handled'[i] \in Settled' \/ (Unseen' /\ i = Len(handled'))
    BY <1>1, <1>2, <1>3, <1>6, <1>7, <2>1 DEF HandInv
  <2>2. handled' # <<>> /\ in_hand' = handled'[Len(handled')] /\ in_hand' # NoFrame
    BY <1>1, <1>2, <1>3 DEF NoFrame
  <2> QED
    BY <1>1, <1>4, <1>7, <1>8, <2>1, <2>2 DEF HandInv
<1>10. CaptureIsPrefix'
  <2>1. \A i \in 1..Len(pcap_frames) : pcap_frames[i] < frame /\ pcap_frames[i] \in Nat
    BY <1>2, <1>5, <1>7, SetOf DEF Settled
  <2>2. frame \notin unwritten /\ unwritten' = unwritten /\ pcap_frames' = pcap_frames
    BY <1>1, <1>8 DEF Settled
  <2>3. ASSUME NEW x \in ToSet(handled') \ unwritten, NEW i \in 1..Len(pcap_frames), x <= pcap_frames[i]
        PROVE  x \in ToSet(pcap_frames)
    <3>1. x # frame
      BY <1>2, <2>1, <2>3
    <3> QED
      BY <1>4, <2>3, <3>1 DEF CaptureIsPrefix
  <2> QED
    BY <1>4, <2>2, <2>3 DEF CaptureIsPrefix
<1> QED
  BY <1>9, <1>10

(* The frame in hand is written, or cannot be, or the file is closed.       *)
LEMMA CaptureWrites ==
    ASSUME PcOK, FramesOK, FramesAccounted, HandInv, CaptureIsPrefix, WriteCapture
    PROVE  HandInv' /\ CaptureIsPrefix'
<1>1. /\ pc["analyzer"] = "write" /\ pc'["analyzer"] = "inspect" /\ UNCHANGED <<handled, in_hand, pcap_open>>
  BY Whereabouts DEF WriteCapture, Goto, PcOK
<1>2. /\ handled \in Seq(Frames) /\ pcap_frames \in Seq(Frames) /\ in_hand \in Frames /\ Frames \subseteq Nat
      /\ in_hand # NoFrame /\ Len(handled) \in Nat \ {0} /\ in_hand = handled[Len(handled)]
  BY <1>1, SensorAssumption DEF FramesOK, HandInv, Frames
<1>3. Unseen /\ ~Unseen' /\ in_hand \notin Settled /\ in_hand \in ToSet(handled)
  <2>1. Unseen /\ ~Unseen'
    BY <1>1, <1>2 DEF Unseen
  <2>2. in_hand \in ToSet(handled)
    BY <1>2, SetOf
  <2> QED
    BY <2>1, <2>2 DEF HandInv
<1>4. \A x \in ToSet(handled) : x < in_hand \/ x = in_hand
  <2>1. ASSUME NEW x \in ToSet(handled) PROVE x < in_hand \/ x = in_hand
    <3>1. PICK i \in 1..Len(handled) : handled[i] = x
      BY <1>2, SetOf
    <3>2. i = Len(handled) \/ (i < Len(handled) /\ Len(handled) \in 1..Len(handled))
      BY <1>2
    <3> QED
      BY <1>2, <3>1, <3>2, HandledIncreases
  <2> QED
    BY <2>1
<1>5. ASSUME Settled' \subseteq Settled \cup {in_hand}, pcap_open => Settled' = Settled \cup {in_hand}
      PROVE  HandInv'
  <2>1. ASSUME pcap_open', NEW i \in 1..Len(handled) PROVE handled[i] \in Settled'
    BY <1>1, <1>2, <1>5, <2>1 DEF HandInv
  <2>2. Settled' \subseteq ToSet(handled)
    BY <1>3, <1>5 DEF HandInv
  <2> QED
    BY <1>1, <1>2, <1>3, <2>1, <2>2 DEF HandInv
<1>6. CASE pcap_open /\ pcap_frames' = Append(pcap_frames, in_hand) /\ UNCHANGED unwritten
  <2> DEFINE new == Append(pcap_frames, in_hand)
  <2>1. /\ ToSet(new) = ToSet(pcap_frames) \cup {in_hand} /\ Len(new) = Len(pcap_frames) + 1
        /\ new[Len(pcap_frames) + 1] = in_hand /\ Len(pcap_frames) \in Nat
        /\ \A i \in 1..Len(pcap_frames) : new[i] = pcap_frames[i]
    BY <1>2, SetOf
  <2> HIDE DEF new
  <2>2. Settled' = Settled \cup {in_hand}
    BY <1>6, <2>1 DEF Settled, new
  <2>3. ToSet(new) \subseteq ToSet(handled) \ unwritten
    BY <1>3, <2>1 DEF CaptureIsPrefix, Settled
  <2>4. ASSUME NEW i \in 1..Len(new), NEW j \in 1..Len(new), i < j PROVE new[i] < new[j]
    <3>1. i \in 1..Len(pcap_frames)
      BY <2>1, <2>4
    <3>2. CASE j \in 1..Len(pcap_frames)
      BY <2>1, <2>4, <3>1, <3>2 DEF CaptureIsPrefix
    <3>3. CASE j = Len(pcap_frames) + 1
      <4>1. pcap_frames[i] \in ToSet(pcap_frames)
        BY <1>2, <3>1, SetOf
      <4>2. pcap_frames[i] \in ToSet(handled) /\ pcap_frames[i] # in_hand
        BY <1>3, <4>1 DEF CaptureIsPrefix, Settled
      <4> QED
        BY <1>4, <2>1, <3>1, <3>3, <4>2
    <3> QED
      BY <2>1, <3>2, <3>3
  <2>5. ToSet(handled) \ unwritten \subseteq ToSet(new)
    <3>1. \A i \in 1..Len(handled) : handled[i] \in Settled \/ handled[i] = in_hand
      BY <1>2, <1>6 DEF HandInv
    <3>2. \A x \in ToSet(handled) : x \in Settled \/ x = in_hand
      BY <1>2, <3>1, SetOf
    <3> QED
      BY <2>1, <3>2 DEF Settled
  <2>6. CaptureIsPrefix'
    BY <1>1, <1>6, <2>3, <2>4, <2>5 DEF CaptureIsPrefix, new
  <2> QED
    BY <1>5, <2>2, <2>6
<1>7. CASE unwritten' = unwritten \cup {in_hand} /\ UNCHANGED pcap_frames
  <2>1. Settled' = Settled \cup {in_hand}
    BY <1>7 DEF Settled
  <2>2. CaptureIsPrefix'
    BY <1>1, <1>3, <1>7 DEF CaptureIsPrefix, Settled
  <2> QED
    BY <1>5, <2>1, <2>2
<1>8. CASE ~pcap_open /\ UNCHANGED <<pcap_frames, unwritten>>
  <2>1. Settled' = Settled /\ CaptureIsPrefix'
    BY <1>1, <1>8 DEF Settled, CaptureIsPrefix
  <2> QED
    BY <1>5, <1>8, <2>1
<1> QED
  BY <1>6, <1>7, <1>8 DEF WriteCapture

LEMMA CaptureStep ==
    ASSUME PcOK, ControlOK, FramesOK, FramesAccounted, FramesOK', FramesAccounted', HandInv, CaptureIsPrefix,
           BornInv, [Next]_vars
    PROVE  HandInv' /\ CaptureIsPrefix'
<1> USE DEF pcapVars, queueVars
<1>1. ASSUME UNCHANGED <<handled, in_hand, pcap_frames, unwritten, resume>>, pcap_open' => pcap_open,
             pc'["analyzer"] = pc["analyzer"]
      PROVE  HandInv' /\ CaptureIsPrefix'
  <2>1. Unseen' <=> Unseen
    BY <1>1 DEF Unseen
  <2> QED
    BY <1>1, <2>1, CaptureKept DEF HandInv
<1>2. ASSUME NEW t \in Threads \ {"analyzer"}, NEW from, NEW to, Goto(t, from, to),
             UNCHANGED <<handled, in_hand, pcap_frames, unwritten, resume>>, pcap_open' => pcap_open
      PROVE  HandInv' /\ CaptureIsPrefix'
  <2>1. pc'["analyzer"] = pc["analyzer"]
    BY <1>2 DEF Goto, PcOK
  <2> QED
    BY <1>1, <1>2, <2>1
<1>3. ASSUME NEW from, NEW to, Goto("analyzer", from, to) PROVE pc["analyzer"] = from /\ pc'["analyzer"] = to
  BY <1>3, Whereabouts DEF Goto, PcOK
<1>4. CASE Sniffer
  BY <1>2, <1>4 DEF Sniffer, SnifferOpens, SnifferRefused, SnifferReceives, Threads
<1>5. CASE AnalyzerPolls \/ AnalyzerTimesOut \/ TimerDone \/ FrameClean
  <2>1. UNCHANGED <<handled, in_hand, pcapVars, resume>>
    BY <1>5 DEF AnalyzerPolls, AnalyzerTimesOut, TimerDone, FrameClean
  <2>2. \/ pc["analyzer"] = "poll" /\ pc'["analyzer"] \in {"get", "done"}
        \/ pc["analyzer"] = "get" /\ pc'["analyzer"] = "timer"
        \/ pc["analyzer"] = "timer" /\ in_hand = NoFrame /\ pc'["analyzer"] = "poll"
        \/ pc["analyzer"] = "timer" /\ in_hand # NoFrame /\ pc'["analyzer"] = "write"
        \/ pc["analyzer"] = "inspect" /\ pc'["analyzer"] = "record"
    BY <1>3, <1>5 DEF AnalyzerPolls, AnalyzerTimesOut, TimerDone, FrameClean
  <2>3. Unseen' <=> Unseen
    BY <2>1, <2>2 DEF Unseen, HandInv
  <2>4. /\ pc'["analyzer"] \in {"unborn", "poll", "get", "done"} => in_hand = NoFrame
        /\ pc'["analyzer"] = "write" => in_hand # NoFrame
    BY <2>2 DEF HandInv
  <2> QED
    BY <2>1, <2>3, <2>4, CaptureKept
<1>6. CASE AnalyzerGets
  BY <1>6, CaptureGets
<1>7. CASE TimerAlert \/ FrameAlert
  <2>1. UNCHANGED <<handled, in_hand, pcapVars>> /\ pc'["analyzer"] = "dispatch"
    BY <1>3, <1>7 DEF TimerAlert, FrameAlert
  <2>2. \/ pc["analyzer"] = "timer" /\ resume' = "timer"
        \/ pc["analyzer"] = "inspect" /\ resume' = "record"
    BY <1>3, <1>7 DEF TimerAlert, FrameAlert
  <2>3. Unseen' <=> Unseen
    BY <2>1, <2>2 DEF Unseen
  <2> QED
    BY <2>1, <2>3, CaptureKept
<1>8. CASE WriteCapture
  BY <1>8, CaptureWrites
<1>9. CASE FrameIgnored \/ FrameRecorded
  <2>1. UNCHANGED <<handled, pcapVars>> /\ in_hand' = NoFrame /\ pc'["analyzer"] = "poll"
    BY <1>3, <1>9 DEF FrameIgnored, FrameRecorded
  <2>2. pc["analyzer"] \in {"inspect", "record"}
    BY <1>3, <1>9 DEF FrameIgnored, FrameRecorded
  <2>3. ~Unseen' /\ ~Unseen
    BY <2>1, <2>2 DEF Unseen
  <2> QED
    BY <2>1, <2>3, CaptureKept
<1>10. CASE DispatchCounts \/ DispatchReports \/ DispatchAudits
  <2>1. UNCHANGED <<handled, in_hand, pcapVars, resume>>
    BY <1>10 DEF DispatchCounts, DispatchReports, DispatchAudits
  <2>2. \/ pc["analyzer"] \in {"dispatch", "report"} /\ pc'["analyzer"] \in {"report", "audit"}
        \/ pc["analyzer"] = "audit" /\ pc'["analyzer"] = resume
    BY <1>3, <1>10 DEF DispatchCounts, DispatchReports, DispatchAudits
  <2>3. resume \in {"timer", "record"}
    BY DEF ControlOK
  <2>4. Unseen' <=> Unseen
    BY <2>1, <2>2, <2>3 DEF Unseen
  <2> QED
    BY <2>1, <2>2, <2>3, <2>4, CaptureKept
<1>11. ASSUME NEW t \in Stoppers, Shutdown(t) PROVE HandInv' /\ CaptureIsPrefix'
  <2>1. \E from, to : Goto(t, from, to)
    BY <1>11 DEF Shutdown, Acquire, AlreadyComplete, NotComplete, ClaimShutdown, StopRunning, ClosePcap,
       OpenBrain, DumpBrain, GenerateNothing, GenerateRows, WriteReport, Release, WorkFails, Raise
  <2>2. UNCHANGED <<handled, in_hand, pcap_frames, unwritten, resume>> /\ (pcap_open' => pcap_open)
    BY <1>11 DEF Shutdown, Acquire, AlreadyComplete, NotComplete, ClaimShutdown, StopRunning, ClosePcap,
       OpenBrain, DumpBrain, GenerateNothing, GenerateRows, WriteReport, Release, WorkFails, Raise
  <2> QED
    BY <1>2, <2>1, <2>2 DEF Stoppers, Threads
<1>12. CASE SensorStarts
  <2>1. /\ UNCHANGED <<handled, in_hand, pcapVars, resume>> /\ pc'["analyzer"] = "poll"
        /\ pc["analyzer"] = "unborn"
    BY <1>12 DEF SensorStarts, PcOK, Threads, BornInv
  <2>2. in_hand = NoFrame
    BY <2>1 DEF HandInv
  <2> QED
    BY <2>1, <2>2, CaptureKept DEF Unseen
<1>13. CASE SensorWakes \/ MainSeesSensorEnd \/ MainFinally \/ MainJoins \/ MainReturns \/ ProcessExits \/ Interrupt
  <2>1. \E t \in {"sensor", "main"} : \E from, to : Goto(t, from, to)
    BY <1>13 DEF SensorWakes, MainSeesSensorEnd, MainFinally, MainJoins, MainReturns, ProcessExits, Interrupt
  <2>2. UNCHANGED <<handled, in_hand, pcapVars, resume>>
    BY <1>13 DEF SensorWakes, MainSeesSensorEnd, MainFinally, MainJoins, MainReturns, ProcessExits, Interrupt
  <2> QED
    BY <1>2, <2>1, <2>2 DEF Threads
<1>14. CASE UNCHANGED vars
  BY <1>1, <1>14 DEF vars
<1> QED
  BY <1>4, <1>5, <1>6, <1>7, <1>8, <1>9, <1>10, <1>11, <1>12, <1>13, <1>14
  DEF Next, Analyzer, Sensor, Main, Terminated, Stoppers

LEMMA BornStep == PcOK /\ BornInv /\ [Next]_vars => BornInv'
<1> SUFFICES ASSUME PcOK, BornInv, [Next]_vars PROVE BornInv'
  OBVIOUS
<1>1. ASSUME NEW t \in Threads, NEW from, NEW to, Goto(t, from, to),
             t = "sensor" => to # "start", t = "analyzer" => from # "unborn"
      PROVE  BornInv'
  BY <1>1 DEF Goto, PcOK, BornInv, Threads
<1>2. CASE Sniffer
  BY <1>1, <1>2 DEF Sniffer, SnifferOpens, SnifferRefused, SnifferReceives, Threads
<1>3. CASE Analyzer
  BY <1>1, <1>3, Whereabouts DEF Analyzer, AnalyzerPolls, AnalyzerGets, AnalyzerTimesOut, TimerAlert, TimerDone,
     WriteCapture, FrameIgnored, FrameClean, FrameAlert, FrameRecorded, DispatchCounts, DispatchReports,
     DispatchAudits
<1>4. ASSUME NEW t \in Stoppers, Shutdown(t) PROVE BornInv'
  <2>1. AfterShutdown(t) # "start" /\ AfterException(t) # "start"
    BY DEF AfterShutdown, AfterException
  <2>2. \E from, to : Goto(t, from, to) /\ to # "start"
    BY <1>4, <2>1 DEF Shutdown, Acquire, AlreadyComplete, NotComplete, ClaimShutdown, StopRunning, ClosePcap,
       OpenBrain, DumpBrain, GenerateNothing, GenerateRows, WriteReport, Release, WorkFails, Raise
  <2> QED
    BY <1>1, <2>2 DEF Stoppers, Threads
<1>5. CASE SensorStarts
  BY <1>5 DEF SensorStarts, PcOK, BornInv, Threads
<1>6. CASE SensorWakes
  BY <1>1, <1>6 DEF SensorWakes, Threads
<1>7. CASE MainSeesSensorEnd \/ MainFinally \/ MainJoins \/ MainReturns \/ ProcessExits \/ Interrupt
  BY <1>1, <1>7 DEF MainSeesSensorEnd, MainFinally, MainJoins, MainReturns, ProcessExits, Interrupt, Threads
<1>8. CASE UNCHANGED vars
  BY <1>8 DEF vars, BornInv
<1> QED
  BY <1>2, <1>3, <1>4, <1>5, <1>6, <1>7, <1>8 DEF Next, Sensor, Main, Terminated, Stoppers

LEMMA LateStep == PcOK /\ ControlOK /\ FramesOK /\ LateInv /\ [Next]_vars => LateInv'
<1> SUFFICES ASSUME PcOK, ControlOK, FramesOK, LateInv, [Next]_vars PROVE LateInv'
  OBVIOUS
<1> USE DEF flagVars
<1>1. /\ stopped_at \in Nat /\ Len(handled) \in Nat /\ handled \in Seq(Frames)
  <2>1. handled \in Seq(Frames)
    BY DEF FramesOK
  <2>2. stopped_at \in Nat
    BY DEF ControlOK
  <2> QED
    BY <2>1, <2>2
<1>2. ASSUME UNCHANGED <<is_running, stopped_at, handled>>,
             ~is_running /\ pc'["analyzer"] = "get" => pc["analyzer"] = "get"
      PROVE  LateInv'
  BY <1>2 DEF LateInv
<1>3. ASSUME ClearRunning, UNCHANGED handled, pc'["analyzer"] = pc["analyzer"] PROVE LateInv'
  BY <1>1, <1>3 DEF ClearRunning, LateInv
<1>4. ASSUME NEW t \in Threads \ {"analyzer"}, NEW from, NEW to, Goto(t, from, to)
      PROVE  pc'["analyzer"] = pc["analyzer"]
  BY <1>4 DEF Goto, PcOK
<1>5. ASSUME NEW from, NEW to, Goto("analyzer", from, to) PROVE pc["analyzer"] = from /\ pc'["analyzer"] = to
  BY <1>5, Whereabouts DEF Goto, PcOK
<1>6. CASE SnifferRefused
  BY <1>3, <1>4, <1>6 DEF SnifferRefused, Threads
<1>7. CASE SnifferOpens \/ SnifferReceives
  BY <1>2, <1>4, <1>7 DEF SnifferOpens, SnifferReceives, Threads
<1>8. CASE AnalyzerPolls
  BY <1>2, <1>5, <1>8 DEF AnalyzerPolls
<1>9. CASE AnalyzerGets
  <2>1. /\ pc["analyzer"] = "get" /\ pc'["analyzer"] = "timer" /\ UNCHANGED <<is_running, stopped_at>>
        /\ handled' = Append(handled, Head(packet_queue))
    BY <1>5, <1>9 DEF AnalyzerGets
  <2>2. Len(handled') = Len(handled) + 1
    BY <1>1, <2>1
  <2> QED
    BY <1>1, <2>1, <2>2 DEF LateInv
<1>10. CASE Analyzer /\ ~AnalyzerPolls /\ ~AnalyzerGets
  <2>1. UNCHANGED <<is_running, stopped_at, handled>>
    BY <1>10 DEF Analyzer, AnalyzerTimesOut, TimerAlert, TimerDone, WriteCapture, FrameIgnored,
       FrameClean, FrameAlert, FrameRecorded, DispatchCounts, DispatchReports, DispatchAudits
  <2>2. resume # "get"
    BY DEF ControlOK
  <2>3. \E from, to : Goto("analyzer", from, to) /\ to # "get"
    BY <1>10, <2>2 DEF Analyzer, AnalyzerTimesOut, TimerAlert, TimerDone, WriteCapture, FrameIgnored,
       FrameClean, FrameAlert, FrameRecorded, DispatchCounts, DispatchReports, DispatchAudits
  <2> QED
    BY <1>2, <1>5, <2>1, <2>3
<1>11. ASSUME NEW t \in Stoppers, Shutdown(t) PROVE LateInv'
  <2>1. \E from, to : Goto(t, from, to)
    BY <1>11 DEF Shutdown, Acquire, AlreadyComplete, NotComplete, ClaimShutdown, StopRunning, ClosePcap,
       OpenBrain, DumpBrain, GenerateNothing, GenerateRows, WriteReport, Release, WorkFails, Raise
  <2>2. pc'["analyzer"] = pc["analyzer"]
    BY <1>4, <2>1 DEF Stoppers, Threads
  <2>3. UNCHANGED handled /\ (ClearRunning \/ UNCHANGED <<is_running, stopped_at>>)
    BY <1>11 DEF Shutdown, Acquire, AlreadyComplete, NotComplete, ClaimShutdown, StopRunning, ClosePcap,
       OpenBrain, DumpBrain, GenerateNothing, GenerateRows, WriteReport, Release, WorkFails, Raise
  <2> QED
    BY <1>2, <1>3, <2>2, <2>3
<1>12. CASE SensorStarts
  BY <1>2, <1>12 DEF SensorStarts, PcOK, Threads
<1>13. CASE SensorWakes \/ MainSeesSensorEnd \/ MainFinally \/ MainJoins \/ MainReturns \/ ProcessExits \/ Interrupt
  <2>1. \E t \in {"sensor", "main"} : \E from, to : Goto(t, from, to)
    BY <1>13 DEF SensorWakes, MainSeesSensorEnd, MainFinally, MainJoins, MainReturns, ProcessExits, Interrupt
  <2>2. UNCHANGED <<is_running, stopped_at, handled>>
    BY <1>13 DEF SensorWakes, MainSeesSensorEnd, MainFinally, MainJoins, MainReturns, ProcessExits, Interrupt
  <2> QED
    BY <1>2, <1>4, <2>1, <2>2 DEF Threads
<1>14. CASE UNCHANGED vars
  BY <1>2, <1>14 DEF vars
<1> QED
  BY <1>6, <1>7, <1>8, <1>9, <1>10, <1>11, <1>12, <1>13, <1>14 DEF Next, Sniffer, Sensor, Main, Terminated, Stoppers

--------------------------------------------------------------------------------
FrameInv ==
    /\ PcOK /\ ControlOK /\ FramesOK /\ WorkOK /\ CountInv
    /\ FramesAccounted /\ HandInv /\ CaptureIsPrefix /\ LateInv /\ BornInv

LEMMA FrameStart == Init => FrameInv
<1> SUFFICES ASSUME Init PROVE FrameInv
  OBVIOUS
<1>1. CountInv /\ FramesAccounted
  BY CountStart, AccountedStart
<1>2. PcOK
  BY DEF Init, PcOK, Threads, Locations, ShutdownSteps
<1>3. ControlOK
  <2>1. is_running \in BOOLEAN /\ shutdown_complete \in BOOLEAN /\ pending \in BOOLEAN /\ timed_out \in BOOLEAN
    BY DEF Init
  <2>2. stopped_at \in Nat /\ interrupts \in 0..MaxInterrupts
    BY SensorAssumption DEF Init
  <2> QED
    BY <2>1, <2>2 DEF Init, ControlOK
<1>4. FramesOK
  <2>1. pcap_open \in BOOLEAN
    BY SensorAssumption DEF Init
  <2> QED
    BY <2>1, SensorAssumption DEF Init, FramesOK
<1>5. WorkOK
  BY SensorAssumption DEF Init, WorkOK, NoReport
<1>6. handled = <<>> /\ pcap_frames = <<>> /\ ToSet(pcap_frames) = {} /\ unwritten = {} /\ in_hand = NoFrame
  BY DEF Init, ToSet
<1>7. pc["analyzer"] = "unborn" /\ is_running
  BY DEF Init
<1>8. HandInv /\ CaptureIsPrefix /\ LateInv /\ BornInv
  BY <1>6, <1>7 DEF HandInv, CaptureIsPrefix, LateInv, BornInv, Unseen, Settled
<1> QED
  BY <1>1, <1>2, <1>3, <1>4, <1>5, <1>8 DEF FrameInv

LEMMA FrameStep == FrameInv /\ [Next]_vars => FrameInv'
<1> SUFFICES ASSUME FrameInv, [Next]_vars PROVE FrameInv'
  OBVIOUS
<1>1. /\ PcOK /\ ControlOK /\ FramesOK /\ WorkOK /\ CountInv
      /\ FramesAccounted /\ HandInv /\ CaptureIsPrefix /\ LateInv /\ BornInv
  BY DEF FrameInv
<1>2. handled \in Seq(Frames) /\ resume \in {"timer", "record"} /\ (pc["analyzer"] = "write" => in_hand # NoFrame)
  BY <1>1 DEF FramesOK, ControlOK, HandInv
<1>3. PcOK' /\ ControlOK' /\ WorkOK' /\ CountInv'
  BY <1>1, <1>2, PcStep, ControlStep, WorkStep, CountStep
<1>4. FramesOK' /\ FramesAccounted'
  BY <1>1, <1>2, FramesStep, AccountedStep
<1>5. HandInv' /\ CaptureIsPrefix'
  BY <1>1, <1>4, CaptureStep
<1>6. LateInv' /\ BornInv'
  BY <1>1, LateStep, BornStep
<1> QED
  BY <1>3, <1>4, <1>5, <1>6 DEF FrameInv

(* From the wire to the capture file every frame is accounted for, in       *)
(* order, whichever thread stops the sensor at whatever moment, and one     *)
(* frame at most is taken after the stop (sensor.py:129-172, 322-355).      *)
THEOREM NoFrameLostUnseen == Spec => []FramesConsistent
<1>1. FrameInv => FramesConsistent
  BY TypeParts DEF FrameInv, FramesConsistent, LateInv, AtMostOneLateFrame
<1>2. QED
  BY <1>1, FrameStart, FrameStep, PTL DEF Spec
================================================================================
