------------------------------- MODULE SensorNode -------------------------------
(***************************************************************************)
(* sensor_node/sensor.py with the main loop of main.py that owns it: four  *)
(* threads, the bounded queue between two of them, and the shutdown.       *)
(*                                                                         *)
(*   main      waits for the sensor thread; Ctrl+C reaches this thread     *)
(*   sensor    SensorNode.start: sleeps while running, then shuts down     *)
(*   sniffer   daemon: raw socket -> packet_queue, dropping on overflow    *)
(*   analyzer  daemon: packet_queue -> timer checks -> engines -> dispatch *)
(*                                                                         *)
(* Nobody joins the two daemon threads: they see is_running at the top of  *)
(* their loops, and whatever they do until then overlaps the shutdown.     *)
(* Whether a frame or a second draws an alert is left open here; dispatch  *)
(* is reduced to its counters and sinks (see AlertDispatcher).             *)
(***************************************************************************)
EXTENDS Integers, Sequences, FiniteSets, SequencesExt

CONSTANTS
    QueueSize,      (* config.queue_size                                    *)
    PcapFile,       (* config.pcap_file is set                              *)
    MayFail,        (* may writing a file raise (disk, permissions)         *)
    MaxFrames,      (* bound on the frames on the wire                      *)
    MaxAlerts,      (* bound on the alerts raised                           *)
    MaxInterrupts   (* bound on the times the operator presses Ctrl+C       *)

ASSUME SensorAssumption ==
    /\ QueueSize \in Nat \ {0}
    /\ PcapFile \in BOOLEAN
    /\ MayFail \in BOOLEAN
    /\ MaxFrames \in Nat
    /\ MaxAlerts \in Nat
    /\ MaxInterrupts \in Nat

Frames == 1..MaxFrames
NoFrame == 0
NoReport == [rows |-> 0, count |-> 0]

Threads == {"main", "sensor", "sniffer", "analyzer"}
Stoppers == {"main", "sensor"}      (* the threads that call shutdown *)
Free == "nobody"

VARIABLES
    is_running, shutdown_complete, shutdown_lock,
    packet_queue,   (* frames between sniffer and analyzer                  *)
    captured,       (* frames the sniffer received; frame n is the n-th     *)
    dropped,        (* those the full queue cost (the code keeps their sum) *)
    handled,        (* those the analyzer took, in its order                *)
    in_hand,        (* the frame it is working on                           *)
    pcap_open, pcap_frames,
    unwritten,      (* history: frames whose write to the open file raised  *)
    total,          (* dispatcher.total                                     *)
    alerts,         (* len(reporter.alerts)                                 *)
    report_rows,    (* generate's rows so far, before the file is written   *)
    report,         (* the HTML report: its rows and its "Total Alerts"     *)
    brain,          (* the file this run exports: none, partial or saved    *)
    exports,        (* history: how often an export of the brain was begun  *)
    stopped_at,     (* history: Len(handled) when is_running went false     *)
    resume,         (* where the analyzer goes on after a dispatch          *)
    main_in,        (* the part of main's try statement it is in            *)
    pending,        (* an exception is leaving main                         *)
    timed_out,      (* main's join gave up                                  *)
    outcome,        (* how main ended                                       *)
    interrupts,
    pc

queueVars == <<packet_queue, captured, dropped>>
pcapVars == <<pcap_open, pcap_frames, unwritten>>
alertVars == <<total, alerts>>
workVars == <<report_rows, report, brain, exports>>
mainVars == <<main_in, pending, timed_out, outcome, interrupts>>
flagVars == <<is_running, shutdown_complete, stopped_at>>
vars == <<flagVars, shutdown_lock, queueVars, handled, in_hand, pcapVars, alertVars,
          workVars, resume, mainVars, pc>>

ShutdownSteps == {"acquire", "check", "claim", "stop", "close_pcap", "open_brain", "dump_brain",
                  "generate", "write_report", "release"}
Locations ==
    [main     |-> ShutdownSteps \cup {"wait", "finally", "join", "return", "finalize", "exited"},
     sensor   |-> ShutdownSteps \cup {"start", "sleep", "done"},
     sniffer  |-> {"unborn", "open", "recv", "done"},
     analyzer |-> {"unborn", "poll", "get", "timer", "write", "inspect", "dispatch",
                   "report", "audit", "record", "done"}]

TypeOK ==
    /\ is_running \in BOOLEAN /\ shutdown_complete \in BOOLEAN
    /\ shutdown_lock \in Stoppers \cup {Free}
    /\ packet_queue \in Seq(Frames)
    /\ captured \in 0..MaxFrames
    /\ dropped \subseteq Frames
    /\ handled \in Seq(Frames)
    /\ in_hand \in Frames \cup {NoFrame}
    /\ pcap_open \in BOOLEAN /\ pcap_frames \in Seq(Frames)
    /\ unwritten \subseteq Frames
    /\ total \in 0..MaxAlerts
    /\ alerts \in 0..MaxAlerts
    /\ report_rows \in 0..MaxAlerts
    /\ report \in [rows : 0..MaxAlerts, count : 0..MaxAlerts]
    /\ brain \in {"none", "partial", "saved"}
    /\ exports \in Nat /\ stopped_at \in Nat
    /\ resume \in {"timer", "record"}
    /\ main_in \in {"try", "except", "finally"}
    /\ pending \in BOOLEAN /\ timed_out \in BOOLEAN
    /\ outcome \in {"running", "exception", "unbound exit_code", "exit_code 1"}
    /\ interrupts \in 0..MaxInterrupts
    /\ pc \in [Threads -> UNION {Locations[t] : t \in Threads}]
    /\ \A t \in Threads : pc[t] \in Locations[t]

Init ==
    /\ is_running = TRUE /\ shutdown_complete = FALSE /\ shutdown_lock = Free
    /\ packet_queue = <<>> /\ captured = 0 /\ dropped = {}
    /\ handled = <<>> /\ in_hand = NoFrame
    /\ pcap_open = PcapFile /\ pcap_frames = <<>> /\ unwritten = {}
    /\ total = 0 /\ alerts = 0
    /\ report_rows = 0 /\ report = NoReport /\ brain = "none"
    /\ exports = 0 /\ stopped_at = 0
    /\ resume = "timer"
    /\ main_in = "try" /\ pending = FALSE /\ timed_out = FALSE /\ outcome = "running"
    /\ interrupts = 0
    /\ pc = [main |-> "wait", sensor |-> "start", sniffer |-> "unborn", analyzer |-> "unborn"]

--------------------------------------------------------------------------------
Alive == pc["main"] # "exited"

Goto(t, from, to) ==
    /\ Alive
    /\ pc[t] = from
    /\ pc' = [pc EXCEPT ![t] = to]

(* is_running = False, whoever clears it; the history variable remembers    *)
(* how far the analyzer was when it was cleared first.                      *)
ClearRunning ==
    /\ is_running' = FALSE
    /\ stopped_at' = IF is_running THEN Len(handled) ELSE stopped_at

(***************************** the sniffer thread **************************)

SnifferOpens ==
    /\ Goto("sniffer", "open", "recv")
    /\ UNCHANGED <<flagVars, shutdown_lock, queueVars, handled, in_hand, pcapVars,
                   alertVars, workVars, resume, mainVars>>

(* PermissionError or AttributeError: the whole sensor is told to stop. *)
SnifferRefused ==
    /\ Goto("sniffer", "open", "done")
    /\ ClearRunning
    /\ UNCHANGED <<shutdown_complete, shutdown_lock, queueVars, handled, in_hand,
                   pcapVars, alertVars, workVars, resume, mainVars>>

(* Mutant: the queue makes room by forgetting its oldest frame. *)
SnifferReceives_Overwrites ==
    /\ captured < MaxFrames
    /\ Goto("sniffer", "recv", IF is_running THEN "recv" ELSE "done")
    /\ captured' = captured + 1
    /\ packet_queue' = Append(IF Len(packet_queue) < QueueSize THEN packet_queue
                              ELSE Tail(packet_queue), captured + 1)
    /\ UNCHANGED <<flagVars, shutdown_lock, dropped, handled, in_hand, pcapVars, alertVars,
                   workVars, resume, mainVars>>

(* The loop condition is read before the receive, so a thread blocked in    *)
(* recvfrom takes one frame more after is_running went false.               *)
SnifferReceives ==
    /\ captured < MaxFrames
    /\ Goto("sniffer", "recv", IF is_running THEN "recv" ELSE "done")
    /\ captured' = captured + 1
    /\ IF Len(packet_queue) < QueueSize
       THEN packet_queue' = Append(packet_queue, captured + 1) /\ UNCHANGED dropped
       ELSE dropped' = dropped \cup {captured + 1} /\ UNCHANGED packet_queue
    /\ UNCHANGED <<flagVars, shutdown_lock, handled, in_hand, pcapVars, alertVars,
                   workVars, resume, mainVars>>

Sniffer == SnifferOpens \/ SnifferRefused \/ SnifferReceives

(***************************** the analyzer thread *************************)

(* Mutant: the loop does not look at is_running. *)
AnalyzerPolls_Forever ==
    /\ Goto("analyzer", "poll", "get")
    /\ UNCHANGED <<flagVars, shutdown_lock, queueVars, handled, in_hand, pcapVars,
                   alertVars, workVars, resume, mainVars>>

AnalyzerPolls ==
    /\ Goto("analyzer", "poll", IF is_running THEN "get" ELSE "done")
    /\ UNCHANGED <<flagVars, shutdown_lock, queueVars, handled, in_hand, pcapVars,
                   alertVars, workVars, resume, mainVars>>

AnalyzerGets ==
    /\ Goto("analyzer", "get", "timer")
    /\ packet_queue # <<>>
    /\ in_hand' = Head(packet_queue)
    /\ packet_queue' = Tail(packet_queue)
    /\ handled' = Append(handled, Head(packet_queue))
    /\ UNCHANGED <<flagVars, shutdown_lock, captured, dropped, pcapVars, alertVars,
                   workVars, resume, mainVars>>

AnalyzerTimesOut ==
    /\ Goto("analyzer", "get", "timer")
    /\ packet_queue = <<>>
    /\ UNCHANGED <<flagVars, shutdown_lock, queueVars, handled, in_hand, pcapVars,
                   alertVars, workVars, resume, mainVars>>

(* _run_timer_checks raises any number of alerts before it is through. *)
TimerAlert ==
    /\ Goto("analyzer", "timer", "dispatch")
    /\ total < MaxAlerts
    /\ resume' = "timer"
    /\ UNCHANGED <<flagVars, shutdown_lock, queueVars, handled, in_hand, pcapVars,
                   alertVars, workVars, mainVars>>

TimerDone ==
    /\ Goto("analyzer", "timer", IF in_hand = NoFrame THEN "poll" ELSE "write")
    /\ UNCHANGED <<flagVars, shutdown_lock, queueVars, handled, in_hand, pcapVars,
                   alertVars, workVars, resume, mainVars>>

(* Writing raises if the capture is closed, or the disk is full; the        *)
(* analyzer goes on regardless.                                             *)
WriteCapture ==
    /\ Goto("analyzer", "write", "inspect")
    /\ \/ pcap_open /\ pcap_frames' = Append(pcap_frames, in_hand) /\ UNCHANGED unwritten
       \/ pcap_open /\ MayFail /\ unwritten' = unwritten \cup {in_hand} /\ UNCHANGED pcap_frames
       \/ ~pcap_open /\ UNCHANGED <<pcap_frames, unwritten>>
    /\ UNCHANGED <<flagVars, shutdown_lock, queueVars, handled, in_hand, pcap_open,
                   alertVars, workVars, resume, mainVars>>

(* Malformed frames and the dashboard's own traffic end here ... *)
FrameIgnored ==
    /\ Goto("analyzer", "inspect", "poll")
    /\ in_hand' = NoFrame
    /\ UNCHANGED <<flagVars, shutdown_lock, queueVars, handled, pcapVars, alertVars,
                   workVars, resume, mainVars>>

(* ... the others are recorded, after an alert if reputation or payload     *)
(* calls for one.                                                           *)
FrameClean ==
    /\ Goto("analyzer", "inspect", "record")
    /\ UNCHANGED <<flagVars, shutdown_lock, queueVars, handled, in_hand, pcapVars,
                   alertVars, workVars, resume, mainVars>>

FrameAlert ==
    /\ Goto("analyzer", "inspect", "dispatch")
    /\ total < MaxAlerts
    /\ resume' = "record"
    /\ UNCHANGED <<flagVars, shutdown_lock, queueVars, handled, in_hand, pcapVars,
                   alertVars, workVars, mainVars>>

FrameRecorded ==
    /\ Goto("analyzer", "record", "poll")
    /\ in_hand' = NoFrame
    /\ UNCHANGED <<flagVars, shutdown_lock, queueVars, handled, pcapVars, alertVars,
                   workVars, resume, mainVars>>

(* dispatch counts the alert (and may insert a DROP rule, see               *)
(* AlertDispatcher), and hands it to the report, then to the CSV log, whose *)
(* errors are swallowed (what the log holds is left out).                   *)
DispatchCounts ==
    /\ Goto("analyzer", "dispatch", "report")
    /\ total' = total + 1
    /\ UNCHANGED <<flagVars, shutdown_lock, queueVars, handled, in_hand, pcapVars,
                   alerts, workVars, resume, mainVars>>

DispatchReports ==
    /\ Goto("analyzer", "report", "audit")
    /\ alerts' = alerts + 1
    /\ UNCHANGED <<flagVars, shutdown_lock, queueVars, handled, in_hand, pcapVars,
                   total, workVars, resume, mainVars>>

(* Mutant: after an alert the loop starts over. *)
DispatchAudits_StartsOver ==
    /\ Goto("analyzer", "audit", "poll")
    /\ UNCHANGED <<flagVars, shutdown_lock, queueVars, handled, in_hand, pcapVars,
                   alertVars, workVars, resume, mainVars>>

DispatchAudits ==
    /\ Goto("analyzer", "audit", resume)
    /\ UNCHANGED <<flagVars, shutdown_lock, queueVars, handled, in_hand, pcapVars,
                   alertVars, workVars, resume, mainVars>>

Analyzer ==
    \/ AnalyzerPolls \/ AnalyzerGets \/ AnalyzerTimesOut
    \/ TimerAlert \/ TimerDone
    \/ WriteCapture \/ FrameIgnored \/ FrameClean \/ FrameAlert \/ FrameRecorded
    \/ DispatchCounts \/ DispatchReports \/ DispatchAudits

(******************************** shutdown *********************************)

(* Where a stopper is once its call of shutdown returned, and where it is   *)
(* once an exception left the call: main's handler falls into its finally   *)
(* clause, an exception out of the finally clause leaves main, and the      *)
(* sensor thread simply ends.                                               *)
AfterShutdown(t) ==
    IF t = "sensor" THEN "done" ELSE IF main_in = "except" THEN "finally" ELSE "join"

(* Mutant: an exception takes every thread to the end of main. *)
AfterException_Main(t) == IF main_in = "except" THEN "finally" ELSE "finalize"

AfterException(t) ==
    IF t = "sensor" THEN "done" ELSE IF main_in = "except" THEN "finally" ELSE "finalize"

(* Mutant: acquire and release without a with statement or a finally. *)
Released_Kept(t) == shutdown_lock

Released(t) == IF shutdown_lock = t THEN Free ELSE shutdown_lock

(* An exception at location `from` of thread t; the with statement releases *)
(* the lock.                                                                *)
Raise(t, from) ==
    /\ Goto(t, from, AfterException(t))
    /\ shutdown_lock' = Released(t)
    /\ pending' = (pending \/ t = "main")
    /\ main_in' = IF t = "main" /\ main_in = "except" THEN "finally" ELSE main_in
    /\ outcome' = IF t = "main" /\ main_in = "finally" THEN "exception" ELSE outcome
    /\ UNCHANGED <<flagVars, queueVars, handled, in_hand, pcapVars, alertVars,
                   workVars, resume, timed_out, interrupts>>

Acquire(t) ==
    /\ Goto(t, "acquire", "check")
    /\ shutdown_lock = Free
    /\ shutdown_lock' = t
    /\ UNCHANGED <<flagVars, queueVars, handled, in_hand, pcapVars, alertVars,
                   workVars, resume, mainVars>>

AlreadyComplete(t) ==
    /\ shutdown_complete
    /\ Goto(t, "check", "release")
    /\ UNCHANGED <<flagVars, shutdown_lock, queueVars, handled, in_hand, pcapVars,
                   alertVars, workVars, resume, mainVars>>

(* Mutant: the flag is not looked at. *)
NotComplete_Unchecked(t) ==
    /\ Goto(t, "check", "claim")
    /\ UNCHANGED <<flagVars, shutdown_lock, queueVars, handled, in_hand, pcapVars,
                   alertVars, workVars, resume, mainVars>>

NotComplete(t) ==
    /\ ~shutdown_complete
    /\ Goto(t, "check", "claim")
    /\ UNCHANGED <<flagVars, shutdown_lock, queueVars, handled, in_hand, pcapVars,
                   alertVars, workVars, resume, mainVars>>

(* The flag goes up before any of the work it stands for is done. *)
ClaimShutdown(t) ==
    /\ Goto(t, "claim", "stop")
    /\ shutdown_complete' = TRUE
    /\ UNCHANGED <<is_running, stopped_at, shutdown_lock, queueVars, handled, in_hand,
                   pcapVars, alertVars, workVars, resume, mainVars>>

(* Mutant: only the sensor thread may stop the loops. *)
StopRunning_SensorOnly(t) ==
    /\ Goto(t, "stop", "close_pcap")
    /\ IF t = "sensor" THEN ClearRunning ELSE UNCHANGED <<is_running, stopped_at>>
    /\ UNCHANGED <<shutdown_complete, shutdown_lock, queueVars, handled, in_hand,
                   pcapVars, alertVars, workVars, resume, mainVars>>

StopRunning(t) ==
    /\ Goto(t, "stop", "close_pcap")
    /\ ClearRunning
    /\ UNCHANGED <<shutdown_complete, shutdown_lock, queueVars, handled, in_hand,
                   pcapVars, alertVars, workVars, resume, mainVars>>

ClosePcap(t) ==
    /\ Goto(t, "close_pcap", "open_brain")
    /\ pcap_open' = FALSE
    /\ UNCHANGED <<flagVars, shutdown_lock, queueVars, handled, in_hand, pcap_frames, unwritten,
                   alertVars, workVars, resume, mainVars>>

(* open(out, "w") makes an empty file.  If it fails the export is given up, *)
(* as it is if dumping fails half way; neither stops the shutdown.          *)
OpenBrain(t) ==
    /\ \/ Goto(t, "open_brain", "dump_brain") /\ brain' = "partial"
       \/ Goto(t, "open_brain", "generate") /\ MayFail /\ UNCHANGED brain
    /\ exports' = exports + 1
    /\ UNCHANGED <<flagVars, shutdown_lock, queueVars, handled, in_hand, pcapVars,
                   alertVars, report_rows, report, resume, mainVars>>

DumpBrain(t) ==
    /\ Goto(t, "dump_brain", "generate")
    /\ brain' \in {"saved"} \cup IF MayFail THEN {"partial"} ELSE {}
    /\ UNCHANGED <<flagVars, shutdown_lock, queueVars, handled, in_hand, pcapVars,
                   alertVars, report_rows, report, exports, resume, mainVars>>

(* generate walks the alerts for the rows, then asks how many there are. *)
GenerateNothing(t) ==
    /\ alerts = 0
    /\ Goto(t, "generate", "release")
    /\ UNCHANGED <<flagVars, shutdown_lock, queueVars, handled, in_hand, pcapVars,
                   alertVars, workVars, resume, mainVars>>

(* Mutant: the rows are those the dispatcher counted. *)
GenerateRows_Counted(t) ==
    /\ alerts > 0
    /\ Goto(t, "generate", "write_report")
    /\ report_rows' = total
    /\ UNCHANGED <<flagVars, shutdown_lock, queueVars, handled, in_hand, pcapVars,
                   alertVars, report, brain, exports, resume, mainVars>>

GenerateRows(t) ==
    /\ alerts > 0
    /\ Goto(t, "generate", "write_report")
    /\ report_rows' = alerts
    /\ UNCHANGED <<flagVars, shutdown_lock, queueVars, handled, in_hand, pcapVars,
                   alertVars, report, brain, exports, resume, mainVars>>

WriteReport(t) ==
    /\ Goto(t, "write_report", "release")
    /\ report' = [rows |-> report_rows, count |-> alerts]
    /\ UNCHANGED <<flagVars, shutdown_lock, queueVars, handled, in_hand, pcapVars,
                   alertVars, report_rows, brain, exports, resume, mainVars>>

Release(t) ==
    /\ Goto(t, "release", AfterShutdown(t))
    /\ shutdown_lock' = Free
    /\ main_in' = IF t = "main" THEN "finally" ELSE main_in
    /\ UNCHANGED <<flagVars, queueVars, handled, in_hand, pcapVars, alertVars,
                   workVars, resume, pending, timed_out, outcome, interrupts>>

(* Flushing the capture, making the brain directory and writing the report  *)
(* are not guarded: what they raise leaves shutdown with the rest undone.   *)
WorkFails(t) ==
    /\ MayFail
    /\ Raise(t, "close_pcap") \/ Raise(t, "open_brain") \/ Raise(t, "write_report")

Shutdown(t) ==
    \/ Acquire(t) \/ AlreadyComplete(t) \/ NotComplete(t) \/ ClaimShutdown(t) \/ StopRunning(t)
    \/ ClosePcap(t) \/ OpenBrain(t) \/ DumpBrain(t)
    \/ GenerateNothing(t) \/ GenerateRows(t) \/ WriteReport(t)
    \/ Release(t) \/ WorkFails(t)

(***************************** the sensor thread ***************************)

SensorStarts ==
    /\ Alive
    /\ pc["sensor"] = "start"
    /\ pc' = [pc EXCEPT !["sensor"] = "sleep", !["sniffer"] = "open", !["analyzer"] = "poll"]
    /\ UNCHANGED <<flagVars, shutdown_lock, queueVars, handled, in_hand, pcapVars,
                   alertVars, workVars, resume, mainVars>>

(* Mutant: the loop waits for the other flag. *)
SensorWakes_WrongFlag ==
    /\ Goto("sensor", "sleep", IF shutdown_complete THEN "acquire" ELSE "sleep")
    /\ UNCHANGED <<flagVars, shutdown_lock, queueVars, handled, in_hand, pcapVars,
                   alertVars, workVars, resume, mainVars>>

SensorWakes ==
    /\ ~is_running
    /\ Goto("sensor", "sleep", "acquire")
    /\ UNCHANGED <<flagVars, shutdown_lock, queueVars, handled, in_hand, pcapVars,
                   alertVars, workVars, resume, mainVars>>

Sensor == SensorStarts \/ SensorWakes \/ Shutdown("sensor")

(****************************** the main thread ****************************)

SensorAlive == pc["sensor"] # "done"

MainSeesSensorEnd ==
    /\ ~SensorAlive
    /\ Goto("main", "wait", "finally")
    /\ main_in' = "finally"
    /\ UNCHANGED <<flagVars, shutdown_lock, queueVars, handled, in_hand, pcapVars,
                   alertVars, workVars, resume, pending, timed_out, outcome, interrupts>>

MainFinally ==
    /\ Goto("main", "finally", IF SensorAlive THEN "acquire" ELSE "join")
    /\ UNCHANGED <<flagVars, shutdown_lock, queueVars, handled, in_hand, pcapVars,
                   alertVars, workVars, resume, mainVars>>

(* join(timeout=5.0), then is_alive() decides whether exit_code is assigned. *)
MainJoins ==
    /\ Goto("main", "join", "return")
    /\ timed_out' = SensorAlive
    /\ UNCHANGED <<flagVars, shutdown_lock, queueVars, handled, in_hand, pcapVars,
                   alertVars, workVars, resume, main_in, pending, outcome, interrupts>>

(* `return exit_code`: the name is bound only if the join timed out. *)
MainReturns ==
    /\ Goto("main", "return", "finalize")
    /\ outcome' = CASE pending   -> "exception"
                    [] timed_out /\ ~pending -> "exit_code 1"
                    [] OTHER     -> "unbound exit_code"
    /\ UNCHANGED <<flagVars, shutdown_lock, queueVars, handled, in_hand, pcapVars,
                   alertVars, workVars, resume, main_in, pending, timed_out, interrupts>>

(* The interpreter waits for the sensor thread, which is not a daemon; then *)
(* the process ends and takes the daemon threads with it.                   *)
ProcessExits ==
    /\ ~SensorAlive
    /\ Goto("main", "finalize", "exited")
    /\ UNCHANGED <<flagVars, shutdown_lock, queueVars, handled, in_hand, pcapVars,
                   alertVars, workVars, resume, mainVars>>

Main ==
    \/ MainSeesSensorEnd \/ MainFinally \/ MainJoins \/ MainReturns \/ ProcessExits
    \/ Shutdown("main")

(* Ctrl+C raises KeyboardInterrupt in the main thread wherever it is: in    *)
(* the wait loop it starts the shutdown, in the shutdown or the finally     *)
(* clause it is one more exception, in the final wait it ends the process.  *)
Interrupt ==
    /\ interrupts < MaxInterrupts
    /\ interrupts' = interrupts + 1
    /\ \/ /\ Goto("main", "wait", "acquire")
          /\ main_in' = "except"
          /\ UNCHANGED <<shutdown_lock, pending, outcome>>
       \/ /\ pc["main"] \in ShutdownSteps \cup {"finally", "join", "return"}
          /\ Goto("main", pc["main"], AfterException("main"))
          /\ shutdown_lock' = Released("main")
          /\ pending' = TRUE
          /\ main_in' = "finally"
          /\ outcome' = IF main_in = "finally" THEN "exception" ELSE outcome
       \/ /\ Goto("main", "finalize", "exited")
          /\ UNCHANGED <<shutdown_lock, pending, main_in, outcome>>
    /\ UNCHANGED <<flagVars, queueVars, handled, in_hand, pcapVars, alertVars,
                   workVars, resume, timed_out>>

Terminated == ~Alive /\ UNCHANGED vars

Next == Sniffer \/ Analyzer \/ Sensor \/ Main \/ Interrupt \/ Terminated

(* Every thread is scheduled: the GIL is handed round, sleeps and the join  *)
(* end, file writes return.  Nobody promises a frame or a Ctrl+C.           *)
Fairness ==
    /\ WF_vars(Main) /\ WF_vars(Sensor) /\ WF_vars(Analyzer)
    /\ WF_vars(SnifferOpens \/ SnifferRefused)

Spec == Init /\ [][Next]_vars

FairSpec == Spec /\ Fairness

--------------------------------------------------------------------------------
(* No frame is lost without being counted and none is seen twice or out of  *)
(* order: what the analyzer took and then what is queued is, in capture     *)
(* order, everything captured that was not dropped; the queue keeps its     *)
(* bound, so the sniffer never waits (sensor.py:129-154, bug B-01).         *)
FramesAccounted ==
    /\ Len(packet_queue) <= QueueSize
    /\ ToSet(handled \o packet_queue) = (1..captured) \ dropped
    /\ dropped \subseteq 1..captured
    /\ \A i, j \in 1..Len(handled \o packet_queue) :
          i < j => (handled \o packet_queue)[i] < (handled \o packet_queue)[j]

(* The capture file has no gap but the frames whose write failed: it holds, *)
(* in capture order, the first frames the analyzer took, up to the moment   *)
(* it was closed.                                                           *)
CaptureIsPrefix ==
    /\ ToSet(pcap_frames) \subseteq ToSet(handled) \ unwritten
    /\ \A i, j \in 1..Len(pcap_frames) : i < j => pcap_frames[i] < pcap_frames[j]
    /\ \A frame \in ToSet(handled) \ unwritten, i \in 1..Len(pcap_frames) :
          frame <= pcap_frames[i] => frame \in ToSet(pcap_frames)

(* Two threads call shutdown, from three places, in any order; the session  *)
(* is exported once, by the caller that holds the lock; and nobody keeps    *)
(* the lock who has left, whichever step failed or was interrupted.         *)
ShutdownOnce ==
    /\ exports <= 1
    /\ \A t \in Stoppers :
          shutdown_lock = t <=> pc[t] \in ShutdownSteps \ {"acquire"}

(* Stopping is prompt although nobody joins the analyzer: it takes at most  *)
(* one frame more after is_running was cleared.                             *)
AtMostOneLateFrame == ~is_running => Len(handled) <= stopped_at + 1

(* What the report lists and what it says it lists differ at most by alerts *)
(* that arrived while it was written, and it claims none that was not       *)
(* raised.                                                                  *)
ReportSound == report.rows <= report.count /\ report.count <= alerts /\ alerts <= total

(* Once the sensor stops for any reason the process ends.                   *)
StopEndsProcess == ~is_running ~> ~Alive

(* One Ctrl+C ends in an orderly exit: capture closed, brain saved, and     *)
(* whatever rows the report collected written out.                          *)
InterruptIsOrderly ==
    interrupts = 1 ~>
        /\ ~Alive
        /\ ~pcap_open
        /\ brain = "saved"
        /\ report.rows = report_rows

(* Findings.  Each of the following states what the comments of the source  *)
(* say; the runs that check them show how the code falls short.             *)

(* dispatcher.py:12-15, "every alert, from every engine, is ... recorded in *)
(* the forensic HTML report".                                               *)
EveryAlertInReport ==
    ~Alive /\ interrupts = 1 => report.rows = total

(* main.py:179-182, "request an orderly shutdown": not prevent one for good.*)
ShutdownStopsSensor ==
    interrupts > 0 ~> ~Alive

(* main.py:229-231: the exit code is 1 when the sensor did not stop in time *)
(* and otherwise there is an exit code to return.                           *)
MainReturnsAnExitCode == outcome # "unbound exit_code"

(* From the wire to the capture file no frame is lost unseen, seen twice or *)
(* out of order, and the analyzer takes at most one after the stop          *)
(* (sensor.py:129-172).                                                     *)
FramesConsistent == TypeOK /\ FramesAccounted /\ CaptureIsPrefix /\ AtMostOneLateFrame
================================================================================
