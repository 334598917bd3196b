---------------------------------- MODULE Siem ----------------------------------
(***************************************************************************)
(* The way of an alert to the analyst: UDPSender of utils/logger.py, the    *)
(* network, the listener and the route /api/stats of dashboard_ui/siem.py,  *)
(* and fetchStats of web_template.html.                                     *)
(*                                                                         *)
(* A datagram may be lost, delivered twice or overtaken.  The listener and  *)
(* the handler are two threads of one process and share the deque           *)
(* ALERT_HISTORY and the dict ACTIVE_SENSORS without a lock.  The handler   *)
(* walks the deque once for every figure: Python ends a walk with a         *)
(* RuntimeError when the deque was changed since the walk began, and the    *)
(* request then ends without an answer.  len() and list() are one step.     *)
(*                                                                         *)
(* Port 9999 is open to anybody, so a datagram may be no alert at all: one  *)
(* of them ends the listener's thread, another the rendering of the page.   *)
(*                                                                         *)
(* An alert is its number in `sent`; its text is reduced to the keyword it  *)
(* is counted under.  Figures taken from the packet store are PacketStore's *)
(* subject and the load of the host is left out.                            *)
(***************************************************************************)
EXTENDS Integers, Sequences, SequencesExt, FiniteSets, FiniteSetsExt

CONSTANTS
    Datagrams,      (* [sensor, format, kind]: one of Formats, and the      *)
                    (* keyword of its text                                  *)
    Passes,         (* what do_GET counts, in its order                     *)
    MAX_ALERTS,     (* maxlen of ALERT_HISTORY                              *)
    OverviewRows,   (* rows of the overview's table                         *)
    Calls,          (* calls of fetchStats that may be under way            *)
    MaxSent,        (* bound on datagrams sent                              *)
    MaxDeliveries   (* bound on deliveries of all datagrams                 *)

(* A frame in JSON whose message is a text, an object (it can be searched   *)
(* for a keyword by the listener, but not by the page) or a number (which   *)
(* cannot be searched at all); bracketed text; and anything else.           *)
Formats == {"json", "object", "number", "text", "other"}

ASSUME SiemAssumption ==
    /\ \A d \in Datagrams : d.format \in Formats
    /\ Passes \in Seq(STRING) \ {<<>>}
    /\ \A i, j \in 1..Len(Passes) : Passes[i] = Passes[j] => i = j
    /\ MAX_ALERTS \in Nat \ {0}
    /\ {OverviewRows, MaxSent, MaxDeliveries} \subseteq Nat

VARIABLES
    sent,           (* datagrams sent: sensor, format, keyword              *)
    wire,           (* number of a datagram -> deliveries still to come     *)
    listening,      (* whether the listener's thread still runs             *)
    heard,          (* the listener: number of the datagram it works on     *)
    ACTIVE_SENSORS, (* sensors heard of                                     *)
    ALERT_HISTORY,  (* numbers of the alerts, newest first                  *)
    request,        (* the handler: the request it works on                 *)
    calls,          (* call of fetchStats -> where it is                    *)
    page,           (* what the page shows: the total, both tables, status  *)
    arrived         (* history: every alert entered so far, oldest first    *)

netVars == <<sent, wire>>
listenerVars == <<listening, heard, ACTIVE_SENSORS, ALERT_HISTORY, arrived>>
pageVars == <<calls, page>>
vars == <<netVars, listenerVars, request, pageVars>>

NoOne == 0
Idle == [state |-> "idle"]
NoRequest == [at |-> "none"]

TypeOK ==
    /\ sent \in Seq(Datagrams)
    /\ wire \in [1..Len(sent) -> 0..2]
    /\ listening \in BOOLEAN
    /\ heard \in 0..Len(sent)
    /\ ACTIVE_SENSORS \subseteq {d.sensor : d \in Datagrams}
    /\ ALERT_HISTORY \in Seq(1..Len(sent)) /\ Len(ALERT_HISTORY) <= MAX_ALERTS
    /\ request.at \in {"none", "sensors", "between", "walking", "list"}
    /\ \A c \in Calls : calls[c].state \in {"idle", "asked", "answered", "failed"}
    /\ page.status \in {"operational", "unavailable"}

Init ==
    /\ sent = <<>> /\ wire = <<>>
    /\ listening = TRUE
    /\ heard = NoOne
    /\ ACTIVE_SENSORS = {}
    /\ ALERT_HISTORY = <<>> /\ arrived = <<>>
    /\ request = NoRequest
    /\ calls = [c \in Calls |-> Idle]
    /\ page = [status |-> "operational", total |-> 0, overview |-> <<>>, table |-> <<>>]

--------------------------------------------------------------------------------
(* UDPSender.send_log by a sensor of today ("json"), an older sensor        *)
(* ("text"), or a datagram of another program.                              *)
SendLog(datagram) ==
    /\ Len(sent) < MaxSent
    /\ sent' = Append(sent, datagram)
    /\ \E copies \in 0..2 :
          /\ Len(arrived) + (IF heard = NoOne THEN 0 ELSE 1) + FoldSeq(+, 0, wire) + copies <= MaxDeliveries
          /\ wire' = Append(wire, copies)
    /\ UNCHANGED <<listenerVars, request, pageVars>>

(* SyslogUDPHandler.start: recvfrom, the parse, and the sensor's time stamp *)
Searchable(no) == sent[no].format # "number"

Hear(no) ==
    /\ listening /\ heard = NoOne
    /\ wire[no] > 0
    /\ Searchable(no)
    /\ wire' = [wire EXCEPT ![no] = @ - 1]
    /\ heard' = no
    /\ ACTIVE_SENSORS' = ACTIVE_SENSORS \cup {sent[no].sensor}
    /\ UNCHANGED <<sent, listening, ALERT_HISTORY, arrived, request, pageVars>>

(* The search for a keyword raises TypeError, which nothing catches: the    *)
(* daemon thread is gone, the dashboard goes on.                            *)
ListenerEnds(no) ==
    /\ listening /\ heard = NoOne
    /\ wire[no] > 0
    /\ ~Searchable(no)
    /\ wire' = [wire EXCEPT ![no] = @ - 1]
    /\ listening' = FALSE
    /\ UNCHANGED <<sent, heard, ACTIVE_SENSORS, ALERT_HISTORY, arrived, request, pageVars>>

(* Mutant: append instead of appendleft, which drops from the other end.    *)
Entered_Below(no) ==
    LET longer == Append(ALERT_HISTORY, no)
    IN IF Len(longer) > MAX_ALERTS THEN Tail(longer) ELSE longer

Entered(no) ==
    LET longer == <<no>> \o ALERT_HISTORY
    IN IF Len(longer) > MAX_ALERTS THEN Front(longer) ELSE longer

Enter ==
    /\ heard # NoOne
    /\ ALERT_HISTORY' = Entered(heard)
    /\ arrived' = Append(arrived, heard)
    /\ heard' = NoOne
    /\ UNCHANGED <<netVars, listening, ACTIVE_SENSORS, request, pageVars>>

--------------------------------------------------------------------------------
(* Text that is neither JSON nor bracketed is replaced by "INVALID UDP      *)
(* PAYLOAD ..."; only JSON brings a technique.                              *)
Words(no) == IF sent[no].format = "other" THEN "PAYLOAD" ELSE sent[no].kind

CountedUnder(no, pass) ==
    IF pass = "technique" THEN sent[no].format \in {"json", "object"} ELSE Words(no) = pass

Counted(alerts, pass) == Cardinality({i \in 1..Len(alerts) : CountedUnder(alerts[i], pass)})

NoCounts == [p \in Range(Passes) |-> 0]

(* fetchStats up to the await; setInterval does not wait for the answer.    *)
(* `asked` and `hadSensors` are history.                                    *)
Poll(c) ==
    /\ calls[c] = Idle
    /\ calls' = [calls EXCEPT ![c] =
         [state |-> "asked", asked |-> Len(arrived), hadSensors |-> Cardinality(ACTIVE_SENSORS)]]
    /\ UNCHANGED <<netVars, listenerVars, request, page>>

(* do_GET begins: the clock is read and the walk over the sensors begins.   *)
TakeRequest(c) ==
    /\ request = NoRequest
    /\ calls[c].state = "asked"
    /\ request' = [at |-> "sensors", call |-> c, known |-> ACTIVE_SENSORS,
                   counts |-> NoCounts, next |-> 1, walk |-> 0, total |-> 0]
    /\ UNCHANGED <<netVars, listenerVars, pageVars>>

(* The exception ends the request; the server closes the connection.        *)
Abort ==
    /\ calls' = [calls EXCEPT ![request.call] =
         [state |-> "failed"]]
    /\ request' = NoRequest
    /\ UNCHANGED <<netVars, listenerVars, page>>

(* The walk over ACTIVE_SENSORS ends; a dict complains only of a new size.  *)
SensorsCounted ==
    /\ request.at = "sensors"
    /\ \/ ACTIVE_SENSORS # request.known /\ Abort
       \/ /\ ACTIVE_SENSORS = request.known
          /\ request' = [request EXCEPT !.at = "between"]
          /\ UNCHANGED <<netVars, listenerVars, pageVars>>

(* One walk over ALERT_HISTORY.  `walk` stands for the state counter of the *)
(* deque, which every change of the deque moves on.                         *)
PassBegins ==
    /\ request.at = "between"
    /\ request.next <= Len(Passes)
    /\ request' = [request EXCEPT !.walk = Len(arrived), !.at = "walking"]
    /\ UNCHANGED <<netVars, listenerVars, pageVars>>

PassEnds ==
    /\ request.at = "walking"
    /\ \/ Len(arrived) # request.walk /\ Abort
       \/ /\ Len(arrived) = request.walk
          /\ LET pass == Passes[request.next]
             IN request' = [request EXCEPT !.counts = [@ EXCEPT ![pass] = Counted(ALERT_HISTORY, pass)],
                                           !.next = @ + 1,
                                           !.walk = 0,
                                           !.at = "between"]
          /\ UNCHANGED <<netVars, listenerVars, pageVars>>

(* Mutant: every alert since the start.                                     *)
total_alerts_Ever == Len(arrived)

total_alerts == Len(ALERT_HISTORY)

Total ==
    /\ request.at = "between"
    /\ request.next > Len(Passes)
    /\ request' = [request EXCEPT !.total = total_alerts, !.at = "list"]
    /\ UNCHANGED <<netVars, listenerVars, pageVars>>

(* "alerts": list(ALERT_HISTORY), and the answer is sent.  Of its figures   *)
(* the page is modelled to keep the total.                                  *)
SendJson ==
    /\ request.at = "list"
    /\ calls' = [calls EXCEPT ![request.call] =
         [state |-> "answered", total |-> request.total, alerts |-> ALERT_HISTORY]]
    /\ request' = NoRequest
    /\ UNCHANGED <<netVars, listenerVars, page>>

(* Mutant: the error ends the polling.                                      *)
CallEnds_Stuck(c) == IF calls[c].state = "failed" THEN calls[c] ELSE Idle

CallEnds(c) == Idle

(* renderAlerts throws at an alert whose message is no text; the rows in    *)
(* front of it are on the page by then.                                     *)
Renders(alerts) == \A i \in 1..Len(alerts) : sent[alerts[i]].format # "object"

Rows(alerts) ==
    LET shown == {n \in 0..Len(alerts) : Renders(SubSeq(alerts, 1, n))}
    IN SubSeq(alerts, 1, Max(shown))

Recent(alerts) == SubSeq(alerts, 1, IF Len(alerts) > OverviewRows THEN OverviewRows ELSE Len(alerts))

(* fetchStats after the await: the total, the overview's table, the table   *)
(* of all alerts and the status, in this order, as far as it comes.  The    *)
(* request has failed if the server gave no answer.                         *)
Receive(c) ==
    /\ calls[c].state = "answered"
    /\ LET alerts == calls[c].alerts
       IN page' = [total    |-> calls[c].total,
                   overview |-> Rows(Recent(alerts)),
                   table    |-> IF Renders(Recent(alerts)) THEN Rows(alerts) ELSE page.table,
                   status   |-> IF Renders(alerts) THEN "operational" ELSE "unavailable"]
    /\ calls' = [calls EXCEPT ![c] = CallEnds(c)]
    /\ UNCHANGED <<netVars, listenerVars, request>>

Fail(c) ==
    /\ calls[c].state = "failed"
    /\ page' = [page EXCEPT !.status = "unavailable"]
    /\ calls' = [calls EXCEPT ![c] = CallEnds(c)]
    /\ UNCHANGED <<netVars, listenerVars, request>>

Listener == Enter \/ \E no \in 1..Len(sent) : Hear(no) \/ ListenerEnds(no)

Handler == SensorsCounted \/ PassBegins \/ PassEnds \/ Total \/ SendJson \/ \E c \in Calls : TakeRequest(c)

Page(c) == Poll(c) \/ Receive(c) \/ Fail(c)

Next ==
    \/ \E datagram \in Datagrams : SendLog(datagram)
    \/ Listener
    \/ Handler
    \/ \E c \in Calls : Page(c)

Spec == Init /\ [][Next]_vars

(* Threads of one process are scheduled (the listener's while it lives),    *)
(* serve_forever takes the requests in their order, and the timer of an     *)
(* open page fires every second.                                            *)
FairSpec ==
    /\ Spec
    /\ WF_vars(Listener) /\ WF_vars(Handler)
    /\ \A c \in Calls : WF_vars(Page(c)) /\ SF_vars(TakeRequest(c))

--------------------------------------------------------------------------------
(* ALERT_HISTORY as it was after so many arrivals. *)
Window(version) ==
    [i \in 1..(IF version > MAX_ALERTS THEN MAX_ALERTS ELSE version) |-> arrived[version - i + 1]]

(* Walking a deque that another thread changes never yields a figure that   *)
(* was wrong at every moment: each figure of the answer about to be sent is *)
(* that of one moment, the moments follow the order of the code, and the    *)
(* alerts are the newest ones of the last, newest first.                    *)
FiguresFromThePast ==
    request.at = "list" =>
        \E moment \in [1..Len(Passes) + 2 -> 0..Len(arrived)] :
            /\ \A i, j \in DOMAIN moment : i <= j => moment[i] <= moment[j]
            /\ \A i \in 1..Len(Passes) :
                  request.counts[Passes[i]] = Counted(Window(moment[i]), Passes[i])
            /\ request.total = Len(Window(moment[Len(Passes) + 1]))
            /\ ALERT_HISTORY = Window(moment[Len(Passes) + 2])

Quiet(c) == calls[c].asked = Len(arrived) /\ calls[c].hadSensors = Cardinality(ACTIVE_SENSORS)

Exact(pass) == request.counts[pass] = Counted(ALERT_HISTORY, pass)

(* A request that met no arrival is answered, and with the exact figures:   *)
(* an answer is refused only because the history moved under it.            *)
QuietAnswerExact ==
    [][\A c \in Calls :
          calls[c].state = "asked" /\ calls'[c].state # "asked" /\ Quiet(c) =>
              /\ calls'[c].state = "answered"
              /\ calls'[c].alerts = ALERT_HISTORY /\ calls'[c].total = Len(ALERT_HISTORY)
              /\ \A i \in 1..Len(Passes) : Exact(Passes[i])]_vars

(* Once nothing more arrives, the page comes to show what the listener has  *)
(* entered and still keeps, and stays with it, whatever requests failed or  *)
(* overtook one another: the total and the newest alerts always; the whole  *)
(* table and the status unless an alert stands in the way that the page     *)
(* cannot render.  Of a listener that has ended only what it entered before *)
(* is promised.                                                             *)
PageCatchesUp ==
    <>[](/\ page.total = Len(ALERT_HISTORY)
         /\ page.overview = Rows(Recent(ALERT_HISTORY))
         /\ Renders(ALERT_HISTORY) => page.table = ALERT_HISTORY /\ page.status = "operational")

(* "Fall back to the original bracketed text format ..., and reject         *)
(* anything else - port 9999 is itself a scan target, so arbitrary bytes do *)
(* arrive here" (siem.py:49-52): no datagram ends the listener.             *)
AnythingElseRejected == listening

(* No answer, early, late or overtaken, tells of alerts that were not heard *)
(* (siem.py:159-222).                                                       *)
AnswersFromThePast == TypeOK /\ FiguresFromThePast
================================================================================
