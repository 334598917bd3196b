-------------------------------- MODULE Siem_proofs --------------------------------
(***************************************************************************)
(* The listener and the handler share the history without a lock; still a  *)
(* request that met no arrival is answered, and exactly, and no answer     *)
(* tells of anything that was not true at some moment, for every set of    *)
(* datagrams, calls and figures, and every length of the history.          *)
(***************************************************************************)
EXTENDS Siem, SequenceTheorems, FiniteSetTheorems, TLAPS

Asked == calls[request.call]

(* Nothing arrived since the question of the request at hand was asked.     *)
StillQuiet == Asked.asked = Len(arrived)

(* What the request has gathered is the present, unless something arrived.  *)
Gathered ==
    /\ DOMAIN request = {"at", "call", "known", "counts", "next", "walk", "total"}
    /\ request.at \in {"sensors", "between", "walking", "list"}
    /\ request.call \in Calls /\ Asked.state = "asked"
    /\ request.known \subseteq ACTIVE_SENSORS
    /\ Asked.hadSensors <= Cardinality(request.known)
    /\ DOMAIN request.counts = Range(Passes)
    /\ request.next \in Nat \ {0}
    /\ request.at = "sensors" => request.next = 1
    /\ request.at = "walking" => /\ request.next <= Len(Passes)
                                 /\ request.walk \in Nat
                                 /\ Asked.asked <= request.walk /\ request.walk <= Len(arrived)
    /\ request.at = "list" => request.next > Len(Passes)
    /\ StillQuiet =>
          /\ \A i \in 1..Len(Passes) : i < request.next => Exact(Passes[i])
          /\ request.at = "list" => request.total = Len(ALERT_HISTORY)

QuietInv ==
    /\ sent \in Seq(Datagrams) /\ heard \in 0..Len(sent)
    /\ ALERT_HISTORY \in Seq(1..Len(sent)) /\ arrived \in Seq(Nat)
    /\ IsFiniteSet(ACTIVE_SENSORS)
    /\ DOMAIN calls = Calls
    /\ \A c \in Calls : calls[c].state = "asked" =>
          /\ calls[c].asked \in Nat /\ calls[c].asked <= Len(arrived)
          /\ calls[c].hadSensors \in Nat /\ calls[c].hadSensors <= Cardinality(ACTIVE_SENSORS)
    /\ request # NoRequest => Gathered

(* What is counted of the history does not depend on what is sent later.    *)
LEMMA CountedAlike ==
    ASSUME ALERT_HISTORY \in Seq(1..Len(sent)), UNCHANGED ALERT_HISTORY,
           \A no \in 1..Len(sent) : sent'[no] = sent[no]
    PROVE  \A pass : Counted(ALERT_HISTORY, pass)' = Counted(ALERT_HISTORY, pass)
<1> TAKE pass
<1>1. \A i \in 1..Len(ALERT_HISTORY) :
          CountedUnder(ALERT_HISTORY[i], pass)' <=> CountedUnder(ALERT_HISTORY[i], pass)
  BY DEF CountedUnder, Words
<1>2. {i \in 1..Len(ALERT_HISTORY) : CountedUnder(ALERT_HISTORY[i], pass)}'
          = {i \in 1..Len(ALERT_HISTORY) : CountedUnder(ALERT_HISTORY[i], pass)}
  BY <1>1
<1> QED
  BY <1>2 DEF Counted

LEMMA QuietStart == Init => QuietInv
<1> SUFFICES ASSUME Init PROVE QuietInv
  OBVIOUS
<1>1. IsFiniteSet({})
  BY FS_EmptySet
<1> QED
  BY <1>1 DEF Init, QuietInv, Idle, NoOne

(* The request at hand stays what it was while others send, ask or receive. *)
LEMMA GatheredStays ==
    ASSUME QuietInv, Gathered, UNCHANGED <<request, Asked, ALERT_HISTORY, arrived>>,
           ACTIVE_SENSORS \subseteq ACTIVE_SENSORS',
           \A no \in 1..Len(sent) : sent'[no] = sent[no]
    PROVE  Gathered'
<1>1. \A pass : Counted(ALERT_HISTORY, pass)' = Counted(ALERT_HISTORY, pass)
  BY CountedAlike DEF QuietInv
<1>2. \A pass : Exact(pass)' <=> Exact(pass)
  BY <1>1 DEF Exact
<1> QED
  BY <1>2 DEF Gathered, StillQuiet

(* A step that leaves the questions, the request and the history alone.     *)
LEMMA Apart ==
    ASSUME QuietInv, UNCHANGED <<calls, request, ALERT_HISTORY, arrived, ACTIVE_SENSORS, heard>>,
           sent' \in Seq(Datagrams), Len(sent) <= Len(sent'),
           \A no \in 1..Len(sent) : sent'[no] = sent[no]
    PROVE  QuietInv'
<1>1. request # NoRequest => Gathered'
  BY GatheredStays DEF QuietInv, Asked
<1>2. heard' \in 0..Len(sent') /\ ALERT_HISTORY' \in Seq(1..Len(sent'))
  BY DEF QuietInv
<1> QED
  BY <1>1, <1>2 DEF QuietInv

(* Another call than the one the handler works on begins or ends.           *)
LEMMA OtherCall ==
    ASSUME QuietInv, UNCHANGED <<request, sent, listenerVars>>,
           NEW c \in Calls, calls[c].state # "asked",
           NEW r, calls' = [calls EXCEPT ![c] = r],
           r.state = "asked" => /\ r.asked \in Nat /\ r.asked <= Len(arrived)
                                /\ r.hadSensors \in Nat /\ r.hadSensors <= Cardinality(ACTIVE_SENSORS)
    PROVE  QuietInv'
<1>1. UNCHANGED <<heard, ACTIVE_SENSORS, ALERT_HISTORY, arrived>>
  BY DEF listenerVars
<1>2. request # NoRequest => Asked' = Asked
  BY DEF QuietInv, Gathered, Asked
<1>3. request # NoRequest => Gathered'
  BY <1>1, <1>2, GatheredStays DEF QuietInv
<1>4. DOMAIN calls' = Calls /\ calls'[c] = r /\ \A d \in Calls : d # c => calls'[d] = calls[d]
  BY DEF QuietInv
<1> QED
  BY <1>1, <1>3, <1>4 DEF QuietInv

(* The request at hand is over.                                             *)
LEMMA RequestEnds ==
    ASSUME QuietInv, UNCHANGED <<sent, listenerVars>>, request' = NoRequest,
           NEW r, calls' = [calls EXCEPT ![request.call] = r], r.state # "asked"
    PROVE  QuietInv'
<1>1. UNCHANGED <<heard, ACTIVE_SENSORS, ALERT_HISTORY, arrived>>
  BY DEF listenerVars
<1>2. DOMAIN calls' = Calls /\ \A d \in Calls : calls'[d] = r \/ calls'[d] = calls[d]
  BY DEF QuietInv
<1> QED
  BY <1>1, <1>2 DEF QuietInv

LEMMA SmallerKnown ==
    ASSUME QuietInv, request # NoRequest,
           Cardinality(ACTIVE_SENSORS) = Asked.hadSensors
    PROVE  request.known = ACTIVE_SENSORS
<1>1. /\ IsFiniteSet(ACTIVE_SENSORS) /\ request.known \subseteq ACTIVE_SENSORS
      /\ Asked.hadSensors <= Cardinality(request.known)
  BY DEF QuietInv, Gathered
<1>2. /\ IsFiniteSet(request.known) /\ Cardinality(request.known) <= Cardinality(ACTIVE_SENSORS)
      /\ (Cardinality(request.known) = Cardinality(ACTIVE_SENSORS) => request.known = ACTIVE_SENSORS)
  BY <1>1, FS_Subset
<1>3. Cardinality(request.known) \in Nat /\ Cardinality(ACTIVE_SENSORS) \in Nat
  BY <1>1, <1>2, FS_CardinalityType
<1> QED
  BY <1>1, <1>2, <1>3

LEMMA HandlerKeeps ==
    ASSUME QuietInv, Handler
    PROVE  QuietInv'
<1>1. ASSUME NEW c \in Calls, TakeRequest(c) PROVE QuietInv'
  <2>1. /\ calls[c].state = "asked" /\ UNCHANGED <<sent, listenerVars, calls>>
        /\ request' = [at |-> "sensors", call |-> c, known |-> ACTIVE_SENSORS,
                       counts |-> NoCounts, next |-> 1, walk |-> 0, total |-> 0]
    BY <1>1 DEF TakeRequest, netVars, pageVars
  <2>2. Gathered'
    BY <2>1 DEF QuietInv, Gathered, Asked, StillQuiet, NoCounts, listenerVars
  <2> QED
    BY <2>1, <2>2 DEF QuietInv, listenerVars
<1>2. CASE Abort
  <2>1. [state |-> "failed"].state # "asked"
    OBVIOUS
  <2> QED
    BY <1>2, <2>1, RequestEnds DEF Abort, netVars
<1>3. CASE SendJson
  <2> DEFINE r == [state |-> "answered", total |-> request.total, alerts |-> ALERT_HISTORY]
  <2>1. /\ UNCHANGED <<sent, listenerVars>> /\ request' = NoRequest
        /\ calls' = [calls EXCEPT ![request.call] = r]
    BY <1>3 DEF SendJson, netVars
  <2>2. r.state # "asked"
    OBVIOUS
  <2> HIDE DEF r
  <2> QED
    BY <2>1, <2>2, RequestEnds
<1>4. ASSUME UNCHANGED <<netVars, listenerVars, pageVars>>, request # NoRequest, request' # NoRequest => Gathered'
      PROVE  QuietInv'
  BY <1>4 DEF QuietInv, netVars, listenerVars, pageVars
<1>5. CASE SensorsCounted /\ ~Abort
  <2>1. /\ request.at = "sensors" /\ request' = [request EXCEPT !.at = "between"]
        /\ UNCHANGED <<netVars, listenerVars, pageVars>>
    BY <1>5 DEF SensorsCounted
  <2>2. Gathered /\ request # NoRequest
    BY <2>1 DEF QuietInv, NoRequest
  <2>3. Gathered'
    BY <2>1, <2>2 DEF Gathered, Asked, StillQuiet, Exact, Counted, CountedUnder, Words, netVars, listenerVars, pageVars
  <2> QED
    BY <1>4, <2>1, <2>2, <2>3
<1>6. CASE PassBegins
  <2>1. /\ request.at = "between" /\ request.next <= Len(Passes)
        /\ request' = [request EXCEPT !.walk = Len(arrived), !.at = "walking"]
        /\ UNCHANGED <<netVars, listenerVars, pageVars>>
    BY <1>6 DEF PassBegins
  <2>2. Gathered /\ request # NoRequest /\ arrived \in Seq(Nat)
    BY <2>1 DEF QuietInv, NoRequest
  <2>3. Asked.asked <= Len(arrived)
    BY <2>2 DEF QuietInv, Gathered, Asked
  <2>4. Gathered'
    BY <2>1, <2>2, <2>3 DEF Gathered, Asked, StillQuiet, Exact, Counted, CountedUnder, Words, netVars, listenerVars, pageVars
  <2> QED
    BY <1>4, <2>1, <2>2, <2>4
<1>7. CASE PassEnds /\ ~Abort
  <2> DEFINE pass == Passes[request.next]
             counts == [request.counts EXCEPT ![pass] = Counted(ALERT_HISTORY, pass)]
  <2>1. /\ request.at = "walking"
        /\ request' = [request EXCEPT !.counts = counts, !.next = @ + 1, !.walk = 0, !.at = "between"]
        /\ UNCHANGED <<netVars, listenerVars, pageVars>>
    BY <1>7 DEF PassEnds
  <2>2. Gathered /\ request # NoRequest
    BY <2>1 DEF QuietInv, NoRequest
  <2>3. request.next \in 1..Len(Passes) /\ pass \in Range(Passes)
    BY <2>1, <2>2, SiemAssumption DEF Gathered, Range
  <2>4. DOMAIN counts = Range(Passes) /\ counts[pass] = Counted(ALERT_HISTORY, pass)
        /\ \A p \in Range(Passes) : p # pass => counts[p] = request.counts[p]
    BY <2>2, <2>3 DEF Gathered
  <2>5. \A i \in 1..Len(Passes) : Passes[i] \in Range(Passes)
    BY SiemAssumption DEF Range
  <2>6. ASSUME StillQuiet, NEW i \in 1..Len(Passes), i < request.next + 1
        PROVE  counts[Passes[i]] = Counted(ALERT_HISTORY, Passes[i])
    <3>1. CASE Passes[i] = pass
      BY <2>4, <3>1
    <3>2. CASE Passes[i] # pass
      <4>1. i < request.next
        BY <2>3, <2>6, <3>2
      <4>2. Exact(Passes[i])
        BY <2>2, <2>6, <4>1 DEF Gathered
      <4> QED
        BY <2>4, <2>5, <3>2, <4>2 DEF Exact
    <3> QED
      BY <3>1, <3>2
  <2> HIDE DEF counts, pass
  <2>7. /\ request'.counts = counts /\ request'.next = request.next + 1 /\ request'.at = "between"
        /\ request'.call = request.call /\ request'.known = request.known
        /\ DOMAIN request' = DOMAIN request
    BY <2>1, <2>2 DEF Gathered
  <2>8. UNCHANGED <<ACTIVE_SENSORS, ALERT_HISTORY, arrived, calls, sent>>
    BY <2>1 DEF listenerVars, pageVars, netVars
  <2>9. \A i \in 1..Len(Passes) : StillQuiet' /\ i < request'.next => Exact(Passes[i])'
    BY <2>6, <2>7, <2>8 DEF Exact, StillQuiet, Asked, Counted, CountedUnder, Words
  <2>10. Gathered'
    BY <2>2, <2>4, <2>7, <2>8, <2>9 DEF Gathered, Asked
  <2> QED
    BY <1>4, <2>1, <2>2, <2>10
<1>8. CASE Total
  <2>1. /\ request.at = "between" /\ request.next > Len(Passes)
        /\ request' = [request EXCEPT !.total = Len(ALERT_HISTORY), !.at = "list"]
        /\ UNCHANGED <<netVars, listenerVars, pageVars>>
    BY <1>8 DEF Total, total_alerts
  <2>2. Gathered /\ request # NoRequest
    BY <2>1 DEF QuietInv, NoRequest
  <2>3. Gathered'
    BY <2>1, <2>2 DEF Gathered, Asked, StillQuiet, Exact, Counted, CountedUnder, Words, netVars, listenerVars, pageVars
  <2> QED
    BY <1>4, <2>1, <2>2, <2>3
<1> QED
  BY <1>1, <1>2, <1>3, <1>5, <1>6, <1>7, <1>8 DEF Handler

LEMMA QuietStep == QuietInv /\ [Next]_vars => QuietInv'
<1> SUFFICES ASSUME QuietInv, [Next]_vars PROVE QuietInv'
  OBVIOUS
<1>1. ASSUME NEW d \in Datagrams, SendLog(d) PROVE QuietInv'
  <2>1. sent' = Append(sent, d) /\ sent \in Seq(Datagrams)
        /\ UNCHANGED <<calls, request, ALERT_HISTORY, arrived, ACTIVE_SENSORS, heard>>
    BY <1>1 DEF SendLog, listenerVars, pageVars, QuietInv
  <2>2. /\ sent' \in Seq(Datagrams) /\ Len(sent) <= Len(sent')
        /\ \A no \in 1..Len(sent) : sent'[no] = sent[no]
    BY <2>1
  <2> QED
    BY <2>1, <2>2, Apart
<1>2. CASE Enter
  <2>1. /\ heard' = NoOne /\ arrived' = Append(arrived, heard) /\ heard # NoOne
        /\ ALERT_HISTORY' = Entered(heard)
        /\ UNCHANGED <<ACTIVE_SENSORS, request, calls, sent>>
    BY <1>2 DEF Enter, netVars, pageVars
  <2>2. arrived' \in Seq(Nat) /\ Len(arrived') = Len(arrived) + 1
    BY <2>1 DEF QuietInv
  <2>3. Asked' = Asked
    BY <2>1 DEF Asked
  <2>4. ASSUME request # NoRequest PROVE Gathered'
    <3>1. Gathered /\ Asked.asked \in Nat /\ Asked.asked <= Len(arrived)
      BY <2>4 DEF QuietInv, Gathered, Asked
    <3>2. ~StillQuiet'
      BY <2>2, <2>3, <3>1 DEF StillQuiet, QuietInv
    <3> QED
      BY <2>1, <2>2, <2>3, <3>1, <3>2 DEF Gathered, QuietInv
  <2>5. ALERT_HISTORY' \in Seq(1..Len(sent))
    <3> DEFINE longer == <<heard>> \o ALERT_HISTORY
    <3>1. longer \in Seq(1..Len(sent)) /\ Len(longer) >= 1
      BY <2>1 DEF QuietInv, NoOne
    <3>2. SubSeq(longer, 1, Len(longer) - 1) \in Seq(1..Len(sent))
      BY <3>1, SubSeqProperties
    <3> QED
      BY <2>1, <3>1, <3>2 DEF Entered, Front
  <2> QED
    BY <2>1, <2>2, <2>4, <2>5 DEF QuietInv, NoOne
<1>3. ASSUME NEW no \in 1..Len(sent), Hear(no) PROVE QuietInv'
  <2>1. /\ heard' = no /\ UNCHANGED <<ALERT_HISTORY, arrived, request, calls, sent>>
        /\ ACTIVE_SENSORS' = ACTIVE_SENSORS \cup {sent[no].sensor}
    BY <1>3 DEF Hear, pageVars
  <2>2. /\ IsFiniteSet(ACTIVE_SENSORS') /\ Cardinality(ACTIVE_SENSORS) <= Cardinality(ACTIVE_SENSORS')
        /\ Cardinality(ACTIVE_SENSORS) \in Nat /\ Cardinality(ACTIVE_SENSORS') \in Nat
    <3>1. IsFiniteSet(ACTIVE_SENSORS)
      BY DEF QuietInv
    <3>2. IsFiniteSet(ACTIVE_SENSORS')
      BY <2>1, <3>1, FS_AddElement
    <3> QED
      BY <2>1, <3>1, <3>2, FS_Subset, FS_CardinalityType
  <2>3. request # NoRequest => Gathered'
    BY <2>1, GatheredStays DEF QuietInv, Asked
  <2>4. heard' \in 0..Len(sent)
    BY <2>1
  <2>5. \A c \in Calls : calls[c].state = "asked" => calls[c].hadSensors <= Cardinality(ACTIVE_SENSORS')
    BY <2>2 DEF QuietInv
  <2> QED
    BY <2>1, <2>2, <2>3, <2>4, <2>5 DEF QuietInv
<1>3a. ASSUME NEW no \in 1..Len(sent), ListenerEnds(no) PROVE QuietInv'
  <2>1. UNCHANGED <<calls, request, ALERT_HISTORY, arrived, ACTIVE_SENSORS, heard, sent>>
    BY <1>3a DEF ListenerEnds, pageVars
  <2>2. sent \in Seq(Datagrams) /\ Len(sent) <= Len(sent)
    BY DEF QuietInv
  <2> QED
    BY <2>1, <2>2, Apart
<1>4. CASE Handler
  BY <1>4, HandlerKeeps
<1>5. ASSUME NEW c \in Calls, Poll(c) PROVE QuietInv'
  <2> DEFINE r == [state |-> "asked", asked |-> Len(arrived), hadSensors |-> Cardinality(ACTIVE_SENSORS)]
  <2>1. calls[c].state # "asked" /\ UNCHANGED <<request, sent, listenerVars>> /\ calls' = [calls EXCEPT ![c] = r]
    BY <1>5 DEF Poll, Idle, netVars
  <2>2. /\ r.asked \in Nat /\ r.asked <= Len(arrived)
        /\ r.hadSensors \in Nat /\ r.hadSensors <= Cardinality(ACTIVE_SENSORS)
    BY FS_CardinalityType DEF QuietInv
  <2> HIDE DEF r
  <2> QED
    BY <2>1, <2>2, OtherCall
<1>6. ASSUME NEW c \in Calls, Receive(c) \/ Fail(c) PROVE QuietInv'
  <2>1. calls[c].state # "asked" /\ UNCHANGED <<request, sent, listenerVars>> /\ calls' = [calls EXCEPT ![c] = Idle]
    BY <1>6 DEF Receive, Fail, CallEnds, netVars
  <2>2. Idle.state # "asked"
    BY DEF Idle
  <2> QED
    BY <2>1, <2>2, OtherCall
<1>7. CASE UNCHANGED vars
  BY <1>7, Apart DEF vars, netVars, pageVars, listenerVars, QuietInv
<1> QED
  BY <1>1, <1>2, <1>3, <1>3a, <1>4, <1>5, <1>6, <1>7 DEF Next, Listener, Page

(* A request is refused only because the history moved under it; otherwise  *)
(* every figure of its answer is exact (siem.py:181-222).                   *)
THEOREM QuietRequestsExact == Spec => QuietAnswerExact
<1> DEFINE Answered(c) ==
               /\ calls'[c].state = "answered"
               /\ calls'[c].alerts = ALERT_HISTORY /\ calls'[c].total = Len(ALERT_HISTORY)
               /\ \A i \in 1..Len(Passes) : Exact(Passes[i])
           Served == \A c \in Calls :
               calls[c].state = "asked" /\ calls'[c].state # "asked" /\ Quiet(c) => Answered(c)
<1>1. QuietInv /\ [Next]_vars => [Served]_vars
  <2> SUFFICES ASSUME QuietInv, Next, NEW c \in Calls,
                      calls[c].state = "asked", calls'[c].state # "asked", Quiet(c)
               PROVE  Answered(c)
    OBVIOUS
  <2>0. DOMAIN calls = Calls
    BY DEF QuietInv
  <2>1. SensorsCounted \/ PassEnds \/ SendJson
    <3>1. ASSUME NEW d \in Calls, Page(d) PROVE FALSE
      <4>1. calls[d].state # "asked" => calls'[c] = calls[c]
        BY <2>0, <3>1 DEF Page, Poll, Receive, Fail
      <4>2. calls[d].state # "asked"
        BY <3>1 DEF Page, Poll, Receive, Fail, Idle
      <4> QED
        BY <4>1, <4>2
    <3>2. CASE UNCHANGED calls
      BY <3>2
    <3> QED
      BY <3>1, <3>2 DEF Next, SendLog, Listener, Hear, ListenerEnds, Enter,
         Handler, TakeRequest, PassBegins, Total, pageVars
  <2>2. request.at # "none" /\ request # NoRequest
    BY <2>1 DEF SensorsCounted, PassEnds, SendJson, NoRequest
  <2>3. Gathered
    BY <2>2 DEF QuietInv
  <2>4. request.call = c
    BY <2>0, <2>1, <2>3 DEF SensorsCounted, PassEnds, SendJson, Abort, Gathered, pageVars
  <2>5. Asked = calls[c] /\ StillQuiet /\ Cardinality(ACTIVE_SENSORS) = Asked.hadSensors
    BY <2>4 DEF Asked, StillQuiet, Quiet
  <2>6. ASSUME SensorsCounted PROVE FALSE
    <3>1. request.known = ACTIVE_SENSORS
      BY <2>2, <2>5, SmallerKnown
    <3> QED
      BY <2>6, <3>1 DEF SensorsCounted, pageVars
  <2>7. ASSUME PassEnds PROVE FALSE
    <3>1. request.at = "walking" /\ (Len(arrived) # request.walk \/ UNCHANGED calls)
      BY <2>7 DEF PassEnds, pageVars
    <3>2. /\ request.walk \in Nat /\ Len(arrived) \in Nat /\ Asked.asked = Len(arrived)
          /\ Asked.asked <= request.walk /\ request.walk <= Len(arrived)
      BY <2>3, <2>5, <3>1 DEF Gathered, StillQuiet, QuietInv
    <3> QED
      BY <3>1, <3>2
  <2>8. SendJson
    BY <2>1, <2>6, <2>7
  <2> QED
    BY <2>0, <2>3, <2>4, <2>5, <2>8 DEF SendJson, Gathered
<1>2. QED
  BY <1>1, QuietStart, QuietStep, PTL DEF Spec, QuietAnswerExact

--------------------------------------------------------------------------------
(* Every figure of the answer at hand is that of some moment, and the       *)
(* moments follow the order in which the handler takes the figures.         *)
Moments(moment) ==
    /\ moment \in [1..Len(Passes) + 2 -> 0..Len(arrived)]
    /\ \A i, j \in DOMAIN moment : i <= j => moment[i] <= moment[j]
    /\ \A i \in 1..Len(Passes) :
          i < request.next => request.counts[Passes[i]] = Counted(Window(moment[i]), Passes[i])
    /\ request.at = "list" => request.total = Len(Window(moment[Len(Passes) + 1]))

Dated == request.next <= Len(Passes) + 1 /\ \E moment : Moments(moment)

PastInv ==
    /\ listening \in BOOLEAN
    /\ wire \in [1..Len(sent) -> 0..2]
    /\ ACTIVE_SENSORS \subseteq {d.sensor : d \in Datagrams}
    /\ arrived \in Seq(1..Len(sent))
    /\ ALERT_HISTORY = Window(Len(arrived))
    /\ \A c \in Calls : calls[c].state \in {"idle", "asked", "answered", "failed"}
    /\ page.status \in {"operational", "unavailable"}
    /\ request # NoRequest => Dated

LEMMA WindowType ==
    ASSUME NEW S, arrived \in Seq(S), NEW version \in 0..Len(arrived)
    PROVE  /\ Window(version) \in Seq(S)
           /\ Len(Window(version)) = IF version > MAX_ALERTS THEN MAX_ALERTS ELSE version
<1> DEFINE n == IF version > MAX_ALERTS THEN MAX_ALERTS ELSE version
<1>1. n \in Nat /\ n <= version
  BY SiemAssumption
<1> HIDE DEF n
<1>2. \A i \in 1..n : version - i + 1 \in 1..Len(arrived)
  BY <1>1
<1>3. Window(version) = [i \in 1..n |-> arrived[version - i + 1]]
  BY DEF Window, n
<1>4. \A i \in 1..n : arrived[version - i + 1] \in S
  BY <1>2
<1> QED
  BY <1>1, <1>3, <1>4 DEF n

(* What the history was at a moment does not change any more.               *)
LEMMA PastStays ==
    ASSUME arrived \in Seq(1..Len(sent)), Len(arrived) <= Len(arrived'),
           \A k \in 1..Len(arrived) : arrived'[k] = arrived[k],
           \A no \in 1..Len(sent) : sent'[no] = sent[no],
           NEW version \in 0..Len(arrived)
    PROVE  /\ Window(version)' = Window(version)
           /\ \A pass : Counted(Window(version), pass)' = Counted(Window(version), pass)
<1> DEFINE n == IF version > MAX_ALERTS THEN MAX_ALERTS ELSE version
<1>1. n \in Nat /\ n <= version
  BY SiemAssumption
<1>2. Window(version)' = [i \in 1..n |-> arrived'[version - i + 1]]
  BY DEF Window
<1>3. Window(version) = [i \in 1..n |-> arrived[version - i + 1]]
  BY DEF Window
<1> HIDE DEF n
<1>4. \A i \in 1..n : arrived'[version - i + 1] = arrived[version - i + 1]
  BY <1>1
<1>5. Window(version)' = Window(version)
  BY <1>2, <1>3, <1>4
<1>6. Window(version) \in Seq(1..Len(sent))
  BY WindowType
<1>7. ASSUME NEW pass PROVE Counted(Window(version), pass)' = Counted(Window(version), pass)
  <2>1. \A no \in 1..Len(sent) : CountedUnder(no, pass)' <=> CountedUnder(no, pass)
    BY DEF CountedUnder, Words
  <2>2. \A i \in 1..Len(Window(version)) : Window(version)[i] \in 1..Len(sent)
    BY <1>6
  <2>3. {i \in 1..Len(Window(version)) : CountedUnder(Window(version)[i], pass)}'
            = {i \in 1..Len(Window(version)) : CountedUnder(Window(version)[i], pass)}
    BY <1>5, <2>1, <2>2 DEF CountedUnder, Words
  <2> QED
    BY <2>3 DEF Counted
<1> QED
  BY <1>5, <1>7

(* appendleft with maxlen: the window moves on by one.                      *)
LEMMA WindowMoves ==
    ASSUME arrived \in Seq(1..Len(sent)), ALERT_HISTORY = Window(Len(arrived)),
           heard \in 1..Len(sent), arrived' = Append(arrived, heard), ALERT_HISTORY' = Entered(heard)
    PROVE  ALERT_HISTORY' = Window(Len(arrived))'
<1> DEFINE v == Len(arrived)
           n == IF v > MAX_ALERTS THEN MAX_ALERTS ELSE v
           m == IF v + 1 > MAX_ALERTS THEN MAX_ALERTS ELSE v + 1
           longer == <<heard>> \o ALERT_HISTORY
<1>1. /\ ALERT_HISTORY \in Seq(1..Len(sent)) /\ Len(ALERT_HISTORY) = n
      /\ \A i \in 1..n : ALERT_HISTORY[i] = arrived[v - i + 1]
  <2>1. v \in 0..Len(arrived)
    OBVIOUS
  <2>2. ALERT_HISTORY \in Seq(1..Len(sent)) /\ Len(ALERT_HISTORY) = n
    BY <2>1, WindowType
  <2>3. ALERT_HISTORY = [i \in 1..n |-> arrived[v - i + 1]]
    BY DEF Window
  <2> HIDE DEF n, v
  <2> QED
    BY <2>2, <2>3
<1>2. n \in Nat /\ v \in Nat /\ m \in Nat /\ m = (IF n + 1 > MAX_ALERTS THEN n ELSE n + 1) /\ MAX_ALERTS \in Nat
  BY SiemAssumption
<1>3. Window(Len(arrived))' = [i \in 1..m |-> arrived'[v + 1 - i + 1]]
  <2> DEFINE w == Len(arrived')
  <2>1. w = v + 1 /\ w \in Nat
    OBVIOUS
  <2>2. Window(Len(arrived))'
            = [i \in 1..(IF w > MAX_ALERTS THEN MAX_ALERTS ELSE w) |-> arrived'[w - i + 1]]
    BY DEF Window
  <2>3. (IF w > MAX_ALERTS THEN MAX_ALERTS ELSE w) = m
    <3> HIDE DEF w, v
    <3> QED
      BY <2>1
  <2>4. \A i \in 1..m : arrived'[w - i + 1] = arrived'[v + 1 - i + 1]
    <3> HIDE DEF w, v, m
    <3>1. \A i \in Int : w - i + 1 = v + 1 - i + 1
      BY <1>2, <2>1
    <3>2. \A i \in 1..m : i \in Int
      OBVIOUS
    <3> QED
      BY <3>1, <3>2, Zenon
  <2>5. Window(Len(arrived))' = [i \in 1..m |-> arrived'[w - i + 1]]
    BY <2>2, <2>3, Zenon
  <2> HIDE DEF w, v, m
  <2> QED
    BY <2>4, <2>5
<1> HIDE DEF v, m, n
<1>4. \A i \in 1..m : arrived'[v + 1 - i + 1] = longer[i]
  <2> SUFFICES ASSUME NEW i \in 1..m PROVE arrived'[v + 1 - i + 1] = longer[i]
    OBVIOUS
  <2>0. m <= n + 1 /\ n <= v
    BY <1>2, SiemAssumption DEF n, v
  <2>1. CASE i = 1
    BY <1>1, <1>2, <2>1 DEF v
  <2>2. CASE i # 1
    <3>1. i - 1 \in 1..n /\ v - (i - 1) + 1 \in 1..v
      BY <1>2, <2>0, <2>2
    <3>2. longer[i] = ALERT_HISTORY[i - 1]
      BY <1>1, <3>1
    <3>3. ALERT_HISTORY[i - 1] = arrived[v - (i - 1) + 1]
      BY <1>1, <3>1
    <3>4. arrived'[v + 1 - i + 1] = arrived[v - (i - 1) + 1]
      BY <1>2, <3>1 DEF v
    <3> QED
      BY <3>2, <3>3, <3>4
  <2> QED
    BY <2>1, <2>2
<1>5. longer \in Seq(1..Len(sent)) /\ Len(longer) = n + 1
  BY <1>1, <1>2
<1>6. Entered(heard) = [i \in 1..m |-> longer[i]]
  <2>1. CASE n + 1 > MAX_ALERTS
    <3>1. Entered(heard) = SubSeq(longer, 1, n) /\ m = n
      BY <1>2, <1>5, <2>1 DEF Entered, Front
    <3> QED
      BY <1>2, <1>5, <3>1, SubSeqProperties
  <2>2. CASE ~(n + 1 > MAX_ALERTS)
    <3>1. Entered(heard) = longer /\ m = n + 1
      BY <1>2, <1>5, <2>2 DEF Entered
    <3> QED
      BY <1>2, <1>5, <3>1
  <2> QED
    BY <2>1, <2>2
<1> HIDE DEF longer
<1> QED
  BY <1>3, <1>4, <1>6

LEMMA PastStart == Init => PastInv
<1> SUFFICES ASSUME Init PROVE PastInv
  OBVIOUS
<1>1. ALERT_HISTORY = Window(Len(arrived))
  BY SiemAssumption DEF Init, Window
<1> QED
  BY <1>1 DEF Init, PastInv, Idle

(* The figures taken so far keep their moments, whatever happens.           *)
LEMMA DatedStays ==
    ASSUME QuietInv, PastInv, request # NoRequest, UNCHANGED request,
           Len(arrived) <= Len(arrived'), arrived' \in Seq(Nat),
           \A k \in 1..Len(arrived) : arrived'[k] = arrived[k],
           \A no \in 1..Len(sent) : sent'[no] = sent[no]
    PROVE  Dated'
<1>1. request.next <= Len(Passes) + 1
  BY DEF PastInv, Dated
<1>2. PICK moment : Moments(moment)
  BY DEF PastInv, Dated
<1>3. \A i \in 1..Len(Passes) + 2 : moment[i] \in 0..Len(arrived)
  BY <1>2 DEF Moments
<1>4. /\ \A v \in 0..Len(arrived) : Window(v)' = Window(v)
      /\ \A v \in 0..Len(arrived) : \A pass : Counted(Window(v), pass)' = Counted(Window(v), pass)
  BY PastStays DEF PastInv
<1>5. moment \in [1..Len(Passes) + 2 -> 0..Len(arrived')]
  BY <1>2 DEF Moments
<1>6. /\ \A i \in 1..Len(Passes) : moment[i] \in 0..Len(arrived)
      /\ moment[Len(Passes) + 1] \in 0..Len(arrived)
  <2>1. Len(Passes) \in Nat
    BY SiemAssumption
  <2> QED
    BY <1>3, <2>1
<1>7. /\ \A i \in 1..Len(Passes) : Window(moment[i])' = Window(moment[i])
          /\ Counted(Window(moment[i]), Passes[i])' = Counted(Window(moment[i]), Passes[i])
      /\ Window(moment[Len(Passes) + 1])' = Window(moment[Len(Passes) + 1])
  BY <1>4, <1>6, Zenon
<1>8. Moments(moment)'
  BY <1>2, <1>5, <1>6, <1>7 DEF Moments
<1> QED
  BY <1>1, <1>8 DEF Dated

(* A field taken now is dated now.                                          *)
LEMMA NowDated ==
    ASSUME NEW moment, arrived \in Seq(Nat), NEW k \in 1..Len(Passes) + 2,
           moment \in [1..Len(Passes) + 2 -> 0..Len(arrived)],
           \A i, j \in DOMAIN moment : i <= j => moment[i] <= moment[j]
    PROVE  \E later \in [1..Len(Passes) + 2 -> 0..Len(arrived)] :
               /\ \A i, j \in DOMAIN later : i <= j => later[i] <= later[j]
               /\ \A i \in 1..Len(Passes) + 2 : later[i] = IF i < k THEN moment[i] ELSE Len(arrived)
<1> DEFINE later == [i \in 1..Len(Passes) + 2 |-> IF i < k THEN moment[i] ELSE Len(arrived)]
<1>1. later \in [1..Len(Passes) + 2 -> 0..Len(arrived)]
  BY SiemAssumption
<1>2. \A i, j \in DOMAIN later : i <= j => later[i] <= later[j]
  <2>1. DOMAIN later = 1..Len(Passes) + 2 /\ DOMAIN moment = 1..Len(Passes) + 2
    OBVIOUS
  <2>2. \A i \in 1..Len(Passes) + 2 : later[i] = IF i < k THEN moment[i] ELSE Len(arrived)
    OBVIOUS
  <2>3. /\ \A i \in 1..Len(Passes) + 2 : moment[i] \in Nat /\ moment[i] <= Len(arrived)
    OBVIOUS
  <2>4. Len(arrived) \in Nat /\ Len(Passes) \in Nat /\ k \in Nat
    BY SiemAssumption
  <2> HIDE DEF later
  <2> QED
    BY <2>1, <2>2, <2>3, <2>4
<1> QED
  BY <1>1, <1>2

LEMMA PastHandler ==
    ASSUME QuietInv, PastInv, Handler
    PROVE  PastInv'
<1>0. /\ Passes \in Seq(STRING) /\ Len(Passes) \in Nat
      /\ \A i, j \in 1..Len(Passes) : Passes[i] = Passes[j] => i = j
      /\ arrived \in Seq(Nat) /\ DOMAIN calls = Calls
  BY SiemAssumption DEF QuietInv
<1>a. arrived \in Seq(Nat)
  BY DEF QuietInv
<1>1. UNCHANGED <<sent, wire, listening, heard, ACTIVE_SENSORS, ALERT_HISTORY, arrived, page>>
  BY DEF Handler, TakeRequest, SensorsCounted, PassBegins, PassEnds, Total, SendJson, Abort,
         netVars, listenerVars, pageVars
<1>2. \A c \in Calls : calls'[c].state \in {"idle", "asked", "answered", "failed"}
  <2>1. ASSUME NEW r, calls' = [calls EXCEPT ![request.call] = r], r.state \in {"answered", "failed"}
        PROVE  \A c \in Calls : calls'[c].state \in {"idle", "asked", "answered", "failed"}
    BY <1>0, <2>1 DEF PastInv
  <2>2. CASE Abort
    <3>1. [state |-> "failed"].state = "failed"
      OBVIOUS
    <3> QED
      BY <2>1, <2>2, <3>1 DEF Abort
  <2>3. CASE SendJson
    <3> DEFINE r == [state |-> "answered", total |-> request.total, alerts |-> ALERT_HISTORY]
    <3>1. calls' = [calls EXCEPT ![request.call] = r] /\ r.state = "answered"
      BY <2>3 DEF SendJson
    <3> HIDE DEF r
    <3> QED
      BY <2>1, <3>1
  <2>4. CASE UNCHANGED calls
    BY <2>4 DEF PastInv
  <2> QED
    BY <2>2, <2>3, <2>4 DEF Handler, TakeRequest, SensorsCounted, PassBegins, PassEnds, Total, pageVars
<1>3. (ALERT_HISTORY = Window(Len(arrived)))'
  BY <1>1 DEF PastInv, Window
<1>4. \A moment : Moments(moment)' <=>
          /\ moment \in [1..Len(Passes) + 2 -> 0..Len(arrived)]
          /\ \A i, j \in DOMAIN moment : i <= j => moment[i] <= moment[j]
          /\ \A i \in 1..Len(Passes) :
                i < request'.next => request'.counts[Passes[i]] = Counted(Window(moment[i]), Passes[i])
          /\ request'.at = "list" => request'.total = Len(Window(moment[Len(Passes) + 1]))
  BY <1>1 DEF Moments, Window, Counted, CountedUnder, Words
<1>5. CASE request' = NoRequest
  BY <1>1, <1>2, <1>3, <1>5 DEF PastInv
<1>6. ASSUME Dated' PROVE PastInv'
  BY <1>1, <1>2, <1>3, <1>6 DEF PastInv
<1>7. ASSUME NEW c \in Calls, TakeRequest(c) PROVE Dated'
  <2>1. request'.next = 1 /\ request'.at = "sensors"
    BY <1>7 DEF TakeRequest
  <2> DEFINE moment == [i \in 1..Len(Passes) + 2 |-> 0]
  <2>2. /\ moment \in [1..Len(Passes) + 2 -> 0..Len(arrived)]
        /\ DOMAIN moment = 1..Len(Passes) + 2 /\ \A i \in 1..Len(Passes) + 2 : moment[i] = 0
    BY <1>0
  <2> HIDE DEF moment
  <2>3. Moments(moment)'
    BY <1>0, <1>4, <2>1, <2>2, SMTT(30)
  <2> QED
    BY <1>0, <2>1, <2>3 DEF Dated
<1>8. ASSUME SensorsCounted \/ PassBegins, request' # NoRequest PROVE Dated'
  <2>1. /\ request # NoRequest /\ request'.next = request.next /\ request'.counts = request.counts
        /\ request'.at # "list"
    <3>1. request.at # "none" /\ request # NoRequest
      BY <1>8 DEF SensorsCounted, PassBegins, NoRequest
    <3>2. DOMAIN request = {"at", "call", "known", "counts", "next", "walk", "total"}
      BY <3>1 DEF QuietInv, Gathered
    <3>3. \/ request' = [request EXCEPT !.at = "between"]
          \/ request' = [request EXCEPT !.walk = Len(arrived), !.at = "walking"]
      BY <1>8 DEF SensorsCounted, PassBegins, Abort
    <3> QED
      BY <3>1, <3>2, <3>3
  <2>2. PICK moment : Moments(moment)
    BY <2>1 DEF PastInv, Dated
  <2>3. Moments(moment)'
    BY <1>4, <2>1, <2>2 DEF Moments
  <2> QED
    BY <2>1, <2>3 DEF Dated, PastInv
<1>9. ASSUME PassEnds, request' # NoRequest PROVE Dated'
  <2> DEFINE pass == Passes[request.next]
             counts == [request.counts EXCEPT ![pass] = Counted(ALERT_HISTORY, pass)]
  <2>1. /\ request.at = "walking" /\ request # NoRequest
        /\ request' = [request EXCEPT !.counts = counts, !.next = @ + 1, !.walk = 0, !.at = "between"]
    BY <1>9 DEF PassEnds, Abort, NoRequest
  <2>2. Gathered
    BY <2>1 DEF QuietInv
  <2>3. request.next \in 1..Len(Passes) /\ pass \in Range(Passes)
    BY <1>0, <2>1, <2>2 DEF Gathered, Range
  <2>4. counts[pass] = Counted(ALERT_HISTORY, pass)
        /\ \A p \in Range(Passes) : p # pass => counts[p] = request.counts[p]
    BY <2>2, <2>3 DEF Gathered
  <2>5. /\ request'.counts = counts /\ request'.next = request.next + 1 /\ request'.at = "between"
    BY <2>1, <2>2 DEF Gathered
  <2>6. PICK moment : Moments(moment)
    BY <2>1 DEF PastInv, Dated
  <2>7. PICK later \in [1..Len(Passes) + 2 -> 0..Len(arrived)] :
               /\ \A i, j \in DOMAIN later : i <= j => later[i] <= later[j]
               /\ \A i \in 1..Len(Passes) + 2 : later[i] = IF i < request.next THEN moment[i] ELSE Len(arrived)
    <3>1. /\ moment \in [1..Len(Passes) + 2 -> 0..Len(arrived)]
          /\ \A i, j \in DOMAIN moment : i <= j => moment[i] <= moment[j]
      BY <2>6 DEF Moments
    <3>2. request.next \in 1..Len(Passes) + 2
      BY <1>0, <2>3
    <3> QED
      BY <1>a, <3>1, <3>2, NowDated
  <2>8. ASSUME NEW i \in 1..Len(Passes), i < request.next + 1
        PROVE  counts[Passes[i]] = Counted(Window(later[i]), Passes[i])
    <3>1. CASE i = request.next
      <4>1. Window(later[i]) = ALERT_HISTORY
        BY <1>0, <2>7, <3>1 DEF PastInv
      <4> QED
        BY <2>4, <3>1, <4>1
    <3>2. CASE i # request.next
      <4>1. i < request.next /\ later[i] = moment[i]
        BY <1>0, <2>3, <2>7, <2>8, <3>2
      <4>2. Passes[i] # pass /\ Passes[i] \in Range(Passes)
        BY <1>0, <2>3, <3>2 DEF Range
      <4> QED
        BY <2>4, <2>6, <4>1, <4>2 DEF Moments
    <3> QED
      BY <3>1, <3>2
  <2> HIDE DEF counts
  <2>9. Moments(later)'
    BY <1>4, <2>5, <2>7, <2>8
  <2> QED
    BY <2>3, <2>5, <2>9 DEF Dated
<1>10. ASSUME Total PROVE Dated'
  <2>1. /\ request.at = "between" /\ request # NoRequest /\ request.next > Len(Passes)
        /\ request' = [request EXCEPT !.total = Len(ALERT_HISTORY), !.at = "list"]
    BY <1>10 DEF Total, total_alerts, NoRequest
  <2>2. Gathered
    BY <2>1 DEF QuietInv
  <2>3. /\ request'.next = request.next /\ request'.counts = request.counts
        /\ request'.total = Len(ALERT_HISTORY)
    BY <2>1, <2>2 DEF Gathered
  <2>4. PICK moment : Moments(moment)
    BY <2>1 DEF PastInv, Dated
  <2>5. PICK later \in [1..Len(Passes) + 2 -> 0..Len(arrived)] :
               /\ \A i, j \in DOMAIN later : i <= j => later[i] <= later[j]
               /\ \A i \in 1..Len(Passes) + 2 : later[i] = IF i < Len(Passes) + 1 THEN moment[i] ELSE Len(arrived)
    <3>1. /\ moment \in [1..Len(Passes) + 2 -> 0..Len(arrived)]
          /\ \A i, j \in DOMAIN moment : i <= j => moment[i] <= moment[j]
      BY <2>4 DEF Moments
    <3>2. Len(Passes) + 1 \in 1..Len(Passes) + 2
      BY <1>0
    <3> QED
      BY <1>a, <3>1, <3>2, NowDated
  <2>6. Window(later[Len(Passes) + 1]) = ALERT_HISTORY
    <3>1. later[Len(Passes) + 1] = Len(arrived)
      BY <1>0, <2>5
    <3> QED
      BY <3>1, Zenon DEF PastInv
  <2>7. \A i \in 1..Len(Passes) : later[i] = moment[i]
    BY <1>0, <2>5
  <2>8. \A i \in 1..Len(Passes) : i < request.next =>
            request.counts[Passes[i]] = Counted(Window(later[i]), Passes[i])
    BY <2>4, <2>7 DEF Moments
  <2>9. Moments(later)'
    BY <1>4, <2>3, <2>5, <2>6, <2>8
  <2> QED
    BY <2>1, <2>3, <2>9 DEF Dated, PastInv
<1>11. CASE SendJson
  BY <1>5, <1>11 DEF SendJson
<1> QED
  BY <1>5, <1>6, <1>7, <1>8, <1>9, <1>10, <1>11 DEF Handler

LEMMA PastStep == QuietInv /\ PastInv /\ [Next]_vars => PastInv'
<1> SUFFICES ASSUME QuietInv, PastInv, [Next]_vars PROVE PastInv'
  OBVIOUS
<1>0. /\ arrived \in Seq(1..Len(sent)) /\ arrived \in Seq(Nat) /\ sent \in Seq(Datagrams)
      /\ heard \in 0..Len(sent) /\ DOMAIN calls = Calls
  BY DEF PastInv, QuietInv
<1>1. ASSUME UNCHANGED <<arrived, ALERT_HISTORY, request>>,
             sent' \in Seq(Datagrams), Len(sent) <= Len(sent'),
             \A no \in 1..Len(sent) : sent'[no] = sent[no]
      PROVE  /\ arrived' \in Seq(1..Len(sent')) /\ ALERT_HISTORY' = Window(Len(arrived))'
             /\ (request' # NoRequest => Dated')
  <2>1. arrived' \in Seq(1..Len(sent'))
    BY <1>0, <1>1
  <2>2. ALERT_HISTORY' = Window(Len(arrived))'
    BY <1>1 DEF PastInv, Window
  <2>3. request' # NoRequest => Dated'
    BY <1>0, <1>1, DatedStays
  <2> QED
    BY <2>1, <2>2, <2>3
<1>2. ASSUME NEW d \in Datagrams, SendLog(d) PROVE PastInv'
  <2>1. /\ sent' = Append(sent, d)
        /\ UNCHANGED <<calls, request, listening, ALERT_HISTORY, arrived, ACTIVE_SENSORS, page>>
    BY <1>2 DEF SendLog, listenerVars, pageVars
  <2>2. PICK copies \in 0..2 : wire' = Append(wire, copies)
    BY <1>2 DEF SendLog
  <2>3. wire \in Seq(0..2) /\ Len(wire) = Len(sent)
    BY <1>0 DEF PastInv
  <2>4. wire' \in [1..Len(sent') -> 0..2]
    <3>1. wire' \in Seq(0..2) /\ Len(wire') = Len(sent) + 1 /\ Len(sent') = Len(sent) + 1
      BY <1>0, <2>1, <2>2, <2>3
    <3> QED
      BY <3>1
  <2>5. /\ sent' \in Seq(Datagrams) /\ Len(sent) <= Len(sent')
        /\ \A no \in 1..Len(sent) : sent'[no] = sent[no]
    BY <1>0, <2>1
  <2> QED
    BY <1>1, <2>1, <2>4, <2>5 DEF PastInv
<1>3. CASE Enter
  <2>1. /\ arrived' = Append(arrived, heard) /\ heard \in 1..Len(sent) /\ ALERT_HISTORY' = Entered(heard)
        /\ UNCHANGED <<sent, wire, listening, ACTIVE_SENSORS, request, calls, page>>
    BY <1>0, <1>3 DEF Enter, netVars, pageVars, NoOne
  <2>2. ALERT_HISTORY' = Window(Len(arrived))'
    BY <1>0, <2>1, WindowMoves DEF PastInv
  <2>3. /\ arrived' \in Seq(1..Len(sent)) /\ Len(arrived) <= Len(arrived') /\ arrived' \in Seq(Nat)
        /\ \A k \in 1..Len(arrived) : arrived'[k] = arrived[k]
    BY <1>0, <2>1
  <2>4. request # NoRequest => Dated'
    BY <2>1, <2>3, DatedStays
  <2> QED
    BY <2>1, <2>2, <2>3, <2>4 DEF PastInv
<1>4. ASSUME NEW no \in 1..Len(sent), Hear(no) PROVE PastInv'
  <2>1. /\ wire[no] > 0 /\ wire' = [wire EXCEPT ![no] = @ - 1]
        /\ UNCHANGED <<listening, ALERT_HISTORY, arrived, request, calls, sent, page>>
        /\ ACTIVE_SENSORS' = ACTIVE_SENSORS \cup {sent[no].sensor}
    BY <1>4 DEF Hear, pageVars
  <2>2. wire' \in [1..Len(sent) -> 0..2]
    BY <2>1 DEF PastInv
  <2>3. sent[no] \in Datagrams
    BY <1>0
  <2> QED
    BY <1>0, <1>1, <2>1, <2>2, <2>3 DEF PastInv
<1>4a. ASSUME NEW no \in 1..Len(sent), ListenerEnds(no) PROVE PastInv'
  <2>1. /\ wire[no] > 0 /\ wire' = [wire EXCEPT ![no] = @ - 1] /\ listening' = FALSE
        /\ UNCHANGED <<ACTIVE_SENSORS, ALERT_HISTORY, arrived, request, calls, sent, page>>
    BY <1>4a DEF ListenerEnds, pageVars
  <2>2. wire' \in [1..Len(sent) -> 0..2]
    BY <2>1 DEF PastInv
  <2>3. /\ arrived' \in Seq(1..Len(sent')) /\ ALERT_HISTORY' = Window(Len(arrived))'
        /\ (request' # NoRequest => Dated')
    BY <1>0, <1>1, <2>1
  <2> QED
    BY <2>1, <2>2, <2>3 DEF PastInv
<1>5. CASE Handler
  BY <1>5, PastHandler
<1>6. ASSUME NEW c \in Calls, Page(c) PROVE PastInv'
  <2>1. UNCHANGED <<sent, wire, listening, ACTIVE_SENSORS, ALERT_HISTORY, arrived, request>>
    BY <1>6 DEF Page, Poll, Receive, Fail, netVars, listenerVars
  <2>2. \A d \in Calls : calls'[d].state \in {"idle", "asked", "answered", "failed"}
    <3>1. PICK r : calls' = [calls EXCEPT ![c] = r] /\ r.state \in {"idle", "asked"}
      <4>1. Idle.state = "idle"
        BY DEF Idle
      <4>2. [state |-> "asked", asked |-> Len(arrived), hadSensors |-> Cardinality(ACTIVE_SENSORS)].state = "asked"
        OBVIOUS
      <4>3. \/ calls' = [calls EXCEPT ![c] = Idle]
            \/ calls' = [calls EXCEPT ![c] =
                 [state |-> "asked", asked |-> Len(arrived), hadSensors |-> Cardinality(ACTIVE_SENSORS)]]
        BY <1>6 DEF Page, Poll, Receive, Fail, CallEnds
      <4> QED
        BY <4>1, <4>2, <4>3
    <3> QED
      BY <1>0, <3>1 DEF PastInv
  <2>3. page'.status \in {"operational", "unavailable"}
    <3>1. CASE Poll(c)
      BY <3>1 DEF Poll, PastInv
    <3>2. CASE Receive(c)
      BY <3>2 DEF Receive
    <3>3. CASE Fail(c)
      BY <3>3 DEF Fail, PastInv
    <3> QED
      BY <1>6, <3>1, <3>2, <3>3 DEF Page
  <2> QED
    BY <1>0, <1>1, <2>1, <2>2, <2>3 DEF PastInv
<1>7. CASE UNCHANGED vars
  <2>1. UNCHANGED <<sent, wire, listening, ACTIVE_SENSORS, ALERT_HISTORY, arrived, request, calls, page>>
    BY <1>7 DEF vars, netVars, listenerVars, pageVars
  <2> QED
    BY <1>0, <1>1, <2>1 DEF PastInv
<1> QED
  BY <1>2, <1>3, <1>4, <1>4a, <1>5, <1>6, <1>7 DEF Next, Listener

(* Whatever arrives while the handler walks the history, every figure of    *)
(* the answer it sends was true at one moment, the moments follow the order *)
(* of the code, and the alerts are those of the last (siem.py:181-222).     *)
THEOREM AnswersAreHistory == Spec => []AnswersFromThePast
<1>1. QuietInv /\ PastInv => AnswersFromThePast
  <2> SUFFICES ASSUME QuietInv, PastInv PROVE TypeOK /\ FiguresFromThePast
    BY DEF AnswersFromThePast
  <2>0. /\ arrived \in Seq(Nat) /\ arrived \in Seq(1..Len(sent)) /\ Len(arrived) \in Nat
        /\ Passes \in Seq(STRING) /\ Len(Passes) \in Nat
    BY SiemAssumption DEF QuietInv, PastInv
  <2>1. Len(ALERT_HISTORY) <= MAX_ALERTS
    <3>1. Len(ALERT_HISTORY) = IF Len(arrived) > MAX_ALERTS THEN MAX_ALERTS ELSE Len(arrived)
      BY <2>0, WindowType DEF PastInv
    <3> QED
      BY <2>0, <3>1, SiemAssumption
  <2>2. request.at \in {"none", "sensors", "between", "walking", "list"}
    BY DEF QuietInv, Gathered, NoRequest
  <2>3. TypeOK
    BY <2>1, <2>2 DEF TypeOK, QuietInv, PastInv
  <2>4. ASSUME request.at = "list"
        PROVE  \E moment \in [1..Len(Passes) + 2 -> 0..Len(arrived)] :
                   /\ \A i, j \in DOMAIN moment : i <= j => moment[i] <= moment[j]
                   /\ \A i \in 1..Len(Passes) :
                         request.counts[Passes[i]] = Counted(Window(moment[i]), Passes[i])
                   /\ request.total = Len(Window(moment[Len(Passes) + 1]))
                   /\ ALERT_HISTORY = Window(moment[Len(Passes) + 2])
    <3>1. request # NoRequest
      BY <2>4 DEF NoRequest
    <3>2. request.next \in Nat /\ request.next > Len(Passes)
      BY <2>4, <3>1 DEF QuietInv, Gathered
    <3>3. PICK moment : Moments(moment)
      BY <3>1 DEF PastInv, Dated
    <3>4. /\ moment \in [1..Len(Passes) + 2 -> 0..Len(arrived)]
          /\ \A i, j \in DOMAIN moment : i <= j => moment[i] <= moment[j]
          /\ request.total = Len(Window(moment[Len(Passes) + 1]))
      BY <2>4, <3>3 DEF Moments
    <3>5. Len(Passes) + 2 \in 1..Len(Passes) + 2
      BY <2>0
    <3>6. PICK later \in [1..Len(Passes) + 2 -> 0..Len(arrived)] :
              /\ \A i, j \in DOMAIN later : i <= j => later[i] <= later[j]
              /\ \A i \in 1..Len(Passes) + 2 :
                    later[i] = IF i < Len(Passes) + 2 THEN moment[i] ELSE Len(arrived)
      BY <2>0, <3>4, <3>5, NowDated
    <3>7. later[Len(Passes) + 2] = Len(arrived) /\ later[Len(Passes) + 1] = moment[Len(Passes) + 1]
      BY <2>0, <3>6, SMTT(30)
    <3>8. \A i \in 1..Len(Passes) : later[i] = moment[i] /\ i < request.next
      BY <2>0, <3>2, <3>6
    <3>9. \A i \in 1..Len(Passes) : request.counts[Passes[i]] = Counted(Window(later[i]), Passes[i])
      BY <3>3, <3>8 DEF Moments
    <3>10. ALERT_HISTORY = Window(later[Len(Passes) + 2])
      BY <3>7 DEF PastInv
    <3> QED
      BY <3>4, <3>6, <3>7, <3>9, <3>10
  <2> QED
    BY <2>3, <2>4 DEF FiguresFromThePast
<1> QED
  BY <1>1, QuietStart, QuietStep, PastStart, PastStep, PTL DEF Spec
================================================================================
