------------------------------ MODULE PacketStore ------------------------------
(***************************************************************************)
(* utils/packet_store.py: the ring of recent packets and the live figures, *)
(* written by the analyzer thread and read by the HTTP handler, which      *)
(* serves one request at a time (socketserver.TCPServer).                  *)
(*                                                                         *)
(* A packet is its number, protocol and source.  A live figure is the      *)
(* number of the update that wrote it, so that a mixture of two updates    *)
(* can be told apart.  add() is one critical section of three steps;       *)
(* update_stats() stores five attributes and takes no lock;                *)
(* stats_snapshot() reads them one by one while it holds the lock.         *)
(***************************************************************************)
EXTENDS Integers, Sequences, FiniteSets

CONSTANTS
    Capacity,       (* maxlen of the ring                                  *)
    Protos,         (* keys of proto_counts                                *)
    Addresses,      (* source addresses                                    *)
    Limit,          (* limit of a request for packets                      *)
    MaxSeen,        (* bound on the packets recorded                       *)
    MaxUpdates      (* bound on the updates of the live figures            *)

ASSUME PacketStoreAssumption ==
    Capacity \in Nat \ {0} /\ Limit \in Nat /\ MaxSeen \in Nat /\ MaxUpdates \in Nat

Analyzer == "analyzer"
Handler == "handler"
Nobody == "nobody"

(* The live figures in the order update_stats stores and a snapshot reads them. *)
Figures == <<"pps", "mean", "z_score", "ddos_candidate", "ddos_active">>

VARIABLES
    lock,           (* holder of _lock                                     *)
    packets,        (* the ring, oldest first                              *)
    seq, total_seen,
    proto_counts, talkers,
    recorded,       (* history: every packet numbered so far               *)
    figures,        (* figure -> the update that stored it                 *)
    updates,        (* history: updates begun                              *)
    writer, record, (* the analyzer: where it is, the record it adds       *)
    stored,         (* the analyzer: figures of this update stored so far  *)
    reader,         (* the handler: where it is                            *)
    snapshot,       (* what the handler has gathered for its answer        *)
    floor           (* history: updates complete when the snapshot began   *)

ringVars == <<packets, seq, total_seen, proto_counts, talkers, recorded>>
figureVars == <<figures, updates>>
writerVars == <<writer, record, stored>>
readerVars == <<reader, snapshot, floor>>
vars == <<lock, ringVars, figureVars, writerVars, readerVars>>

Packet == [no : 1..MaxSeen, proto : Protos, src : Addresses]
NoRecord == [no |-> 0]
NothingRead == [figures |-> <<>>, packets |-> <<>>, buffered |-> 0, total |-> 0,
                proto_counts |-> [p \in Protos |-> 0], talkers |-> [a \in Addresses |-> 0]]

(* The ring never holds more than Capacity packets, and the reader's and    *)
(* the writer's positions are those of the methods.                         *)
TypeOK ==
    /\ lock \in {Nobody, Analyzer, Handler}
    /\ packets \in Seq(Packet) /\ Len(packets) <= Capacity
    /\ seq \in 0..MaxSeen /\ total_seen \in 0..MaxSeen
    /\ proto_counts \in [Protos -> 0..MaxSeen]
    /\ talkers \in [Addresses -> 0..MaxSeen]
    /\ recorded \in Seq(Packet)
    /\ figures \in [1..Len(Figures) -> 0..MaxUpdates]
    /\ updates \in 0..MaxUpdates
    /\ writer \in {"idle", "append", "count", "update"} /\ stored \in 0..Len(Figures)
    /\ record \in Packet \cup {NoRecord}
    /\ reader \in {"idle", "buffered", "total", "figures", "counters", "talkers", "sent"}
    /\ floor \in 0..MaxUpdates

Init ==
    /\ lock = Nobody
    /\ packets = <<>>
    /\ seq = 0 /\ total_seen = 0
    /\ proto_counts = [p \in Protos |-> 0]
    /\ talkers = [a \in Addresses |-> 0]
    /\ recorded = <<>>
    /\ figures = [i \in 1..Len(Figures) |-> 0]
    /\ updates = 0
    /\ writer = "idle" /\ record = NoRecord /\ stored = 0
    /\ reader = "idle" /\ snapshot = NothingRead /\ floor = 0

--------------------------------------------------------------------------------
(* add: with the lock held, number the record ...                           *)
AddNumbers(proto, src) ==
    /\ writer = "idle" /\ lock = Nobody
    /\ seq < MaxSeen
    /\ lock' = Analyzer
    /\ seq' = seq + 1
    /\ total_seen' = total_seen + 1
    /\ record' = [no |-> seq + 1, proto |-> proto, src |-> src]
    /\ recorded' = Append(recorded, record')
    /\ writer' = "append"
    /\ UNCHANGED <<packets, proto_counts, talkers, stored, figureVars, readerVars>>

(* Mutants: a ring without a bound; the lock is freed before the counting.  *)
AddAppends_Untrimmed ==
    /\ writer = "append"
    /\ packets' = Append(packets, record)
    /\ writer' = "count"
    /\ UNCHANGED <<lock, seq, total_seen, proto_counts, talkers, recorded, record, stored, figureVars, readerVars>>

AddAppends_Unlocks ==
    /\ writer = "append"
    /\ packets' = Append(packets, record)
    /\ lock' = Nobody
    /\ writer' = "count"
    /\ UNCHANGED <<seq, total_seen, proto_counts, talkers, recorded, record, stored, figureVars, readerVars>>

(* ... append it, the oldest making room ...                                *)
AddAppends ==
    /\ writer = "append"
    /\ packets' = IF Len(packets) = Capacity
                  THEN Append(Tail(packets), record)
                  ELSE Append(packets, record)
    /\ writer' = "count"
    /\ UNCHANGED <<lock, seq, total_seen, proto_counts, talkers, recorded, record, stored, figureVars, readerVars>>

(* ... and count it.                                                        *)
AddCounts ==
    /\ writer = "count"
    /\ proto_counts' = [proto_counts EXCEPT ![record.proto] = @ + 1]
    /\ talkers' = [talkers EXCEPT ![record.src] = @ + 1]
    /\ lock' = Nobody
    /\ record' = NoRecord
    /\ writer' = "idle"
    /\ UNCHANGED <<packets, seq, total_seen, recorded, stored, figureVars, readerVars>>

(* update_stats: five assignments without the lock.                         *)
UpdateBegins ==
    /\ writer = "idle"
    /\ updates < MaxUpdates
    /\ updates' = updates + 1
    /\ figures' = [figures EXCEPT ![1] = updates + 1]
    /\ writer' = "update"
    /\ stored' = 1
    /\ UNCHANGED <<lock, ringVars, record, readerVars>>

(* Mutant: the last figure is set by the first update and then forgotten.   *)
UpdateContinues_Sticky ==
    /\ writer = "update"
    /\ figures' = [figures EXCEPT ![stored + 1] = IF stored + 1 = Len(Figures) /\ @ > 0 THEN @ ELSE updates]
    /\ stored' = stored + 1
    /\ writer' = IF stored' = Len(Figures) THEN "idle" ELSE "update"
    /\ UNCHANGED <<lock, ringVars, updates, record, readerVars>>

UpdateContinues ==
    /\ writer = "update"
    /\ figures' = [figures EXCEPT ![stored + 1] = updates]
    /\ stored' = stored + 1
    /\ writer' = IF stored' = Len(Figures) THEN "idle" ELSE "update"
    /\ UNCHANGED <<lock, ringVars, updates, record, readerVars>>

--------------------------------------------------------------------------------
ReaderUnchanged == UNCHANGED <<ringVars, figureVars, writerVars>>

(* GET /api/packets: three calls, each with a critical section of its own.  *)
(* get_recent copies the ring, filters the copy and turns it round; the     *)
(* filters by protocol and text are PacketFeed's.                           *)
Later(after) == {i \in 1..Len(packets) : packets[i].no > after}

Newest(after) ==
    LET later == Later(after)
        found == Cardinality(later)
        Behind(i) == Cardinality({j \in later : j > i})
    IN [k \in 1..(IF found < Limit THEN found ELSE Limit) |->
          packets[CHOOSE i \in later : Behind(i) = k - 1]]

ReadRecent(after) ==
    /\ reader = "idle" /\ lock = Nobody
    /\ snapshot' = [NothingRead EXCEPT !.packets = Newest(after)]
    /\ reader' = "buffered"
    /\ ReaderUnchanged
    /\ UNCHANGED <<lock, floor>>

ReadBuffered ==
    /\ reader = "buffered" /\ lock = Nobody
    /\ snapshot' = [snapshot EXCEPT !.buffered = Len(packets)]
    /\ reader' = "total"
    /\ ReaderUnchanged
    /\ UNCHANGED <<lock, floor>>

(* Mutant: the size of the ring is answered as the total. *)
ReadTotal_Stale ==
    /\ reader = "total" /\ lock = Nobody
    /\ snapshot' = [snapshot EXCEPT !.total = snapshot.buffered]
    /\ reader' = "sent"
    /\ ReaderUnchanged
    /\ UNCHANGED <<lock, floor>>

ReadTotal ==
    /\ reader = "total" /\ lock = Nobody
    /\ snapshot' = [snapshot EXCEPT !.total = total_seen]
    /\ reader' = "sent"
    /\ ReaderUnchanged
    /\ UNCHANGED <<lock, floor>>

(* GET /api/stats: stats_snapshot, then top_talkers.                        *)
UpdatesComplete == IF writer = "update" THEN updates - 1 ELSE updates

SnapshotBegins ==
    /\ reader = "idle" /\ lock = Nobody
    /\ lock' = Handler
    /\ snapshot' = NothingRead
    /\ floor' = UpdatesComplete
    /\ reader' = "figures"
    /\ ReaderUnchanged

ReadFigure ==
    /\ reader = "figures"
    /\ snapshot' = [snapshot EXCEPT !.figures = Append(@, figures[Len(@) + 1])]
    /\ reader' = IF Len(snapshot.figures) + 1 = Len(Figures) THEN "counters" ELSE "figures"
    /\ ReaderUnchanged
    /\ UNCHANGED <<lock, floor>>

ReadCounters ==
    /\ reader = "counters"
    /\ snapshot' = [snapshot EXCEPT !.buffered = Len(packets), !.total = total_seen,
                                    !.proto_counts = proto_counts]
    /\ lock' = Nobody
    /\ reader' = "talkers"
    /\ ReaderUnchanged
    /\ UNCHANGED floor

ReadTalkers ==
    /\ reader = "talkers" /\ lock = Nobody
    /\ snapshot' = [snapshot EXCEPT !.talkers = talkers]
    /\ reader' = "sent"
    /\ ReaderUnchanged
    /\ UNCHANGED <<lock, floor>>

AnswerSent ==
    /\ reader = "sent"
    /\ reader' = "idle"
    /\ ReaderUnchanged
    /\ UNCHANGED <<lock, snapshot, floor>>

Next ==
    \/ \E proto \in Protos, src \in Addresses : AddNumbers(proto, src)
    \/ AddAppends \/ AddCounts \/ UpdateBegins \/ UpdateContinues
    \/ \E after \in 0..MaxSeen : ReadRecent(after)
    \/ ReadBuffered \/ ReadTotal
    \/ SnapshotBegins \/ ReadFigure \/ ReadCounters \/ ReadTalkers \/ AnswerSent

Spec == Init /\ [][Next]_vars

--------------------------------------------------------------------------------
(* Outside add the ring is the tail of everything recorded, numbered        *)
(* without a gap, which is what `after` in a request relies on.             *)
RingIsTail ==
    lock # Analyzer =>
        /\ seq = total_seen
        /\ Len(packets) = IF total_seen < Capacity THEN total_seen ELSE Capacity
        /\ \A i \in 1..Len(packets) : packets[i].no = total_seen - Len(packets) + i

(* How many of the first packets were of a protocol, or of a source.        *)
OfProto(total, p) == Cardinality({no \in 1..total : recorded[no].proto = p})

OfSource(total, a) == Cardinality({no \in 1..total : recorded[no].src = a})

(* A half-recorded packet is never visible: the counters of one answer of   *)
(* /api/stats are of one moment, each protocol's that of the packets of the *)
(* total, and the talkers, which are read later, count no fewer packets of  *)
(* any source.                                                              *)
SnapshotCoherent ==
    reader = "sent" /\ snapshot.figures # <<>> =>
        /\ \A p \in Protos : snapshot.proto_counts[p] = OfProto(snapshot.total, p)
        /\ snapshot.buffered = IF snapshot.total < Capacity THEN snapshot.total ELSE Capacity
        /\ \A a \in Addresses : snapshot.talkers[a] >= OfSource(snapshot.total, a)

(* An answer of /api/packets lists at most Limit packets, the newest first  *)
(* without a gap, and none that its own totals do not account for, although *)
(* they are read later.                                                     *)
AnswerCoherent ==
    reader = "sent" /\ snapshot.figures = <<>> =>
        /\ Len(snapshot.packets) <= Limit
        /\ Len(snapshot.packets) <= snapshot.buffered
        /\ \A i \in 1..Len(snapshot.packets) :
              /\ snapshot.packets[i].no <= snapshot.total
              /\ snapshot.packets[i].no = snapshot.packets[1].no - i + 1

(* Without the lock a figure may be new or old, but never older than the    *)
(* last update that was complete when the snapshot began.                   *)
FiguresFresh ==
    \A i \in 1..Len(snapshot.figures) :
        snapshot.figures[i] >= floor /\ snapshot.figures[i] <= updates

(* packet_store.py:11-13: "Thread-safe because the sensor writes from the   *)
(* analyzer thread while the SIEM web server reads": the five figures of an *)
(* answer describe one interval.                                            *)
SnapshotOfOneSecond ==
    reader = "sent" =>
        \A i, j \in 1..Len(snapshot.figures) : snapshot.figures[i] = snapshot.figures[j]

(* The ring is the tail of what was recorded (packet_store.py:39-52).       *)
StoreConsistent == TypeOK /\ RingIsTail

(* Either route's answer agrees with itself, although each is put together  *)
(* from several critical sections (siem.py:181-235).                        *)
AnswersCoherent == SnapshotCoherent /\ AnswerCoherent
================================================================================
