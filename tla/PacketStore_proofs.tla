----------------------------- MODULE PacketStore_proofs -----------------------------
(***************************************************************************)
(* The ring is the tail of the packets recorded, a snapshot's figures are  *)
(* fresh, and either route's answer agrees with itself, for every capacity, *)
(* limit, set of protocols and addresses, and number of packets and        *)
(* updates.                                                                *)
(***************************************************************************)
EXTENDS PacketStore, FiniteSetTheorems, TLAPS

Adding == writer \in {"append", "count"}

Reading == reader \in {"figures", "counters"}

(* Packets that are in the ring, or were: the one at hand is not until it   *)
(* has been appended.                                                       *)
Appended == IF writer = "append" THEN total_seen - 1 ELSE total_seen

(* Packets that are in the counters.                                        *)
InCounters == IF Adding THEN total_seen - 1 ELSE total_seen

TailOf(ring, total) ==
    /\ Len(ring) = IF total < Capacity THEN total ELSE Capacity
    /\ \A i \in 1..Len(ring) : ring[i].no = total - Len(ring) + i

(* The ring and its counters, in the middle of add as well.                 *)
RingInv ==
    /\ TypeOK
    /\ Adding <=> lock = Analyzer
    /\ Reading <=> lock = Handler
    /\ writer = "update" => stored \in 1..Len(Figures) - 1 /\ updates > 0
    /\ seq = total_seen
    /\ Len(recorded) = total_seen
    /\ Adding => record \in Packet /\ record.no = total_seen /\ recorded[total_seen] = record
    /\ TailOf(packets, Appended)
    /\ \A p \in Protos : proto_counts[p] <= InCounters
    /\ \A a \in Addresses : talkers[a] <= InCounters

(* A full ring that drops its first packet for the next one, or one with    *)
(* room for it, is the tail of one packet more.                             *)
LEMMA Shifted ==
    ASSUME NEW S, NEW ring \in Seq(S), NEW total \in Nat, NEW r \in S, r.no = total + 1,
           TailOf(ring, total)
    PROVE  LET next == IF Len(ring) = Capacity THEN Append(Tail(ring), r) ELSE Append(ring, r)
           IN  next \in Seq(S) /\ Len(next) <= Capacity /\ TailOf(next, total + 1)
<1>1. Capacity \in Nat \ {0}
  BY PacketStoreAssumption
<1>2. CASE Len(ring) = Capacity
  <2> DEFINE kept == Tail(ring)
             next == Append(kept, r)
  <2>1. kept \in Seq(S) /\ Len(kept) = Capacity - 1 /\ \A i \in 1..Len(kept) : kept[i] = ring[i + 1]
    BY <1>1, <1>2
  <2>2. next \in Seq(S) /\ Len(next) = Capacity
    BY <1>1, <2>1
  <2>3. \A i \in 1..Capacity - 1 : next[i] = ring[i + 1]
    BY <1>1, <2>1
  <2>4. next[Capacity] = r
    BY <1>1, <2>1
  <2> HIDE DEF next, kept
  <2>5. total >= Capacity
    BY <1>1, <1>2 DEF TailOf
  <2>6. \A i \in 1..Capacity : next[i].no = total + 1 - Capacity + i
    <3> SUFFICES ASSUME NEW i \in 1..Capacity PROVE next[i].no = total + 1 - Capacity + i
      OBVIOUS
    <3>1. CASE i = Capacity
      BY <1>1, <2>4, <3>1
    <3>2. CASE i < Capacity
      <4>1. next[i] = ring[i + 1]
        BY <1>1, <2>3, <3>2
      <4>2. i + 1 \in 1..Len(ring)
        BY <1>1, <1>2, <3>2
      <4>3. ring[i + 1].no = total - Capacity + (i + 1)
        BY <1>2, <4>2 DEF TailOf
      <4> QED
        BY <1>1, <4>1, <4>3
    <3> QED
      BY <1>1, <3>1, <3>2
  <2>7. TailOf(next, total + 1)
    BY <1>1, <2>2, <2>5, <2>6 DEF TailOf
  <2> QED
    BY <1>1, <1>2, <2>2, <2>7 DEF next, kept
<1>3. CASE Len(ring) # Capacity
  <2> DEFINE next == Append(ring, r)
  <2>1. Len(ring) = total /\ total < Capacity
    BY <1>1, <1>3 DEF TailOf
  <2>2. next \in Seq(S) /\ Len(next) = total + 1
    BY <2>1
  <2>3. next[total + 1] = r /\ \A i \in 1..total : next[i] = ring[i]
    BY <2>1
  <2>4. \A i \in 1..total : ring[i].no = i
    BY <2>1 DEF TailOf
  <2> HIDE DEF next
  <2>5. \A i \in 1..Len(next) : next[i].no = i
    BY <2>2, <2>3, <2>4
  <2>6. TailOf(next, total + 1)
    BY <1>1, <2>1, <2>2, <2>5 DEF TailOf
  <2> QED
    BY <1>1, <1>3, <2>1, <2>2, <2>6 DEF next
<1> QED
  BY <1>2, <1>3

LEMMA RingStart == Init => RingInv
BY PacketStoreAssumption DEF Init, RingInv, TypeOK, Adding, Reading, Appended, InCounters, TailOf,
   Nobody, Analyzer, Handler, NoRecord, Figures

LEMMA RingStep == RingInv /\ [Next]_vars => RingInv'
<1> SUFFICES ASSUME RingInv, [Next]_vars PROVE RingInv'
  OBVIOUS
<1> USE PacketStoreAssumption
<1>0. TypeOK
  BY DEF RingInv
<1>1. ASSUME NEW proto \in Protos, NEW src \in Addresses, AddNumbers(proto, src) PROVE RingInv'
  <2>1. record' \in Packet /\ record'.no = total_seen'
    BY <1>0, <1>1 DEF AddNumbers, Packet, RingInv, TypeOK
  <2>6. /\ recorded' \in Seq(Packet) /\ Len(recorded') = total_seen'
        /\ recorded'[total_seen'] = record'
    BY <1>0, <1>1, <2>1 DEF AddNumbers, RingInv, TypeOK
  <2>2. TypeOK'
    BY <1>0, <1>1, <2>1, <2>6 DEF AddNumbers, TypeOK, figureVars, readerVars, Analyzer, Handler, Nobody
  <2>3. Adding' /\ lock' = Analyzer /\ ~Adding /\ seq' = total_seen'
    BY <1>1 DEF AddNumbers, RingInv, Adding, Analyzer, Nobody
  <2>4. Appended' = Appended /\ InCounters' = InCounters
    BY <1>0, <1>1, <2>3 DEF AddNumbers, Appended, InCounters, Adding, TypeOK
  <2>5. ~Reading' /\ lock' # Handler /\ writer' # "update"
    BY <1>1 DEF AddNumbers, RingInv, Reading, readerVars, Analyzer, Handler, Nobody
  <2> QED
    BY <1>1, <2>1, <2>2, <2>3, <2>4, <2>5, <2>6 DEF AddNumbers, RingInv, TailOf
<1>2. CASE AddAppends
  <2>1. writer = "append" /\ Adding /\ Adding' /\ record \in Packet
    BY <1>2 DEF AddAppends, RingInv, Adding
  <2>2. packets \in Seq(Packet) /\ total_seen \in Nat
    BY <1>0 DEF TypeOK
  <2>3. Appended = total_seen - 1 /\ record.no = total_seen /\ TailOf(packets, Appended)
    BY <2>1 DEF Appended, RingInv
  <2>4. Appended \in Nat
    BY <2>1, <2>2, <2>3 DEF Packet
  <2>5. packets' \in Seq(Packet) /\ Len(packets') <= Capacity /\ TailOf(packets', total_seen)
    BY <1>2, <2>1, <2>2, <2>3, <2>4, Shifted DEF AddAppends
  <2>6. TypeOK'
    BY <1>0, <1>2, <2>5 DEF AddAppends, TypeOK, figureVars, readerVars
  <2>7. Appended' = total_seen /\ InCounters' = InCounters
    BY <1>2, <2>1 DEF AddAppends, Appended, InCounters
  <2> QED
    BY <1>2, <2>1, <2>5, <2>6, <2>7 DEF AddAppends, RingInv, TailOf, Reading, readerVars
<1>3. CASE AddCounts
  <2>1. Adding /\ ~Adding' /\ record \in Packet /\ writer' = "idle" /\ writer = "count"
    BY <1>3 DEF AddCounts, RingInv, Adding
  <2>2. InCounters = total_seen - 1 /\ InCounters' = total_seen /\ Appended' = Appended
    BY <1>3, <2>1 DEF AddCounts, Appended, InCounters, Adding
  <2>3. total_seen \in 0..MaxSeen /\ proto_counts \in [Protos -> 0..MaxSeen]
        /\ talkers \in [Addresses -> 0..MaxSeen] /\ total_seen' = total_seen
    BY <1>0, <1>3 DEF AddCounts, TypeOK
  <2>4. \A p \in Protos : proto_counts[p] <= total_seen - 1
    BY <2>2 DEF RingInv
  <2>5. \A a \in Addresses : talkers[a] <= total_seen - 1
    BY <2>2 DEF RingInv
  <2> DEFINE More(c, x) == [c EXCEPT ![x] = @ + 1]
  <2>11. ASSUME NEW D, NEW c \in [D -> 0..MaxSeen], NEW x \in D, \A d \in D : c[d] <= total_seen - 1
         PROVE  More(c, x) \in [D -> 0..MaxSeen] /\ \A d \in D : More(c, x)[d] <= total_seen
    BY <2>3, <2>11
  <2>12. proto_counts' = More(proto_counts, record.proto) /\ talkers' = More(talkers, record.src)
         /\ record.proto \in Protos /\ record.src \in Addresses
    BY <1>3, <2>1 DEF AddCounts, Packet
  <2> HIDE DEF More
  <2>6. proto_counts' \in [Protos -> 0..MaxSeen] /\ \A p \in Protos : proto_counts'[p] <= total_seen
    BY <2>3, <2>4, <2>11, <2>12
  <2>7. talkers' \in [Addresses -> 0..MaxSeen] /\ \A a \in Addresses : talkers'[a] <= total_seen
    BY <2>3, <2>5, <2>11, <2>12
  <2>8. TypeOK'
    BY <1>0, <1>3, <2>6, <2>7 DEF AddCounts, TypeOK, figureVars, readerVars
  <2>9. lock' # Analyzer /\ seq' = total_seen' /\ TailOf(packets', Appended')
    BY <1>3, <2>2 DEF AddCounts, RingInv, TailOf, Analyzer, Nobody
  <2>10. ~Reading' /\ lock' # Handler
    BY <1>3, <2>1 DEF AddCounts, RingInv, Reading, readerVars, Analyzer, Handler, Nobody
  <2> QED
    BY <1>3, <2>1, <2>2, <2>3, <2>6, <2>7, <2>8, <2>9, <2>10 DEF AddCounts, RingInv
<1>4. CASE UpdateBegins \/ UpdateContinues
  <2>1. /\ UNCHANGED <<lock, ringVars, record, readerVars>>
        /\ ~Adding /\ ~Adding'
        /\ writer' = "update" => stored' \in 1..Len(Figures) - 1 /\ updates' > 0
        /\ stored' \in 0..Len(Figures) /\ updates' \in 0..MaxUpdates
        /\ figures' \in [1..Len(Figures) -> 0..MaxUpdates]
        /\ writer' \in {"idle", "update"} /\ writer \in {"idle", "update"}
    <3>1. CASE UpdateBegins
      BY <1>0, <3>1, SMTT(30) DEF UpdateBegins, TypeOK, Figures, Adding
    <3>2. CASE UpdateContinues
      <4>1. writer = "update" /\ writer' \in {"idle", "update"}
            /\ UNCHANGED <<lock, ringVars, record, readerVars, updates>>
        BY <3>2 DEF UpdateContinues
      <4>2. updates \in 0..MaxUpdates /\ figures \in [1..Len(Figures) -> 0..MaxUpdates]
        BY <1>0 DEF TypeOK
      <4>3. figures' \in [1..Len(Figures) -> 0..MaxUpdates]
        BY <3>2, <4>2 DEF UpdateContinues
      <4>4. stored' \in 0..Len(Figures)
        BY <3>2, <1>0 DEF UpdateContinues, TypeOK, RingInv, Figures
      <4>5. writer' = "update" => stored' \in 1..Len(Figures) - 1 /\ updates' > 0
        BY <3>2, <4>4 DEF UpdateContinues, RingInv, Figures
      <4> QED
        BY <4>1, <4>2, <4>3, <4>4, <4>5 DEF Adding
    <3> QED
      BY <1>4, <3>1, <3>2
  <2>2. TypeOK'
    BY <1>0, <2>1 DEF TypeOK, ringVars, readerVars
  <2>3. Appended' = Appended /\ InCounters' = InCounters
    BY <2>1 DEF Appended, InCounters, ringVars
  <2> QED
    BY <2>1, <2>2, <2>3 DEF RingInv, ringVars, readerVars, TailOf, Reading
<1>5. ASSUME UNCHANGED <<ringVars, figureVars, writerVars>>,
             reader' \in {"idle", "buffered", "total", "figures", "counters", "talkers", "sent"},
             floor' \in 0..MaxUpdates,
             lock' = lock \/ (lock # Analyzer /\ lock' \in {Nobody, Handler}),
             Reading' <=> lock' = Handler
      PROVE  RingInv'
  <2>1. TypeOK'
    BY <1>0, <1>5 DEF TypeOK, ringVars, figureVars, writerVars
  <2>2. Adding' = Adding /\ (lock' = Analyzer <=> lock = Analyzer)
    BY <1>5 DEF Adding, writerVars, Analyzer, Nobody, Handler
  <2>3. Appended' = Appended /\ InCounters' = InCounters
    BY <1>5, <2>2 DEF Appended, InCounters, ringVars, writerVars
  <2> QED
    BY <1>5, <2>1, <2>2, <2>3 DEF RingInv, ringVars, figureVars, writerVars, TailOf
<1>6. ASSUME NEW after \in 0..MaxSeen, ReadRecent(after) PROVE RingInv'
  BY <1>0, <1>5, <1>6 DEF ReadRecent, ReaderUnchanged, TypeOK, RingInv, Reading, Nobody, Handler
<1>7. CASE ReadBuffered \/ ReadTotal \/ ReadTalkers \/ AnswerSent
  BY <1>0, <1>5, <1>7 DEF ReadBuffered, ReadTotal, ReadTalkers, AnswerSent, ReaderUnchanged, TypeOK,
     RingInv, Reading
<1>8. CASE SnapshotBegins
  <2>1. UpdatesComplete \in 0..MaxUpdates
    BY <1>0 DEF UpdatesComplete, RingInv, TypeOK
  <2> QED
    BY <1>0, <1>5, <1>8, <2>1 DEF SnapshotBegins, ReaderUnchanged, TypeOK, Analyzer, Nobody, Reading
<1>9. CASE ReadFigure
  BY <1>0, <1>5, <1>9 DEF ReadFigure, ReaderUnchanged, TypeOK, RingInv, Reading
<1>10. CASE ReadCounters
  BY <1>0, <1>5, <1>10 DEF ReadCounters, ReaderUnchanged, TypeOK, RingInv, Reading,
     Analyzer, Handler, Nobody
<1>11. CASE UNCHANGED vars
  BY <1>0, <1>5, <1>11 DEF vars, readerVars, TypeOK, RingInv, Reading
<1> QED
  BY <1>1, <1>2, <1>3, <1>4, <1>6, <1>7, <1>8, <1>9, <1>10, <1>11 DEF Next

(* The ring is never longer than its bound and never misses a packet        *)
(* between two it holds, whatever the traffic (packet_store.py:39-52).      *)
THEOREM RingOfTheNewest == Spec => []StoreConsistent
<1>1. RingInv => StoreConsistent
  BY DEF RingInv, StoreConsistent, RingIsTail, Adding, Appended, TailOf
<1>2. QED
  BY <1>1, RingStart, RingStep, PTL DEF Spec

--------------------------------------------------------------------------------
(* The first `stored` figures are of the update under way, the others of    *)
(* the one before; and what a snapshot has gathered is no older than floor. *)
FreshInv ==
    /\ \A i \in 1..Len(Figures) :
          figures[i] = IF writer = "update" /\ i > stored THEN updates - 1 ELSE updates
    /\ floor <= UpdatesComplete
    /\ DOMAIN snapshot = DOMAIN NothingRead
    /\ snapshot.figures \in Seq(Int) /\ Len(snapshot.figures) <= Len(Figures)
    /\ reader = "figures" => Len(snapshot.figures) < Len(Figures)
    /\ FiguresFresh

LEMMA FreshStart == Init => FreshInv
BY DEF Init, FreshInv, FiguresFresh, UpdatesComplete, Figures, NothingRead

LEMMA FreshStep == RingInv /\ RingInv' /\ FreshInv /\ [Next]_vars => FreshInv'
<1> SUFFICES ASSUME RingInv, RingInv', FreshInv, [Next]_vars PROVE FreshInv'
  OBVIOUS
<1>0. /\ updates \in Nat /\ floor \in Nat /\ stored \in Nat
      /\ updates' \in Nat /\ floor' \in Nat /\ stored' \in Nat
      /\ figures \in [1..Len(Figures) -> Nat]
      /\ writer = "update" => updates > 0 /\ stored < Len(Figures)
  BY PacketStoreAssumption DEF RingInv, TypeOK, Figures
<1>1. ASSUME UNCHANGED <<figureVars, stored, readerVars>>, writer' # "update", writer # "update"
      PROVE  FreshInv'
  BY <1>1 DEF FreshInv, FiguresFresh, UpdatesComplete, figureVars, readerVars
<1>2. ASSUME UNCHANGED readerVars, updates' >= updates, UpdatesComplete' >= UpdatesComplete,
             \A i \in 1..Len(Figures) :
                 figures'[i] = IF writer' = "update" /\ i > stored' THEN updates' - 1 ELSE updates'
      PROVE  FreshInv'
  <2>1. UpdatesComplete \in Int /\ UpdatesComplete' \in Int
    BY <1>0 DEF UpdatesComplete
  <2>2. floor' <= UpdatesComplete'
    BY <1>0, <1>2, <2>1 DEF FreshInv, readerVars
  <2>3. FiguresFresh'
    <3>1. \A i \in 1..Len(snapshot.figures) : snapshot.figures[i] \in Int
      BY DEF FreshInv
    <3> QED
      BY <1>0, <1>2, <3>1 DEF FreshInv, FiguresFresh, readerVars
  <2> QED
    BY <1>2, <2>2, <2>3 DEF FreshInv, readerVars
<1>3. ASSUME NEW proto \in Protos, NEW src \in Addresses, AddNumbers(proto, src) PROVE FreshInv'
  BY <1>1, <1>3 DEF AddNumbers
<1>4. CASE AddAppends \/ AddCounts
  BY <1>1, <1>4 DEF AddAppends, AddCounts
<1>5. CASE UpdateBegins
  BY <1>0, <1>2, <1>5 DEF UpdateBegins, FreshInv, UpdatesComplete, Figures
<1>6. CASE UpdateContinues
  <2>1. /\ writer = "update" /\ updates' = updates /\ stored' = stored + 1
        /\ figures' = [figures EXCEPT ![stored + 1] = updates]
        /\ writer' = IF stored' = Len(Figures) THEN "idle" ELSE "update"
        /\ UNCHANGED readerVars
    BY <1>6 DEF UpdateContinues
  <2>2. UpdatesComplete' >= UpdatesComplete
    BY <1>0, <2>1 DEF UpdatesComplete
  <2>3. ASSUME NEW i \in 1..Len(Figures)
        PROVE  figures'[i] = IF writer' = "update" /\ i > stored' THEN updates' - 1 ELSE updates'
    <3>1. figures'[i] = IF i = stored + 1 THEN updates ELSE figures[i]
      BY <1>0, <2>1
    <3>2. figures[i] = IF i > stored THEN updates - 1 ELSE updates
      BY <2>1 DEF FreshInv
    <3>3. Len(Figures) = 5
      BY DEF Figures
    <3> QED
      BY <1>0, <2>1, <3>1, <3>2, <3>3
  <2> QED
    BY <1>0, <1>2, <2>1, <2>2, <2>3
<1>7. ASSUME UNCHANGED <<figureVars, writerVars>>, floor' <= UpdatesComplete,
             DOMAIN snapshot' = DOMAIN snapshot,
             snapshot'.figures \in Seq(Int), Len(snapshot'.figures) <= Len(Figures),
             reader' = "figures" => Len(snapshot'.figures) < Len(Figures),
             \A i \in 1..Len(snapshot'.figures) :
                 snapshot'.figures[i] >= floor' /\ snapshot'.figures[i] <= updates
      PROVE  FreshInv'
  BY <1>7 DEF FreshInv, FiguresFresh, UpdatesComplete, figureVars, writerVars
<1>8. ASSUME NEW after \in 0..MaxSeen, ReadRecent(after) PROVE FreshInv'
  BY <1>7, <1>8 DEF ReadRecent, ReaderUnchanged, NothingRead, FreshInv
<1>9. CASE ReadBuffered \/ ReadTotal \/ ReadTalkers
  <2>1. snapshot'.figures = snapshot.figures /\ DOMAIN snapshot' = DOMAIN snapshot
    <3>1. "figures" \in DOMAIN snapshot
      BY DEF FreshInv, NothingRead
    <3>2. CASE ReadBuffered
      BY <3>1, <3>2 DEF ReadBuffered
    <3>3. CASE ReadTotal
      BY <3>1, <3>3 DEF ReadTotal
    <3>4. CASE ReadTalkers
      BY <3>1, <3>4 DEF ReadTalkers
    <3> QED
      BY <1>9, <3>2, <3>3, <3>4
  <2> QED
    BY <1>7, <1>9, <2>1 DEF ReadBuffered, ReadTotal, ReadTalkers, ReaderUnchanged, FreshInv, FiguresFresh
<1>10. CASE ReadCounters
  <2>1. snapshot'.figures = snapshot.figures /\ DOMAIN snapshot' = DOMAIN snapshot
    BY <1>10 DEF ReadCounters
  <2> QED
    BY <1>7, <1>10, <2>1 DEF ReadCounters, ReaderUnchanged, FreshInv, FiguresFresh
<1>11. CASE SnapshotBegins
  <2>1. /\ snapshot' = NothingRead /\ floor' = UpdatesComplete /\ reader' = "figures"
        /\ UNCHANGED <<figureVars, writerVars>>
    BY <1>11 DEF SnapshotBegins, ReaderUnchanged
  <2>2. DOMAIN snapshot = DOMAIN NothingRead /\ NothingRead.figures = <<>>
    BY DEF FreshInv, NothingRead
  <2>3. UpdatesComplete \in Int /\ Len(Figures) = 5
    BY <1>0 DEF UpdatesComplete, Figures
  <2>4. <<>> \in Seq(Int) /\ Len(<<>>) = 0
    OBVIOUS
  <2> HIDE DEF NothingRead
  <2> QED
    BY <1>7, <2>1, <2>2, <2>3, <2>4
<1>12. CASE ReadFigure
  <2> DEFINE old == snapshot.figures
             next == Append(old, figures[Len(old) + 1])
  <2>1. /\ reader = "figures" /\ floor' = floor
        /\ snapshot' = [snapshot EXCEPT !.figures = next]
        /\ reader' = IF Len(old) + 1 = Len(Figures) THEN "counters" ELSE "figures"
        /\ UNCHANGED <<figureVars, writerVars>>
    BY <1>12 DEF ReadFigure, ReaderUnchanged
  <2>2. old \in Seq(Int) /\ Len(old) < Len(Figures) /\ "figures" \in DOMAIN snapshot
    BY <2>1 DEF FreshInv, NothingRead
  <2>3. snapshot'.figures = next /\ DOMAIN snapshot' = DOMAIN snapshot
    BY <2>1, <2>2
  <2>4. Len(old) + 1 \in 1..Len(Figures) /\ Len(Figures) = 5
    BY <2>2 DEF Figures
  <2>5. figures[Len(old) + 1] \in Nat /\ figures[Len(old) + 1] >= floor /\ figures[Len(old) + 1] <= updates
    <3>1. figures[Len(old) + 1] = IF writer = "update" /\ Len(old) + 1 > stored THEN updates - 1 ELSE updates
      BY <2>4 DEF FreshInv
    <3>2. floor <= IF writer = "update" THEN updates - 1 ELSE updates
      BY DEF FreshInv, UpdatesComplete
    <3> HIDE DEF old
    <3> QED
      BY <1>0, <3>1, <3>2
  <2>6. next \in Seq(Int) /\ Len(next) = Len(old) + 1
    BY <2>2, <2>5
  <2>7. \A i \in 1..Len(next) : next[i] >= floor /\ next[i] <= updates
    BY <2>2, <2>5, <2>6 DEF FreshInv, FiguresFresh
  <2> HIDE DEF next, old
  <2> QED
    BY <1>7, <2>1, <2>2, <2>3, <2>4, <2>6, <2>7 DEF FreshInv
<1>13. CASE AnswerSent
  BY <1>7, <1>13 DEF AnswerSent, ReaderUnchanged, FreshInv, FiguresFresh
<1>14. CASE UNCHANGED vars
  BY <1>14 DEF vars, figureVars, writerVars, readerVars, FreshInv, FiguresFresh, UpdatesComplete
<1> QED
  BY <1>3, <1>4, <1>5, <1>6, <1>8, <1>9, <1>10, <1>11, <1>12, <1>13, <1>14 DEF Next

(* The five assignments of update_stats take no lock, yet no answer shows a *)
(* figure older than the last second that was complete when it was asked    *)
(* for (packet_store.py:56-83).                                             *)
THEOREM NoFigureOlder == Spec => []FiguresFresh
<1>1. FreshInv => FiguresFresh
  BY DEF FreshInv
<1>2. QED
  BY <1>1, RingStart, RingStep, FreshStart, FreshStep, PTL DEF Spec

--------------------------------------------------------------------------------
(* The counters are those of the packets that were counted.                 *)
CountInv ==
    /\ \A p \in Protos : proto_counts[p] = OfProto(InCounters, p)
    /\ \A a \in Addresses : talkers[a] = OfSource(InCounters, a)

LEMMA OneMore ==
    ASSUME NEW total \in Nat \ {0}, NEW S, S \subseteq 1..total
    PROVE  Cardinality(S) = Cardinality(S \ {total}) + (IF total \in S THEN 1 ELSE 0)
<1>1. IsFiniteSet(1..total)
  BY FS_Interval
<1>2. IsFiniteSet(S)
  BY <1>1, FS_Subset
<1>3. /\ IsFiniteSet(S \ {total})
      /\ Cardinality(S \ {total}) = IF total \in S THEN Cardinality(S) - 1 ELSE Cardinality(S)
  BY <1>2, FS_RemoveElement
<1>4. Cardinality(S) \in Nat /\ Cardinality(S \ {total}) \in Nat
  BY <1>2, <1>3, FS_CardinalityType
<1> QED
  BY <1>3, <1>4

(* Counting one packet more, and counting fewer of the same packets.        *)
LEMMA Counting ==
    ASSUME NEW total \in Nat \ {0}
    PROVE  /\ \A p : OfProto(total, p) = OfProto(total - 1, p) + (IF recorded[total].proto = p THEN 1 ELSE 0)
           /\ \A a : OfSource(total, a) = OfSource(total - 1, a) + (IF recorded[total].src = a THEN 1 ELSE 0)
<1>1. ASSUME NEW p
      PROVE  OfProto(total, p) = OfProto(total - 1, p) + (IF recorded[total].proto = p THEN 1 ELSE 0)
  <2> DEFINE S == {no \in 1..total : recorded[no].proto = p}
  <2>1. S \ {total} = {no \in 1..total - 1 : recorded[no].proto = p}
    OBVIOUS
  <2>2. S \subseteq 1..total /\ (total \in S <=> recorded[total].proto = p)
    OBVIOUS
  <2>3. OfProto(total, p) = Cardinality(S) /\ OfProto(total - 1, p) = Cardinality(S \ {total})
    BY <2>1 DEF OfProto
  <2> HIDE DEF S
  <2>4. Cardinality(S) = Cardinality(S \ {total}) + (IF total \in S THEN 1 ELSE 0)
    BY <2>2, OneMore
  <2> QED
    BY <2>2, <2>3, <2>4
<1>2. ASSUME NEW a
      PROVE  OfSource(total, a) = OfSource(total - 1, a) + (IF recorded[total].src = a THEN 1 ELSE 0)
  <2> DEFINE S == {no \in 1..total : recorded[no].src = a}
  <2>1. S \ {total} = {no \in 1..total - 1 : recorded[no].src = a}
    OBVIOUS
  <2>2. S \subseteq 1..total /\ (total \in S <=> recorded[total].src = a)
    OBVIOUS
  <2>3. OfSource(total, a) = Cardinality(S) /\ OfSource(total - 1, a) = Cardinality(S \ {total})
    BY <2>1 DEF OfSource
  <2> HIDE DEF S
  <2>4. Cardinality(S) = Cardinality(S \ {total}) + (IF total \in S THEN 1 ELSE 0)
    BY <2>2, OneMore
  <2> QED
    BY <2>2, <2>3, <2>4
<1> QED
  BY <1>1, <1>2

LEMMA Fewer ==
    ASSUME NEW total \in Nat, NEW less \in 0..total
    PROVE  \A a : OfSource(less, a) <= OfSource(total, a)
<1> TAKE a
<1>1. {no \in 1..less : recorded[no].src = a} \subseteq {no \in 1..total : recorded[no].src = a}
  OBVIOUS
<1>2. IsFiniteSet({no \in 1..total : recorded[no].src = a})
  <2>1. IsFiniteSet(1..total)
    BY FS_Interval
  <2> QED
    BY <2>1, FS_Subset
<1> QED
  BY <1>1, <1>2, FS_Subset DEF OfSource

(* What was counted of the first packets is not changed by later ones.      *)
LEMMA CountStays ==
    ASSUME NEW total \in Nat, NEW later, \A no \in 1..total : later[no] = recorded[no]
    PROVE  /\ \A p : Cardinality({no \in 1..total : later[no].proto = p}) = OfProto(total, p)
           /\ \A a : Cardinality({no \in 1..total : later[no].src = a}) = OfSource(total, a)
<1>1. ASSUME NEW p PROVE Cardinality({no \in 1..total : later[no].proto = p}) = OfProto(total, p)
  <2>1. {no \in 1..total : later[no].proto = p} = {no \in 1..total : recorded[no].proto = p}
    OBVIOUS
  <2> QED
    BY <2>1 DEF OfProto
<1>2. ASSUME NEW a PROVE Cardinality({no \in 1..total : later[no].src = a}) = OfSource(total, a)
  <2>1. {no \in 1..total : later[no].src = a} = {no \in 1..total : recorded[no].src = a}
    OBVIOUS
  <2> QED
    BY <2>1 DEF OfSource
<1> QED
  BY <1>1, <1>2

LEMMA CountStart == Init => CountInv
<1> SUFFICES ASSUME Init PROVE CountInv
  OBVIOUS
<1>1. InCounters = 0
  BY DEF Init, InCounters, Adding
<1>2. {no \in 1..0 : FALSE} = {} /\ 1..0 = {} /\ Cardinality({}) = 0
  BY FS_EmptySet
<1>3. \A x : OfProto(0, x) = 0 /\ OfSource(0, x) = 0
  <2> TAKE x
  <2>1. {no \in 1..0 : recorded[no].proto = x} = {} /\ {no \in 1..0 : recorded[no].src = x} = {}
    BY <1>2
  <2> QED
    BY <1>2, <2>1 DEF OfProto, OfSource
<1> QED
  BY <1>1, <1>3 DEF Init, CountInv

LEMMA CountStep == RingInv /\ RingInv' /\ CountInv /\ [Next]_vars => CountInv'
<1> SUFFICES ASSUME RingInv, RingInv', CountInv, [Next]_vars PROVE CountInv'
  OBVIOUS
<1>0. /\ total_seen \in Nat /\ InCounters \in Nat /\ InCounters <= total_seen
      /\ recorded \in Seq(Packet) /\ Len(recorded) = total_seen
      /\ proto_counts \in [Protos -> Nat] /\ talkers \in [Addresses -> Nat]
  BY PacketStoreAssumption DEF RingInv, TypeOK, InCounters, Adding, Packet
<1>1. ASSUME UNCHANGED <<proto_counts, talkers>>, InCounters' = InCounters,
             \A no \in 1..InCounters : recorded'[no] = recorded[no]
      PROVE  CountInv'
  <2> DEFINE n == InCounters
  <2>1. /\ \A p : Cardinality({no \in 1..n : recorded'[no].proto = p}) = OfProto(n, p)
        /\ \A a : Cardinality({no \in 1..n : recorded'[no].src = a}) = OfSource(n, a)
    BY <1>0, <1>1, CountStays
  <2>2. /\ \A p : OfProto(InCounters, p)' = OfProto(InCounters, p)
        /\ \A a : OfSource(InCounters, a)' = OfSource(InCounters, a)
    BY <1>1, <2>1 DEF OfProto, OfSource
  <2> QED
    BY <1>1, <2>2 DEF CountInv
<1>2. ASSUME NEW proto \in Protos, NEW src \in Addresses, AddNumbers(proto, src) PROVE CountInv'
  <2>1. InCounters' = InCounters
    BY <1>0, <1>2 DEF AddNumbers, InCounters, Adding
  <2>2. \A no \in 1..InCounters : recorded'[no] = recorded[no]
    BY <1>0, <1>2 DEF AddNumbers
  <2> QED
    BY <1>1, <1>2, <2>1, <2>2 DEF AddNumbers
<1>3. CASE AddCounts
  <2>1. Adding /\ record \in Packet /\ recorded[total_seen] = record /\ total_seen \in Nat \ {0}
        /\ InCounters = total_seen - 1 /\ InCounters' = total_seen
    BY <1>0, <1>3 DEF AddCounts, RingInv, Adding, InCounters, Packet
  <2>2. /\ \A p : OfProto(InCounters, p)' = OfProto(total_seen, p)
        /\ \A a : OfSource(InCounters, a)' = OfSource(total_seen, a)
    BY <1>3, <2>1 DEF AddCounts, OfProto, OfSource
  <2>3. /\ \A p : OfProto(total_seen, p) = OfProto(InCounters, p) + (IF record.proto = p THEN 1 ELSE 0)
        /\ \A a : OfSource(total_seen, a) = OfSource(InCounters, a) + (IF record.src = a THEN 1 ELSE 0)
    BY <2>1, Counting
  <2>4. /\ \A p \in Protos : proto_counts'[p] = proto_counts[p] + (IF record.proto = p THEN 1 ELSE 0)
        /\ \A a \in Addresses : talkers'[a] = talkers[a] + (IF record.src = a THEN 1 ELSE 0)
    <3>1. proto_counts' = [proto_counts EXCEPT ![record.proto] = @ + 1]
          /\ talkers' = [talkers EXCEPT ![record.src] = @ + 1]
      BY <1>3 DEF AddCounts
    <3> QED
      BY <1>0, <3>1
  <2> QED
    BY <2>2, <2>3, <2>4 DEF CountInv
<1>4. CASE AddAppends
  BY <1>1, <1>4 DEF AddAppends, InCounters, Adding
<1>5. CASE UpdateBegins \/ UpdateContinues
  BY <1>1, <1>5 DEF UpdateBegins, UpdateContinues, InCounters, Adding, ringVars
<1>6. ASSUME UNCHANGED <<ringVars, writerVars>> PROVE CountInv'
  BY <1>1, <1>6 DEF InCounters, Adding, ringVars, writerVars
<1> QED
  BY <1>2, <1>3, <1>4, <1>5, <1>6 DEF Next, ReadRecent, ReadBuffered, ReadTotal, SnapshotBegins,
     ReadFigure, ReadCounters, ReadTalkers, AnswerSent, ReaderUnchanged, vars

(* Packets whose numbers run on make room for the newest of them.           *)
LEMMA NewestType ==
    ASSUME NEW after \in Nat, NEW total \in Nat, TailOf(packets, total), Len(packets) \in Nat
    PROVE  /\ Newest(after) = [k \in 1..Len(Newest(after)) |-> packets[Len(packets) - k + 1]]
           /\ Len(Newest(after)) \in Nat
           /\ Len(Newest(after)) <= Limit /\ Len(Newest(after)) <= Len(packets)
<1> DEFINE n == Len(packets)
           start == IF after < total - n THEN 1 ELSE after - (total - n) + 1
           later == Later(after)
           found == Cardinality(later)
           size == IF found < Limit THEN found ELSE Limit
<1>1. later = start..n
  BY DEF Later, TailOf
<1>2. start \in Int /\ start >= 1 /\ n \in Nat
  BY PacketStoreAssumption DEF TailOf
<1>3. found = (IF start > n THEN 0 ELSE n - start + 1) /\ found \in Nat /\ found <= n
  <2> HIDE DEF start, n, later
  <2>1. Cardinality(start..n) = IF start > n THEN 0 ELSE n - start + 1
    BY <1>2, FS_Interval
  <2>2. found = IF start > n THEN 0 ELSE n - start + 1
    BY <1>1, <2>1
  <2> HIDE DEF found
  <2> QED
    BY <1>2, <2>2
<1>4. size \in Nat /\ size <= Limit /\ size <= found
  <2> HIDE DEF found, start, n
  <2> QED
    BY <1>3, PacketStoreAssumption
<1>5. ASSUME NEW k \in 1..size
      PROVE  (CHOOSE i \in later : Cardinality({j \in later : j > i}) = k - 1) = n - k + 1
  <2> HIDE DEF start, n, later, found, size
  <2>0. k \in Int /\ 1 <= k /\ k <= found /\ found = n - start + 1
    BY <1>3, <1>4
  <2>1. ASSUME NEW i \in later PROVE Cardinality({j \in later : j > i}) = n - i
    <3>1. i \in Int /\ start <= i /\ i <= n
      BY <1>1, <1>2, <2>1
    <3>2. {j \in later : j > i} = i + 1..n
      BY <1>1, <1>2, <3>1
    <3>3. Cardinality(i + 1..n) = IF i + 1 > n THEN 0 ELSE n - (i + 1) + 1
      BY <1>2, <3>1, FS_Interval
    <3>4. Cardinality(i + 1..n) = n - i
      BY <1>2, <3>1, <3>3
    <3> QED
      BY <3>2, <3>4, Zenon
  <2>2. n - k + 1 \in later /\ \A i \in later : n - i = k - 1 <=> i = n - k + 1
    BY <1>1, <1>2, <2>0
  <2> QED
    BY <2>1, <2>2
<1>6. Newest(after) = [k \in 1..size |-> packets[n - k + 1]]
  <2>1. Newest(after) = [k \in 1..size |->
            packets[CHOOSE i \in later : Cardinality({j \in later : j > i}) = k - 1]]
    BY DEF Newest
  <2> HIDE DEF size, later, n
  <2> QED
    BY <1>5, <2>1
<1>7. Len(Newest(after)) = size
  <2> HIDE DEF size, n
  <2> QED
    BY <1>4, <1>6
<1> HIDE DEF size, found
<1> QED
  BY <1>3, <1>4, <1>6, <1>7

Filled(total) == IF total < Capacity THEN total ELSE Capacity

(* What an answer lists, as far as its own totals have been read.           *)
ListInv ==
    /\ Len(snapshot.packets) \in Nat
    /\ Len(snapshot.packets) <= Limit
    /\ \A i \in 1..Len(snapshot.packets) :
          /\ snapshot.packets[i].no \in Nat
          /\ snapshot.packets[i].no = snapshot.packets[1].no - i + 1
    /\ Len(snapshot.packets) <= IF reader = "buffered" THEN Len(packets) ELSE snapshot.buffered
    /\ \A i \in 1..Len(snapshot.packets) :
          snapshot.packets[i].no <= IF reader = "sent" THEN snapshot.total ELSE total_seen

(* What a snapshot holds between its two critical sections and after them.  *)
SnapshotInv ==
    /\ snapshot.total \in Nat /\ snapshot.total <= total_seen
    /\ \A p \in Protos : snapshot.proto_counts[p] = OfProto(snapshot.total, p)
    /\ snapshot.buffered = Filled(snapshot.total)
    /\ reader = "sent" => \A a \in Addresses : snapshot.talkers[a] >= OfSource(snapshot.total, a)

AnswerInv ==
    /\ reader \in {"buffered", "total"} => snapshot.figures = <<>>
    /\ reader \in {"counters", "talkers"} => snapshot.figures # <<>>
    /\ reader \in {"buffered", "total", "sent"} /\ snapshot.figures = <<>> => ListInv
    /\ reader \in {"talkers", "sent"} /\ snapshot.figures # <<>> => SnapshotInv

LEMMA AnswerStart == Init => AnswerInv
BY DEF Init, AnswerInv, NothingRead

(* The analyzer only adds to what the answers under way were read from.     *)
LEMMA AnswerStays ==
    ASSUME RingInv, RingInv', AnswerInv, UNCHANGED readerVars,
           total_seen <= total_seen', Len(packets) <= Len(packets'),
           \A no \in 1..total_seen : recorded'[no] = recorded[no]
    PROVE  AnswerInv'
<1>0. /\ total_seen \in Nat /\ total_seen' \in Nat /\ Len(packets) \in Nat /\ Len(packets') \in Nat
      /\ UNCHANGED <<reader, snapshot>>
  BY DEF RingInv, TypeOK, readerVars
<1>1. ASSUME ListInv, reader \in {"buffered", "total", "sent"} PROVE ListInv'
  <2>1. Len(snapshot.packets) <= IF reader = "buffered" THEN Len(packets') ELSE snapshot.buffered
    BY <1>0, <1>1 DEF ListInv
  <2>2. \A i \in 1..Len(snapshot.packets) :
          snapshot.packets[i].no <= IF reader = "sent" THEN snapshot.total ELSE total_seen'
    BY <1>0, <1>1 DEF ListInv
  <2> QED
    BY <1>0, <1>1, <2>1, <2>2 DEF ListInv
<1>2. ASSUME SnapshotInv PROVE SnapshotInv'
  <2> DEFINE n == snapshot.total
  <2>1. n \in Nat /\ n <= total_seen /\ \A no \in 1..n : recorded'[no] = recorded[no]
    BY <1>0, <1>2 DEF SnapshotInv
  <2>2. /\ \A p : Cardinality({no \in 1..n : recorded'[no].proto = p}) = OfProto(n, p)
        /\ \A a : Cardinality({no \in 1..n : recorded'[no].src = a}) = OfSource(n, a)
    BY <2>1, CountStays
  <2>3. /\ \A p : OfProto(snapshot.total, p)' = OfProto(snapshot.total, p)
        /\ \A a : OfSource(snapshot.total, a)' = OfSource(snapshot.total, a)
    BY <1>0, <2>2 DEF OfProto, OfSource
  <2> QED
    BY <1>0, <1>2, <2>1, <2>3 DEF SnapshotInv, Filled
<1> QED
  BY <1>0, <1>1, <1>2 DEF AnswerInv

LEMMA AnswerStep ==
    RingInv /\ RingInv' /\ CountInv /\ FreshInv /\ AnswerInv /\ [Next]_vars => AnswerInv'
<1> SUFFICES ASSUME RingInv, RingInv', CountInv, FreshInv, AnswerInv, [Next]_vars PROVE AnswerInv'
  OBVIOUS
<1>0. /\ total_seen \in Nat /\ packets \in Seq(Packet) /\ Len(packets) \in Nat
      /\ recorded \in Seq(Packet) /\ Len(recorded) = total_seen
      /\ Limit \in Nat /\ Capacity \in Nat \ {0}
      /\ DOMAIN snapshot = DOMAIN NothingRead
  BY PacketStoreAssumption DEF RingInv, TypeOK, FreshInv
<1>1. ASSUME NEW proto \in Protos, NEW src \in Addresses, AddNumbers(proto, src) PROVE AnswerInv'
  <2>1. total_seen <= total_seen' /\ \A no \in 1..total_seen : recorded'[no] = recorded[no]
    BY <1>0, <1>1 DEF AddNumbers
  <2> QED
    BY <1>0, <1>1, <2>1, AnswerStays DEF AddNumbers
<1>2. CASE AddAppends
  <2>1. Len(packets) <= Len(packets')
    BY <1>0, <1>2 DEF AddAppends, RingInv, Adding
  <2> QED
    BY <1>0, <1>2, <2>1, AnswerStays DEF AddAppends
<1>3. CASE AddCounts \/ UpdateBegins \/ UpdateContinues \/ UNCHANGED vars
  BY <1>0, <1>3, AnswerStays DEF AddCounts, UpdateBegins, UpdateContinues, ringVars, vars
<1>4. ASSUME NEW after \in 0..MaxSeen, ReadRecent(after) PROVE AnswerInv'
  <2>1. /\ lock = Nobody /\ reader' = "buffered" /\ snapshot' = [NothingRead EXCEPT !.packets = Newest(after)]
        /\ UNCHANGED <<packets, total_seen>>
    BY <1>4 DEF ReadRecent, ReaderUnchanged, ringVars
  <2>2. snapshot'.figures = <<>> /\ snapshot'.packets = Newest(after)
    BY <2>1 DEF NothingRead
  <2>3. TailOf(packets, total_seen)
    BY <2>1 DEF RingInv, Appended, Adding, Nobody, Analyzer
  <2> DEFINE list == Newest(after)
  <2>4. /\ list = [k \in 1..Len(list) |-> packets[Len(packets) - k + 1]]
        /\ Len(list) \in Nat /\ Len(list) <= Limit /\ Len(list) <= Len(packets)
    BY <1>0, <2>3, NewestType, PacketStoreAssumption
  <2> HIDE DEF list
  <2>5. \A i \in 1..Len(list) : list[i].no = total_seen - i + 1
    <3> SUFFICES ASSUME NEW i \in 1..Len(list) PROVE list[i].no = total_seen - i + 1
      OBVIOUS
    <3>1. list[i] = packets[Len(packets) - i + 1] /\ Len(packets) - i + 1 \in 1..Len(packets)
      BY <1>0, <2>4
    <3>2. list[i].no = total_seen - Len(packets) + (Len(packets) - i + 1)
      BY <2>3, <3>1 DEF TailOf
    <3> QED
      BY <1>0, <3>2
  <2>6. Len(packets) <= total_seen
    BY <1>0, <2>3 DEF TailOf
  <2>7. ListInv'
    <3>1. snapshot'.packets = list
      BY <2>2 DEF list
    <3>2. \A i \in 1..Len(list) : /\ list[i].no \in Nat /\ list[i].no <= total_seen
                                 /\ list[i].no = list[1].no - i + 1
      BY <1>0, <2>4, <2>5, <2>6
    <3> QED
      BY <2>1, <2>4, <3>1, <3>2 DEF ListInv
  <2> QED
    BY <2>1, <2>2, <2>7 DEF AnswerInv
<1>5. CASE ReadBuffered
  <2>1. /\ reader = "buffered" /\ reader' = "total" /\ snapshot' = [snapshot EXCEPT !.buffered = Len(packets)]
        /\ UNCHANGED <<packets, total_seen>>
    BY <1>5 DEF ReadBuffered, ReaderUnchanged, ringVars
  <2>2. /\ snapshot'.figures = snapshot.figures /\ snapshot'.packets = snapshot.packets
        /\ snapshot'.buffered = Len(packets)
    BY <1>0, <2>1 DEF NothingRead
  <2>3. ListInv /\ snapshot.figures = <<>>
    BY <2>1 DEF AnswerInv
  <2>4. ListInv'
    BY <2>1, <2>2, <2>3 DEF ListInv
  <2> QED
    BY <2>1, <2>2, <2>3, <2>4 DEF AnswerInv
<1>6. CASE ReadTotal
  <2>1. /\ reader = "total" /\ reader' = "sent" /\ snapshot' = [snapshot EXCEPT !.total = total_seen]
        /\ UNCHANGED <<packets, total_seen>>
    BY <1>6 DEF ReadTotal, ReaderUnchanged, ringVars
  <2>2. /\ snapshot'.figures = snapshot.figures /\ snapshot'.packets = snapshot.packets
        /\ snapshot'.buffered = snapshot.buffered /\ snapshot'.total = total_seen
    BY <1>0, <2>1 DEF NothingRead
  <2>3. ListInv /\ snapshot.figures = <<>>
    BY <2>1 DEF AnswerInv
  <2>4. ListInv'
    BY <2>1, <2>2, <2>3 DEF ListInv
  <2> QED
    BY <2>1, <2>2, <2>3, <2>4 DEF AnswerInv
<1>7. CASE SnapshotBegins
  BY <1>7 DEF SnapshotBegins, AnswerInv
<1>8. CASE ReadFigure
  <2>1. /\ reader = "figures" /\ reader' \in {"figures", "counters"}
        /\ snapshot' = [snapshot EXCEPT !.figures = Append(snapshot.figures, figures[Len(snapshot.figures) + 1])]
    BY <1>8 DEF ReadFigure
  <2>2. snapshot'.figures = Append(snapshot.figures, figures[Len(snapshot.figures) + 1])
    BY <1>0, <2>1 DEF NothingRead
  <2>3. snapshot'.figures # <<>>
    <3>1. snapshot.figures \in Seq(Int) /\ Len(snapshot.figures) + 1 \in 1..Len(Figures)
      BY <2>1 DEF FreshInv, Figures
    <3>2. figures[Len(snapshot.figures) + 1] \in Int
      BY <3>1, SMTT(30) DEF RingInv, TypeOK
    <3> QED
      BY <2>2, <3>1, <3>2
  <2> QED
    BY <2>1, <2>3 DEF AnswerInv
<1>9. CASE ReadCounters
  <2>1. /\ reader = "counters" /\ reader' = "talkers"
        /\ snapshot' = [snapshot EXCEPT !.buffered = Len(packets), !.total = total_seen,
                                        !.proto_counts = proto_counts]
        /\ UNCHANGED <<recorded, packets, total_seen, proto_counts>>
    BY <1>9 DEF ReadCounters, ReaderUnchanged, ringVars
  <2>2. /\ snapshot'.figures = snapshot.figures /\ snapshot'.buffered = Len(packets)
        /\ snapshot'.total = total_seen /\ snapshot'.proto_counts = proto_counts
    BY <1>0, <2>1 DEF NothingRead
  <2>3. ~Adding
    BY <2>1 DEF RingInv, Reading, Adding, Analyzer, Handler
  <2>4. InCounters = total_seen /\ Appended = total_seen
    BY <2>3 DEF InCounters, Appended, Adding
  <2>5. \A p \in Protos : proto_counts[p] = OfProto(total_seen, p)
    BY <2>4 DEF CountInv
  <2>6. \A p : OfProto(snapshot.total, p)' = OfProto(total_seen, p)
    BY <2>1, <2>2 DEF OfProto
  <2>7. Len(packets) = Filled(total_seen)
    BY <2>4 DEF RingInv, TailOf, Filled
  <2>8. SnapshotInv'
    BY <1>0, <2>1, <2>2, <2>5, <2>6, <2>7 DEF SnapshotInv, Filled
  <2> QED
    BY <2>1, <2>2, <2>8 DEF AnswerInv
<1>10. CASE ReadTalkers
  <2>1. /\ reader = "talkers" /\ reader' = "sent" /\ lock = Nobody
        /\ snapshot' = [snapshot EXCEPT !.talkers = talkers]
        /\ UNCHANGED <<recorded, packets, total_seen, talkers>>
    BY <1>10 DEF ReadTalkers, ReaderUnchanged, ringVars
  <2>2. /\ snapshot'.figures = snapshot.figures /\ snapshot'.buffered = snapshot.buffered
        /\ snapshot'.total = snapshot.total /\ snapshot'.proto_counts = snapshot.proto_counts
        /\ snapshot'.talkers = talkers
    BY <1>0, <2>1 DEF NothingRead
  <2>3. InCounters = total_seen
    BY <2>1 DEF RingInv, InCounters, Nobody, Analyzer
  <2>4. SnapshotInv /\ snapshot.figures # <<>>
    BY <2>1 DEF AnswerInv
  <2>5. \A a \in Addresses : talkers[a] = OfSource(total_seen, a)
    BY <2>3 DEF CountInv
  <2>6. \A a : OfSource(snapshot.total, a) <= OfSource(total_seen, a)
    BY <1>0, <2>4, Fewer DEF SnapshotInv
  <2>7. /\ \A p : OfProto(snapshot.total, p)' = OfProto(snapshot.total, p)
        /\ \A a : OfSource(snapshot.total, a)' = OfSource(snapshot.total, a)
    BY <2>1, <2>2 DEF OfProto, OfSource
  <2>8. SnapshotInv'
    BY <2>1, <2>2, <2>4, <2>5, <2>6, <2>7 DEF SnapshotInv, Filled
  <2> QED
    BY <2>1, <2>2, <2>4, <2>8 DEF AnswerInv
<1>11. CASE AnswerSent
  BY <1>11 DEF AnswerSent, AnswerInv
<1> QED
  BY <1>1, <1>2, <1>3, <1>4, <1>5, <1>6, <1>7, <1>8, <1>9, <1>10, <1>11 DEF Next

(* Each answer is put together from several critical sections, between      *)
(* which the analyzer works on; still the counters of one are those of its  *)
(* total, and the packets of the other run on, the newest first, and are    *)
(* accounted for by its totals (siem.py:181-235).                           *)
THEOREM AnswersAgree == Spec => []AnswersCoherent
<1>1. AnswerInv => AnswersCoherent
  <2> SUFFICES ASSUME AnswerInv PROVE AnswersCoherent
    OBVIOUS
  <2>1. SnapshotCoherent
    BY DEF AnswerInv, SnapshotInv, Filled, SnapshotCoherent
  <2>2. AnswerCoherent
    BY DEF AnswerInv, ListInv, AnswerCoherent
  <2> QED
    BY <2>1, <2>2 DEF AnswersCoherent
<1>2. QED
  BY <1>1, RingStart, RingStep, CountStart, CountStep, FreshStart, FreshStep, AnswerStart, AnswerStep,
     PTL DEF Spec
================================================================================
