----------------------------- MODULE PacketFeed_proofs -----------------------------
(***************************************************************************)
(* The packet table of the page against the ring of the server, for every  *)
(* number of polls under way, every capacity, limit and length of the      *)
(* table, and any number of packets, filter changes and restarts.          *)
(***************************************************************************)
EXTENDS PacketFeed, SequenceTheorems, TLAPS

(* The ring is the tail of the packets of this server process.              *)
RingIsTail == \A i \in 1..Len(ring) : ring[i].no = (total_seen - Len(ring)) + i

Descending(seq) == \A k, l \in 1..Len(seq) : k < l => seq[k].no > seq[l].no

(* What a call holds besides what TypeOK says of it.                        *)
CallsOrdered ==
    \A c \in Calls : calls[c] # Idle =>
        /\ calls[c].epoch \in 0..changes
        /\ calls[c].state = "answered" => Descending(calls[c].packets)

FeedInv == TypeOK /\ Len(ring) <= total_seen /\ RingIsTail /\ CallsOrdered /\ CursorCoversRows

--------------------------------------------------------------------------------
LEMMA Numbered ==
    ASSUME NEW s \in Seq(Packet), NEW i \in 1..Len(s)
    PROVE  s[i] \in Packet /\ s[i].no \in 1..MaxSeen /\ s[i].no \in Nat
<1>1. s[i] \in Packet
  OBVIOUS
<1>2. MaxSeen \in Nat
  BY PacketFeedAssumption
<1> QED
  BY <1>1, <1>2 DEF Packet

(* A table cut at its bound is a head of what it was made of.               *)
LEMMA Cut ==
    ASSUME NEW S, NEW s \in Seq(S), NEW count \in Nat
    PROVE  /\ First(s, count) \in Seq(S)
           /\ Len(First(s, count)) = IF Len(s) < count THEN Len(s) ELSE count
           /\ Len(First(s, count)) <= Len(s)
           /\ \A i \in 1..Len(First(s, count)) : First(s, count)[i] = s[i]
<1> DEFINE n == IF Len(s) < count THEN Len(s) ELSE count
<1>1. n \in Nat /\ n <= Len(s)
  OBVIOUS
<1>2. SubSeq(s, 1, n) \in Seq(S) /\ Len(SubSeq(s, 1, n)) = n /\ \A i \in 1..n : SubSeq(s, 1, n)[i] = s[i]
  BY <1>1
<1> QED
  BY <1>1, <1>2 DEF First

(* Answered packets are put on top of the table, which may be cut below.    *)
LEMMA Rendered ==
    ASSUME NEW packets \in Seq(Packet), rows \in Seq(Packet)
    PROVE  /\ Render(packets) \in Seq(Packet) /\ (~markup => Len(Render(packets)) <= MaxRows)
           /\ Len(Render(packets)) <= Len(packets) + Len(rows)
           /\ (~markup /\ Len(Render(packets)) = MaxRows) \/ Len(Render(packets)) = Len(packets) + Len(rows)
           /\ \A i \in 1..Len(Render(packets)) :
                 IF i <= Len(packets)
                 THEN Render(packets)[i] = packets[i]
                 ELSE i - Len(packets) \in 1..Len(rows) /\ Render(packets)[i] = rows[i - Len(packets)]
<1> DEFINE both == packets \o rows
<1>1. /\ both \in Seq(Packet) /\ Len(both) = Len(packets) + Len(rows)
      /\ \A i \in 1..Len(both) : both[i] = IF i <= Len(packets) THEN packets[i] ELSE rows[i - Len(packets)]
  BY ConcatProperties
<1>2. Render(packets) = (IF markup THEN both ELSE First(both, MaxRows)) /\ MaxRows \in Nat
  BY PacketFeedAssumption DEF Render
<1> HIDE DEF both
<1>3. CASE markup
  BY <1>1, <1>2, <1>3
<1>4. CASE ~markup
  <2>1. /\ Render(packets) \in Seq(Packet)
        /\ Len(Render(packets)) = IF Len(both) < MaxRows THEN Len(both) ELSE MaxRows
        /\ \A i \in 1..Len(Render(packets)) : Render(packets)[i] = both[i]
    BY <1>1, <1>2, <1>4, Cut
  <2> QED
    BY <1>1, <1>2, <1>4, <2>1
<1> QED
  BY <1>3, <1>4

(* An answer of the ring: its packets are of the ring and wanted, the newest*)
(* first; nothing wanted is missing unless it was cut, and nothing below    *)
(* the last one is there when it was.                                       *)
LEMMA Answered ==
    ASSUME FeedInv, NEW after, NEW proto, NEW n \in 0..Limit,
           NEW picked \in [1..n -> Wanted(after, proto)], Newest(picked, Wanted(after, proto))
    PROVE  LET answer == [k \in 1..n |-> ring[picked[k]]]
           IN  /\ answer \in Seq(Packet) /\ Len(answer) = n /\ n <= Limit
               /\ Descending(answer)
               /\ \A k \in 1..n : /\ answer[k].no > after /\ Matches(answer[k], proto)
                                  /\ answer[k].no <= total_seen
<1> DEFINE answer == [k \in 1..n |-> ring[picked[k]]]
<1>1. n \in Nat /\ n <= Limit /\ ring \in Seq(Packet) /\ Len(ring) \in Nat /\ total_seen \in Nat
  BY PacketFeedAssumption DEF FeedInv, TypeOK
<1>2. picked \in Seq(Wanted(after, proto)) /\ Len(picked) = n
  BY <1>1
<1>3. \A k \in 1..n : picked[k] \in 1..Len(ring) /\ ring[picked[k]].no > after /\ Matches(ring[picked[k]], proto)
  BY DEF Wanted
<1>4. \A k, l \in 1..n : k < l => picked[k] > picked[l]
  BY <1>2 DEF Newest
<1>5. \A k \in 1..n : ring[picked[k]].no = (total_seen - Len(ring)) + picked[k]
  BY <1>3 DEF FeedInv, RingIsTail
<1>6. answer \in Seq(Packet) /\ Len(answer) = n /\ \A k \in 1..n : answer[k] = ring[picked[k]]
  BY <1>1, <1>3
<1> HIDE DEF answer
<1>7. Descending(answer)
  <2> SUFFICES ASSUME NEW k \in 1..n, NEW l \in 1..n, k < l PROVE answer[k].no > answer[l].no
    BY <1>6 DEF Descending
  <2>1. picked[k] \in 1..Len(ring) /\ picked[l] \in 1..Len(ring) /\ picked[k] > picked[l]
    BY <1>3, <1>4
  <2>2. answer[k].no = (total_seen - Len(ring)) + picked[k] /\ answer[l].no = (total_seen - Len(ring)) + picked[l]
    BY <1>5, <1>6
  <2> QED
    BY <1>1, <2>1, <2>2
<1>8. ASSUME NEW k \in 1..n
      PROVE  answer[k].no > after /\ Matches(answer[k], proto) /\ answer[k].no <= total_seen
  <2>1. answer[k] = ring[picked[k]]
    BY <1>6
  <2>2. picked[k] \in 1..Len(ring) /\ ring[picked[k]].no = (total_seen - Len(ring)) + picked[k]
    BY <1>3, <1>5
  <2>3. ring[picked[k]].no <= total_seen
    BY <1>1, <2>2
  <2>4. ring[picked[k]].no > after /\ Matches(ring[picked[k]], proto)
    BY <1>3
  <2> QED
    BY <2>1, <2>3, <2>4
<1> QED
  BY <1>1, <1>6, <1>7, <1>8 DEF answer

(* A step of one call leaves the other calls alone.                         *)
LEMMA OneCall ==
    ASSUME TypeOK, NEW c \in Calls, NEW v, calls' = [calls EXCEPT ![c] = v]
    PROVE  DOMAIN calls' = Calls /\ \A d \in Calls : calls'[d] = IF d = c THEN v ELSE calls[d]
BY DEF TypeOK

(* What Serve makes of a call.                                              *)
Served(c, n, picked) ==
    [state   |-> "answered",
     packets |-> [k \in 1..n |-> ring[picked[k]]],
     cut     |-> \E i \in Wanted(calls[c].after, calls[c].proto) : \A k \in 1..n : picked[k] # i,
     epoch   |-> calls[c].epoch]

ServedAs(c, n, picked) ==
    /\ Newest(picked, Wanted(calls[c].after, calls[c].proto))
    /\ calls' = [calls EXCEPT ![c] = Served(c, n, picked)]

(* The three states of a call, as TypeOK tells them.                        *)
CallOK(call) ==
    \/ call = Idle
    \/ call.state = "asked" /\ call.after \in 0..MaxSeen /\ call.proto \in Filters
    \/ call.state = "answered" /\ call.packets \in Seq(Packet) /\ Len(call.packets) <= Limit

CallOrdered(call, n) ==
    call # Idle =>
        /\ call.epoch \in 0..n
        /\ call.state = "answered" => Descending(call.packets)

LEMMA CallParts ==
    /\ TypeOK => \A c \in Calls : CallOK(calls[c])
    /\ CallsOrdered <=> \A c \in Calls : CallOrdered(calls[c], changes)
BY DEF TypeOK, CallOK, CallsOrdered, CallOrdered

LEMMA FeedStart == Init => FeedInv
<1> SUFFICES ASSUME Init PROVE FeedInv
  OBVIOUS
<1>1. /\ Capacity \in Nat /\ MaxRows \in Nat /\ MaxSeen \in Nat /\ MaxChanges \in Nat /\ MaxRestarts \in Nat
      /\ Len(ring) = 0 /\ Len(rows) = 0
  BY PacketFeedAssumption DEF Init
<1>2. DOMAIN calls = Calls /\ \A c \in Calls : calls[c] = Idle
  BY DEF Init
<1>3. TypeOK
  <2>1. ring \in Seq(Packet) /\ rows \in Seq(Packet) /\ pktProto \in Filters
    BY DEF Init, Filters
  <2>2. clean \in BOOLEAN /\ overlapped \in BOOLEAN /\ markup \in BOOLEAN
    BY DEF Init
  <2>3. /\ Len(ring) <= Capacity /\ Len(rows) <= MaxRows /\ total_seen \in 0..MaxSeen /\ lastSeq \in 0..MaxSeen
        /\ changes \in 0..MaxChanges /\ restarts \in 0..MaxRestarts
    BY <1>1 DEF Init
  <2> QED
    BY <1>2, <2>1, <2>3, <2>2 DEF TypeOK
<1> QED
  BY <1>1, <1>2, <1>3 DEF Init, FeedInv, RingIsTail, CallsOrdered, CursorCoversRows

(* What a step of one call has to show.                                     *)
LEMMA CallMoves ==
    ASSUME FeedInv, NEW c \in Calls, NEW v, calls' = [calls EXCEPT ![c] = v],
           CallOK(v), CallOrdered(v, changes),
           UNCHANGED <<serverVars, pktProto, changes>>,
           rows' \in Seq(Packet), markup' \in BOOLEAN, ~markup' => Len(rows') <= MaxRows, lastSeq' \in 0..MaxSeen, CursorCoversRows',
           clean' \in BOOLEAN, overlapped' \in BOOLEAN
    PROVE  FeedInv'
<1>1. DOMAIN calls' = Calls /\ \A d \in Calls : calls'[d] = IF d = c THEN v ELSE calls[d]
  BY OneCall DEF FeedInv
<1>2. \A d \in Calls : CallOK(calls'[d]) /\ CallOrdered(calls'[d], changes)
  BY <1>1, CallParts DEF FeedInv
<1>3. ring' = ring /\ total_seen' = total_seen /\ restarts' = restarts /\ changes' = changes /\ pktProto' = pktProto
  BY DEF serverVars
<1>4. TypeOK'
  BY <1>1, <1>2, <1>3 DEF FeedInv, TypeOK, CallOK
<1>5. CallsOrdered'
  BY <1>2, <1>3 DEF CallsOrdered, CallOrdered, Descending
<1> QED
  BY <1>3, <1>4, <1>5 DEF FeedInv, RingIsTail

LEMMA FeedStep == FeedInv /\ [Next]_vars => FeedInv'
<1> SUFFICES ASSUME FeedInv, [Next]_vars PROVE FeedInv'
  OBVIOUS
<1>1. /\ ring \in Seq(Packet) /\ Len(ring) \in Nat /\ Len(ring) <= Capacity /\ Capacity \in Nat \ {0}
      /\ total_seen \in 0..MaxSeen /\ MaxSeen \in Nat /\ Limit \in Nat /\ MaxRows \in Nat
      /\ rows \in Seq(Packet) /\ markup \in BOOLEAN /\ (~markup => Len(rows) <= MaxRows)
      /\ lastSeq \in 0..MaxSeen
      /\ changes \in 0..MaxChanges /\ MaxChanges \in Nat
      /\ restarts \in 0..MaxRestarts /\ MaxRestarts \in Nat
      /\ clean \in BOOLEAN /\ overlapped \in BOOLEAN /\ pktProto \in Filters
  BY PacketFeedAssumption DEF FeedInv, TypeOK
<1>2. ASSUME NEW proto \in Protos, StorePacket(proto) PROVE FeedInv'
  <2> DEFINE p == [no |-> total_seen + 1, proto |-> proto]
             kept == IF Len(ring) = Capacity THEN Tail(ring) ELSE ring
  <2>1. p \in Packet /\ p.no = total_seen + 1 /\ ring' = Append(kept, p) /\ total_seen' = total_seen + 1
    BY <1>1, <1>2 DEF StorePacket, Packet
  <2>2. kept \in Seq(Packet) /\ Len(kept) < Capacity /\ Len(kept) <= total_seen
    BY <1>1 DEF FeedInv
  <2>3. \A i \in 1..Len(kept) : kept[i].no = (total_seen - Len(kept)) + i
    <3>1. CASE Len(ring) = Capacity
      <4> SUFFICES ASSUME NEW i \in 1..Len(kept) PROVE kept[i].no = (total_seen - Len(kept)) + i
        OBVIOUS
      <4>1. kept[i] = ring[i + 1] /\ i + 1 \in 1..Len(ring) /\ Len(kept) = Len(ring) - 1
        BY <1>1, <3>1
      <4>2. ring[i + 1].no = (total_seen - Len(ring)) + (i + 1)
        BY <4>1 DEF FeedInv, RingIsTail
      <4> QED
        BY <1>1, <4>1, <4>2
    <3>2. CASE Len(ring) # Capacity
      BY <3>2 DEF FeedInv, RingIsTail
    <3> QED
      BY <3>1, <3>2
  <2> HIDE DEF kept, p
  <2>4. /\ ring' \in Seq(Packet) /\ Len(ring') = Len(kept) + 1 /\ ring'[Len(kept) + 1] = p
        /\ \A i \in 1..Len(kept) : ring'[i] = kept[i]
    BY <2>1, <2>2
  <2>5. RingIsTail'
    <3> SUFFICES ASSUME NEW i \in 1..Len(ring') PROVE ring'[i].no = (total_seen' - Len(ring')) + i
      BY DEF RingIsTail
    <3>1. CASE i = Len(kept) + 1
      BY <1>1, <2>1, <2>2, <2>4, <3>1
    <3>2. CASE i \in 1..Len(kept)
      BY <1>1, <2>1, <2>2, <2>3, <2>4, <3>2
    <3> QED
      BY <2>2, <2>4, <3>1, <3>2
  <2>6. Len(ring') <= total_seen' /\ Len(ring') <= Capacity /\ total_seen' \in 0..MaxSeen
    BY <1>1, <1>2, <2>1, <2>2, <2>4 DEF StorePacket
  <2>7. UNCHANGED <<restarts, lastSeq, rows, markup, pktProto, calls, changes, clean, overlapped>>
    BY <1>2 DEF StorePacket, tableVars
  <2>8. TypeOK'
    BY <2>4, <2>6, <2>7 DEF FeedInv, TypeOK
  <2> QED
    BY <2>5, <2>6, <2>7, <2>8 DEF FeedInv, CallsOrdered, Descending, CursorCoversRows
<1>3. CASE ServerRestarts
  <2>1. /\ ring' = <<>> /\ total_seen' = 0 /\ Len(ring') = 0
        /\ UNCHANGED <<lastSeq, rows, markup, pktProto, changes, overlapped>>
    BY <1>3 DEF ServerRestarts, tableVars
  <2>2. DOMAIN calls' = Calls /\ \A c \in Calls : calls'[c] = Idle \/ calls'[c] = calls[c]
    BY <1>3 DEF ServerRestarts
  <2>3. \A c \in Calls : CallOK(calls'[c]) /\ CallOrdered(calls'[c], changes)
    BY <2>2, CallParts DEF FeedInv, CallOK, CallOrdered
  <2>4. TypeOK'
    <3>1. restarts' \in 0..MaxRestarts
      BY <1>1, <1>3 DEF ServerRestarts
    <3>2. clean' \in BOOLEAN
      BY <1>3 DEF ServerRestarts
    <3>3. \A c \in Calls : (calls'[c] = Idle \/ calls'[c] = calls[c])
      BY <2>2
    <3> QED
      BY <1>1, <2>1, <2>2, <3>1, <3>3, <3>2 DEF FeedInv, TypeOK
  <2>5. CallsOrdered'
    BY <2>1, <2>3 DEF CallsOrdered, CallOrdered, Descending
  <2> QED
    BY <2>1, <2>4, <2>5 DEF FeedInv, RingIsTail, CursorCoversRows
<1>4. ASSUME NEW c \in Calls, Poll(c) PROVE FeedInv'
  <2> DEFINE v == [state |-> "asked", after |-> lastSeq, proto |-> pktProto, epoch |-> changes]
  <2>1. CallOK(v) /\ CallOrdered(v, changes)
    BY <1>1 DEF CallOK, CallOrdered
  <2>2. /\ calls' = [calls EXCEPT ![c] = v] /\ overlapped' \in BOOLEAN
        /\ UNCHANGED <<serverVars, lastSeq, rows, markup, pktProto, changes, clean>>
    BY <1>1, <1>4 DEF Poll, tableVars
  <2> HIDE DEF v
  <2>3. CursorCoversRows'
    BY <2>2 DEF FeedInv, CursorCoversRows
  <2> QED
    BY <1>1, <2>1, <2>2, <2>3, CallMoves
<1>5. ASSUME NEW c \in Calls, Serve(c) PROVE FeedInv'
  <2> DEFINE wanted == Wanted(calls[c].after, calls[c].proto)
  <2>1. PICK n \in 0..Limit : \E picked \in [1..n -> wanted] : ServedAs(c, n, picked)
    BY <1>5 DEF Serve, ServedAs, Served, FeedInv, TypeOK
  <2>2. PICK picked \in [1..n -> wanted] : ServedAs(c, n, picked)
    BY <2>1
  <2> DEFINE v == Served(c, n, picked)
             answer == v.packets
  <2>3. answer \in Seq(Packet) /\ Len(answer) <= Limit /\ Descending(answer)
    BY <2>2, Answered DEF Served, ServedAs
  <2>4. calls[c] # Idle /\ calls[c].epoch \in 0..changes
    BY <1>5 DEF Serve, Idle, FeedInv, CallsOrdered
  <2>5. CallOK(v) /\ CallOrdered(v, changes)
    BY <2>3, <2>4 DEF CallOK, CallOrdered, Served
  <2>6. UNCHANGED <<serverVars, lastSeq, rows, markup, pktProto, changes, clean, overlapped>>
    BY <1>5 DEF Serve, tableVars
  <2>7. CursorCoversRows'
    BY <2>6 DEF FeedInv, CursorCoversRows
  <2> HIDE DEF v
  <2> QED
    BY <1>1, <2>2, <2>5, <2>6, <2>7, CallMoves DEF v, ServedAs
<1>6. ASSUME NEW c \in Calls, Fail(c) PROVE FeedInv'
  <2>1. CallOK(Idle) /\ CallOrdered(Idle, changes)
    BY DEF CallOK, CallOrdered
  <2>2. /\ calls' = [calls EXCEPT ![c] = Idle]
        /\ UNCHANGED <<serverVars, lastSeq, rows, markup, pktProto, changes, clean, overlapped>>
    BY <1>6 DEF Fail, tableVars
  <2>3. CursorCoversRows'
    BY <2>2 DEF FeedInv, CursorCoversRows
  <2> QED
    BY <1>1, <2>1, <2>2, <2>3, CallMoves
<1>7. ASSUME NEW c \in Calls, Receive(c) PROVE FeedInv'
  <2> DEFINE packets == calls[c].packets
  <2>1. /\ packets \in Seq(Packet) /\ Descending(packets)
        /\ lastSeq' = Advance(packets) /\ rows' = (IF packets = <<>> THEN rows ELSE Render(packets))
        /\ calls' = [calls EXCEPT ![c] = Idle] /\ clean' \in BOOLEAN /\ overlapped' \in BOOLEAN
        /\ UNCHANGED <<serverVars, markup, pktProto, changes>>
    BY <1>1, <1>7 DEF Receive, Idle, FeedInv, TypeOK, CallsOrdered
  <2> HIDE DEF packets
  <2>2. CallOK(Idle) /\ CallOrdered(Idle, changes)
    BY DEF CallOK, CallOrdered
  <2>3. rows' \in Seq(Packet) /\ (~markup' => Len(rows') <= MaxRows)
    BY <1>1, <2>1, Rendered
  <2>4. /\ lastSeq' \in 0..MaxSeen /\ lastSeq <= lastSeq'
        /\ \A k \in 1..Len(packets) : packets[k].no <= lastSeq'
    <3>1. CASE packets = <<>>
      BY <1>1, <2>1, <3>1 DEF Advance
    <3>2. CASE packets # <<>>
      <4>1. 1 \in 1..Len(packets) /\ \A k \in 1..Len(packets) : packets[k].no \in 1..MaxSeen
        BY <2>1, <3>2, Numbered
      <4>2. \A k \in 1..Len(packets) : packets[k].no <= packets[1].no
        BY <2>1, <4>1 DEF Descending
      <4> QED
        BY <1>1, <2>1, <3>2, <4>1, <4>2 DEF Advance
    <3> QED
      BY <3>1, <3>2
  <2>5. CursorCoversRows'
    <3> SUFFICES ASSUME NEW i \in 1..Len(rows') PROVE rows'[i].no <= lastSeq'
      BY DEF CursorCoversRows
    <3>1. \A j \in 1..Len(rows) : rows[j].no \in Nat /\ rows[j].no <= lastSeq'
      BY <1>1, <2>4, Numbered, SMTT(30) DEF FeedInv, CursorCoversRows
    <3>2. CASE packets = <<>>
      BY <2>1, <3>1, <3>2
    <3>3. CASE packets # <<>>
      <4>1. rows' = Render(packets) /\ i \in 1..Len(Render(packets))
        BY <2>1, <3>3
      <4>2. IF i <= Len(packets)
            THEN rows'[i] = packets[i]
            ELSE i - Len(packets) \in 1..Len(rows) /\ rows'[i] = rows[i - Len(packets)]
        BY <1>1, <2>1, <4>1, Rendered
      <4>3. i <= Len(packets) => i \in 1..Len(packets)
        BY <2>3
      <4> QED
        BY <2>4, <3>1, <4>2, <4>3
    <3> QED
      BY <3>2, <3>3
  <2>6. markup' \in BOOLEAN
    BY <1>1, <2>1
  <2> QED
    BY <2>1, <2>2, <2>3, <2>4, <2>5, <2>6, CallMoves
<1>8. ASSUME NEW proto \in Filters, SetProtoFilter(proto) PROVE FeedInv'
  <2>1. /\ rows' = <<>> /\ lastSeq' = 0 /\ changes' = changes + 1 /\ changes' \in 0..MaxChanges
        /\ clean' = TRUE /\ pktProto' = proto /\ Len(rows') = 0 /\ markup' = FALSE
        /\ UNCHANGED <<ring, total_seen, restarts, calls, overlapped>>
    BY <1>1, <1>8 DEF SetProtoFilter, ResetPackets, serverVars
  <2>2. TypeOK'
    <3>1. markup' \in BOOLEAN /\ clean' \in BOOLEAN /\ overlapped' \in BOOLEAN
      BY <1>1, <2>1
    <3>2. rows' \in Seq(Packet) /\ Len(rows') <= MaxRows
      BY <1>1, <2>1
    <3> QED
      BY <1>1, <1>8, <2>1, <3>1, <3>2 DEF FeedInv, TypeOK
  <2>3. CallsOrdered'
    <3>1. \A c \in Calls : CallOrdered(calls[c], changes)
      BY CallParts DEF FeedInv
    <3>2. \A c \in Calls : CallOrdered(calls[c], changes')
      BY <1>1, <2>1, <3>1 DEF CallOrdered
    <3> QED
      BY <2>1, <3>2 DEF CallsOrdered, CallOrdered, Descending
  <2> QED
    BY <2>1, <2>2, <2>3 DEF FeedInv, RingIsTail, CursorCoversRows
<1>9. CASE UNCHANGED vars
  BY <1>9 DEF vars, serverVars, tableVars, FeedInv, TypeOK, RingIsTail, CallsOrdered, Descending, CursorCoversRows
<1> QED
  BY <1>2, <1>3, <1>4, <1>5, <1>6, <1>7, <1>8, <1>9 DEF Next

LEMMA FeedInvariant == Spec => []FeedInv
BY FeedStart, FeedStep, PTL DEF Spec

(* However answers overtake one another, no row is newer than the cursor    *)
(* the next question is asked with (web_template.html:1427-1463).           *)
THEOREM CursorNeverBehind == Spec => []TableConsistent
<1>1. FeedInv => TableConsistent
  BY DEF FeedInv, TableConsistent
<1>2. QED
  BY <1>1, FeedInvariant, PTL

--------------------------------------------------------------------------------
(* As long as polls have not overlapped, what is under way is newer than    *)
(* the whole table: a filter change that empties the table only lowers the  *)
(* cursor.                                                                  *)
FreshCall(call) ==
    /\ call.state = "asked" => lastSeq <= call.after
    /\ call.state = "answered" => \A k \in 1..Len(call.packets) : call.packets[k].no > lastSeq

OrderInv ==
    ~overlapped =>
        /\ \A c, d \in Calls : calls[c] # Idle /\ calls[d] # Idle => c = d
        /\ \A c \in Calls : FreshCall(calls[c])
        /\ Descending(rows)

LEMMA OrderStart == Init => OrderInv
<1> SUFFICES ASSUME Init PROVE OrderInv
  OBVIOUS
<1>1. Len(rows) = 0 /\ \A c \in Calls : calls[c] = Idle
  BY DEF Init
<1> QED
  BY <1>1 DEF OrderInv, FreshCall, Descending, Idle

LEMMA OrderStep == FeedInv /\ OrderInv /\ [Next]_vars => OrderInv'
<1> SUFFICES ASSUME FeedInv, OrderInv, [Next]_vars, ~overlapped' PROVE OrderInv'
  BY DEF OrderInv
<1>1. /\ lastSeq \in Nat /\ rows \in Seq(Packet) /\ DOMAIN calls = Calls /\ overlapped \in BOOLEAN /\ TypeOK
  BY DEF FeedInv, TypeOK
<1>2. ~overlapped
  BY <1>1 DEF Next, vars, StorePacket, ServerRestarts, Poll, Serve, Receive, Fail, SetProtoFilter
<1>3. /\ \A c, d \in Calls : calls[c] # Idle /\ calls[d] # Idle => c = d
      /\ \A c \in Calls : FreshCall(calls[c])
      /\ Descending(rows)
  BY <1>2 DEF OrderInv
(* Steps that touch neither the table nor the cursor, nor start a call.     *)
<1>4. ASSUME UNCHANGED tableVars,
             \A c \in Calls : \/ calls'[c] = Idle \/ calls'[c] = calls[c]
                              \/ calls[c] # Idle /\ FreshCall(calls'[c])
      PROVE  OrderInv'
  <2>1. UNCHANGED <<lastSeq, rows>>
    BY <1>4 DEF tableVars
  <2>2. ASSUME NEW c \in Calls PROVE FreshCall(calls'[c]) /\ (calls'[c] # Idle => calls[c] # Idle)
    <3>1. FreshCall(Idle) /\ FreshCall(calls[c])
      BY <1>3 DEF FreshCall, Idle
    <3> QED
      BY <1>4, <3>1
  <2> QED
    BY <1>3, <1>4, <2>1, <2>2 DEF OrderInv, FreshCall, Descending
<1>5. ASSUME NEW proto \in Protos, StorePacket(proto) PROVE OrderInv'
  BY <1>3, <1>4, <1>5 DEF StorePacket
<1>6. CASE ServerRestarts
  <2>1. \A c \in Calls : calls'[c] = Idle \/ calls'[c] = calls[c]
    BY <1>6 DEF ServerRestarts
  <2> QED
    BY <1>4, <1>6, <2>1 DEF ServerRestarts
<1>7. ASSUME NEW c \in Calls, Poll(c) PROVE OrderInv'
  <2> DEFINE v == [state |-> "asked", after |-> lastSeq, proto |-> pktProto, epoch |-> changes]
  <2>1. \A d \in Calls : calls'[d] = IF d = c THEN v ELSE calls[d]
    BY <1>1, <1>7, OneCall DEF Poll
  <2>2. \A d \in Calls : calls[d] = Idle
    BY <1>2, <1>7 DEF Poll
  <2>3. UNCHANGED <<lastSeq, rows>>
    BY <1>7 DEF Poll, tableVars
  <2>4. FreshCall(v) /\ FreshCall(Idle)
    BY <1>1 DEF FreshCall, Idle
  <2> HIDE DEF v
  <2> QED
    BY <1>3, <2>1, <2>2, <2>3, <2>4 DEF OrderInv, FreshCall, Descending
<1>8. ASSUME NEW c \in Calls, Serve(c) PROVE OrderInv'
  <2>1. PICK n \in 0..Limit : \E picked \in [1..n -> Wanted(calls[c].after, calls[c].proto)] : ServedAs(c, n, picked)
    BY <1>1, <1>8 DEF Serve, ServedAs, Served
  <2>2. PICK picked \in [1..n -> Wanted(calls[c].after, calls[c].proto)] : ServedAs(c, n, picked)
    BY <2>1
  <2> DEFINE v == Served(c, n, picked)
  <2>3. \A d \in Calls : calls'[d] = IF d = c THEN v ELSE calls[d]
    BY <1>1, <2>2, OneCall DEF ServedAs
  <2>4. calls[c] # Idle /\ lastSeq <= calls[c].after /\ calls[c].after \in Nat
    BY <1>3, <1>8, CallParts DEF Serve, FreshCall, Idle, FeedInv, CallOK
  <2>5. FreshCall(v)
    <3>1. v.packets \in Seq(Packet) /\ Len(v.packets) = n /\ \A k \in 1..n : v.packets[k].no > calls[c].after
      BY <2>2, Answered DEF ServedAs, Served
    <3>2. \A k \in 1..n : v.packets[k].no \in Nat
      BY <3>1, Numbered
    <3>3. v.state = "answered"
      BY DEF Served
    <3> HIDE DEF v
    <3> QED
      BY <1>1, <2>4, <3>1, <3>2, <3>3 DEF FreshCall
  <2> HIDE DEF v
  <2> QED
    BY <1>3, <1>4, <1>8, <2>3, <2>4, <2>5 DEF Serve
<1>9. ASSUME NEW c \in Calls, Fail(c) PROVE OrderInv'
  <2>1. \A d \in Calls : calls'[d] = IF d = c THEN Idle ELSE calls[d]
    BY <1>1, <1>9, OneCall DEF Fail
  <2> QED
    BY <1>4, <1>9, <2>1 DEF Fail
<1>10. ASSUME NEW c \in Calls, Receive(c) PROVE OrderInv'
  <2> DEFINE packets == calls[c].packets
  <2>1. /\ calls[c] # Idle /\ packets \in Seq(Packet) /\ Descending(packets)
        /\ rows' = (IF packets = <<>> THEN rows ELSE Render(packets))
        /\ \A k \in 1..Len(packets) : packets[k].no > lastSeq
    BY <1>3, <1>10 DEF Receive, Idle, FeedInv, TypeOK, CallsOrdered, FreshCall
  <2>2. \A d \in Calls : calls'[d] = IF d = c THEN Idle ELSE calls[d]
    BY <1>1, <1>10, OneCall DEF Receive
  <2>3. \A d \in Calls : calls'[d] = Idle
    BY <1>3, <2>1, <2>2
  <2> HIDE DEF packets
  <2>4. Descending(rows')
    <3>1. CASE packets = <<>>
      BY <1>3, <2>1, <3>1 DEF Descending
    <3>2. CASE packets # <<>>
      <4> SUFFICES ASSUME NEW k \in 1..Len(rows'), NEW l \in 1..Len(rows'), k < l PROVE rows'[k].no > rows'[l].no
        BY DEF Descending
      <4>1. \A i \in {k, l} : IF i <= Len(packets)
                               THEN i \in 1..Len(packets) /\ rows'[i] = packets[i]
                               ELSE i - Len(packets) \in 1..Len(rows) /\ rows'[i] = rows[i - Len(packets)]
        <5>1. rows' = Render(packets)
          BY <2>1, <3>2
        <5>2. \A i \in 1..Len(rows') : IF i <= Len(packets)
                               THEN rows'[i] = packets[i]
                               ELSE i - Len(packets) \in 1..Len(rows) /\ rows'[i] = rows[i - Len(packets)]
          BY <1>1, <2>1, <5>1, Rendered
        <5>3. k \in Nat \ {0} /\ l \in Nat \ {0}
          BY <1>1, <2>1, <5>1, Rendered
        <5> QED
          BY <5>2, <5>3
      <4>2. \A i \in 1..Len(packets) : packets[i].no \in Nat
        BY <2>1, Numbered
      <4>3. \A i \in 1..Len(rows) : rows[i].no \in Nat /\ rows[i].no <= lastSeq
        BY <1>1, Numbered DEF FeedInv, CursorCoversRows
      <4>4. CASE l <= Len(packets)
        BY <2>1, <4>1, <4>4 DEF Descending
      <4>5. CASE ~(l <= Len(packets)) /\ k <= Len(packets)
        BY <1>1, <2>1, <4>1, <4>2, <4>3, <4>5, SMTT(30)
      <4>6. CASE ~(l <= Len(packets)) /\ ~(k <= Len(packets))
        BY <1>3, <2>1, <4>1, <4>6, SMTT(30) DEF Descending
      <4> QED
        BY <2>1, <4>4, <4>5, <4>6
    <3> QED
      BY <3>1, <3>2
  <2> QED
    BY <2>3, <2>4 DEF OrderInv, FreshCall, Idle
<1>11. ASSUME NEW proto \in Filters, SetProtoFilter(proto) PROVE OrderInv'
  <2>1. rows' = <<>> /\ Len(rows') = 0 /\ lastSeq' = 0 /\ calls' = calls
    BY <1>11 DEF SetProtoFilter, ResetPackets
  <2>2. \A c \in Calls : CallOK(calls[c])
    BY CallParts DEF FeedInv
  <2>3. ASSUME NEW c \in Calls PROVE FreshCall(calls[c])'
    <3>1. CASE calls[c] = Idle
      BY <2>1, <3>1 DEF FreshCall, Idle
    <3>2. CASE calls[c].state = "asked" /\ calls[c].after \in 0..MaxSeen
      BY <2>1, <3>2, PacketFeedAssumption DEF FreshCall
    <3>3. CASE calls[c].state = "answered" /\ calls[c].packets \in Seq(Packet)
      <4>1. \A k \in 1..Len(calls[c].packets) : calls[c].packets[k].no \in 1..MaxSeen
        BY <3>3, Numbered
      <4> QED
        BY <2>1, <3>3, <4>1, PacketFeedAssumption DEF FreshCall
    <3> QED
      BY <2>2, <3>1, <3>2, <3>3 DEF CallOK
  <2> QED
    BY <1>3, <2>1, <2>3 DEF OrderInv, Descending
<1>12. CASE UNCHANGED vars
  BY <1>3, <1>4, <1>12 DEF vars
<1> QED
  BY <1>5, <1>6, <1>7, <1>8, <1>9, <1>10, <1>11, <1>12 DEF Next

(* When every answer arrives before the next poll, each packet is shown     *)
(* once and the newest first, through filter changes and restarts           *)
(* (web_template.html:1448-1458).                                           *)
THEOREM NewestFirst == Spec => []RowsNewestFirst
<1>1. OrderInv => RowsNewestFirst
  BY DEF OrderInv, RowsNewestFirst, Descending
<1>2. QED
  BY <1>1, FeedInvariant, OrderStart, OrderStep, PTL DEF Spec

--------------------------------------------------------------------------------
(* While the table is clean, a question of the current filter was asked     *)
(* with a cursor not ahead of the present one, and a complete answer to it  *)
(* has every matching packet between the cursor and its own newest.         *)
Complete(packets) ==
    \A i \in 1..Len(ring) :
        lastSeq < ring[i].no /\ ring[i].no <= packets[1].no /\ Matches(ring[i], pktProto) =>
            \E k \in 1..Len(packets) : packets[k] = ring[i]

CleanCall(call) ==
    /\ call.state = "asked" => call.after <= lastSeq /\ call.proto = pktProto
    /\ call.state = "answered" =>
          /\ \A k \in 1..Len(call.packets) :
                Matches(call.packets[k], pktProto) /\ call.packets[k].no <= total_seen
          /\ ~call.cut /\ call.packets # <<>> => Complete(call.packets)

CleanInv ==
    clean =>
        /\ lastSeq <= total_seen
        /\ \A c \in Calls : calls[c] # Idle /\ calls[c].epoch = changes => CleanCall(calls[c])

LEMMA CleanStart == Init => CleanInv /\ CleanTableComplete
<1> SUFFICES ASSUME Init PROVE CleanInv /\ CleanTableComplete
  OBVIOUS
<1>1. Len(rows) = 0 /\ Len(ring) = 0 /\ \A c \in Calls : calls[c] = Idle
  BY DEF Init
<1> QED
  BY <1>1 DEF Init, CleanInv, CleanTableComplete

(* Steps that leave the page and the ring alone.                            *)
LEMMA CleanCallMoves ==
    ASSUME FeedInv, CleanInv, CleanTableComplete, UNCHANGED <<serverVars, tableVars, pktProto, changes, clean>>,
           NEW c \in Calls, NEW v, calls' = [calls EXCEPT ![c] = v],
           clean /\ v # Idle /\ v.epoch = changes => CleanCall(v)
    PROVE  CleanInv' /\ CleanTableComplete'
<1>1. UNCHANGED <<ring, total_seen, lastSeq, rows, markup, pktProto, changes, clean>>
  BY DEF serverVars, tableVars
<1>2. \A d \in Calls : calls'[d] = IF d = c THEN v ELSE calls[d]
  BY OneCall DEF FeedInv
<1>3. clean => \A d \in Calls : calls'[d] # Idle /\ calls'[d].epoch = changes => CleanCall(calls'[d])
  BY <1>2 DEF CleanInv
<1> QED
  BY <1>1, <1>3 DEF CleanInv, CleanCall, Complete, CleanTableComplete, ShownOrTrimmed

(* A packet recorded is newer than everything asked for, answered or shown, *)
(* and the one it may drive out of the ring is missed by nobody.            *)
LEMMA CleanStore ==
    ASSUME FeedInv, CleanInv, CleanTableComplete, NEW proto \in Protos, StorePacket(proto)
    PROVE  CleanInv' /\ CleanTableComplete'
<1>1. /\ ring \in Seq(Packet) /\ Len(ring) \in Nat /\ Len(ring) <= Capacity /\ Capacity \in Nat \ {0}
      /\ total_seen \in 0..MaxSeen /\ MaxSeen \in Nat /\ lastSeq \in Nat
  BY PacketFeedAssumption DEF FeedInv, TypeOK
<1>2. UNCHANGED <<lastSeq, rows, markup, pktProto, calls, changes, clean>>
  BY DEF StorePacket, tableVars
<1>3. total_seen' = total_seen + 1
  BY DEF StorePacket
<1>4. \A i \in 1..Len(ring') : ring'[i].no = total_seen + 1 \/ \E j \in 1..Len(ring) : ring'[i] = ring[j]
  <2> DEFINE p == [no |-> total_seen + 1, proto |-> proto]
             kept == IF Len(ring) = Capacity THEN Tail(ring) ELSE ring
  <2>1. ring' = Append(kept, p) /\ p \in Packet /\ p.no = total_seen + 1
    BY <1>1 DEF StorePacket, Packet
  <2>2. kept \in Seq(Packet) /\ \A i \in 1..Len(kept) : \E j \in 1..Len(ring) : kept[i] = ring[j]
    <3>1. CASE Len(ring) = Capacity
      <4>1. \A i \in 1..Len(Tail(ring)) : i + 1 \in 1..Len(ring) /\ Tail(ring)[i] = ring[i + 1]
        BY <1>1, <3>1
      <4> QED
        BY <1>1, <3>1, <4>1
    <3>2. CASE Len(ring) # Capacity
      BY <1>1, <3>2
    <3> QED
      BY <3>1, <3>2
  <2> HIDE DEF kept, p
  <2>3. Len(ring') = Len(kept) + 1 /\ ring'[Len(kept) + 1] = p /\ \A i \in 1..Len(kept) : ring'[i] = kept[i]
    BY <2>1, <2>2
  <2> QED
    BY <2>1, <2>2, <2>3
<1>5. CASE clean
  <2>1. lastSeq <= total_seen
    BY <1>5 DEF CleanInv
  <2>2. \A i \in 1..Len(ring') : ring'[i].no <= total_seen => \E j \in 1..Len(ring) : ring'[i] = ring[j]
    BY <1>1, <1>4
  <2>3. ASSUME NEW call, CleanCall(call), CallOK(call) PROVE CleanCall(call)'
    <3>1. CASE call.state = "asked"
      BY <1>2, <2>3, <3>1 DEF CleanCall
    <3>2. CASE call.state = "answered"
      <4>1. \A k \in 1..Len(call.packets) :
               Matches(call.packets[k], pktProto) /\ call.packets[k].no <= total_seen
        BY <2>3, <3>2 DEF CleanCall
      <4>2. call.packets \in Seq(Packet)
        BY <2>3, <3>2 DEF CallOK, Idle
      <4>3. \A k \in 1..Len(call.packets) : call.packets[k].no <= total_seen' /\ call.packets[k].no \in Nat
        BY <1>1, <1>3, <4>1, <4>2, Numbered
      <4>4. ASSUME ~call.cut, call.packets # <<>> PROVE Complete(call.packets)'
        <5>1. 1 \in 1..Len(call.packets)
          BY <4>2, <4>4
        <5>2. Complete(call.packets)
          BY <2>3, <3>2, <4>4 DEF CleanCall
        <5>3. \A i \in 1..Len(ring') : ring'[i].no <= call.packets[1].no => \E j \in 1..Len(ring) : ring'[i] = ring[j]
          BY <1>1, <1>4, <4>1, <4>3, <5>1, SMTT(30)
        <5> QED
          BY <1>2, <5>2, <5>3 DEF Complete
      <4> QED
        BY <1>2, <3>2, <4>1, <4>3, <4>4 DEF CleanCall
    <3> QED
      BY <3>1, <3>2 DEF CleanCall
  <2>4. CleanInv'
    <3>1. \A c \in Calls : calls[c] # Idle /\ calls[c].epoch = changes => CleanCall(calls[c]) /\ CallOK(calls[c])
      BY <1>5, CallParts DEF CleanInv, FeedInv
    <3>2. ASSUME NEW c \in Calls, calls'[c] # Idle, calls'[c].epoch = changes' PROVE CleanCall(calls[c])'
      <4> DEFINE call == calls[c]
      <4>1. CleanCall(call) /\ CallOK(call) /\ call' = call
        BY <1>2, <3>1, <3>2
      <4> QED
        BY <1>2, <2>3, <4>1 DEF CleanCall, Complete
    <3> QED
      BY <1>1, <1>2, <1>3, <2>1, <3>2 DEF CleanInv
  <2>5. CleanTableComplete'
    <3>1. \A i \in 1..Len(ring') : ring'[i].no <= lastSeq => \E j \in 1..Len(ring) : ring'[i] = ring[j]
      BY <1>1, <1>4, <2>1
    <3> QED
      BY <1>2, <1>5, <3>1 DEF CleanTableComplete, ShownOrTrimmed
  <2> QED
    BY <2>4, <2>5
<1>6. CASE ~clean
  BY <1>2, <1>6 DEF CleanInv, CleanTableComplete
<1> QED
  BY <1>5, <1>6

(* What was wanted and is not below the last packet answered is in a        *)
(* complete answer.                                                         *)
LEMMA CleanServe ==
    ASSUME FeedInv, CleanInv, CleanTableComplete, NEW c \in Calls, Serve(c)
    PROVE  CleanInv' /\ CleanTableComplete'
<1>1. PICK n \in 0..Limit : \E picked \in [1..n -> Wanted(calls[c].after, calls[c].proto)] : ServedAs(c, n, picked)
  BY DEF Serve, ServedAs, Served, FeedInv, TypeOK
<1>2. PICK picked \in [1..n -> Wanted(calls[c].after, calls[c].proto)] : ServedAs(c, n, picked)
  BY <1>1
<1> DEFINE v == Served(c, n, picked)
<1>3. /\ UNCHANGED <<serverVars, tableVars, pktProto, changes, clean>>
      /\ calls' = [calls EXCEPT ![c] = v] /\ calls[c] # Idle
  <2>1. calls' = [calls EXCEPT ![c] = v]
    BY <1>2 DEF ServedAs
  <2>2. calls[c] # Idle
    BY DEF Serve, Idle
  <2>3. UNCHANGED <<serverVars, tableVars, pktProto, changes, clean>>
    BY DEF Serve
  <2> QED
    BY <2>1, <2>2, <2>3
<1>4. ASSUME clean, v.epoch = changes PROVE CleanCall(v)
  <2>1. calls[c].epoch = changes /\ calls[c].state = "asked" /\ v.state = "answered"
    BY <1>4 DEF Served, Serve
  <2>2. calls[c].after <= lastSeq /\ calls[c].proto = pktProto
    BY <1>3, <1>4, <2>1 DEF CleanInv, CleanCall
  <2>3. /\ v.packets \in Seq(Packet) /\ Len(v.packets) = n
        /\ \A k \in 1..n : Matches(v.packets[k], pktProto) /\ v.packets[k].no <= total_seen
    BY <1>2, <2>2, Answered, SMTT(30) DEF ServedAs, Served
  <2>4. calls[c].after \in Nat /\ lastSeq \in Nat /\ ring \in Seq(Packet)
    BY <2>1, CallParts, PacketFeedAssumption, SMTT(30) DEF FeedInv, TypeOK, CallOK, Idle
  <2>5. ASSUME ~v.cut PROVE Complete(v.packets)
    <3> SUFFICES ASSUME NEW i \in 1..Len(ring), lastSeq < ring[i].no, Matches(ring[i], pktProto)
                 PROVE  \E k \in 1..Len(v.packets) : v.packets[k] = ring[i]
      BY DEF Complete
    <3>1. ring[i].no > calls[c].after
      BY <2>2, <2>4, Numbered
    <3>2. i \in Wanted(calls[c].after, calls[c].proto)
      BY <2>2, <3>1 DEF Wanted
    <3>3. PICK k \in 1..n : picked[k] = i
      BY <2>5, <3>2 DEF Served
    <3>4. v.packets[k] = ring[i]
      BY <3>3 DEF Served
    <3> HIDE DEF v
    <3> QED
      BY <2>3, <3>4
  <2> HIDE DEF v
  <2> QED
    BY <2>1, <2>3, <2>5 DEF CleanCall
<1> HIDE DEF v
<1> QED
  BY <1>3, <1>4, CleanCallMoves

(* A complete answer closes the gap up to the new cursor.                   *)
LEMMA CleanReceive ==
    ASSUME FeedInv, CleanInv, CleanTableComplete, NEW c \in Calls, Receive(c), clean'
    PROVE  CleanInv' /\ CleanTableComplete'
<1> DEFINE packets == calls[c].packets
<1>1. /\ packets \in Seq(Packet) /\ Descending(packets) /\ calls[c] # Idle /\ calls[c].state = "answered"
      /\ calls' = [calls EXCEPT ![c] = Idle]
      /\ UNCHANGED <<ring, total_seen, markup, pktProto, changes>>
      /\ lastSeq' = Advance(packets) /\ rows' = (IF packets = <<>> THEN rows ELSE Render(packets))
      /\ clean /\ (packets = <<>> \/ (calls[c].epoch = changes /\ ~calls[c].cut))
  <2>1. /\ packets \in Seq(Packet) /\ Descending(packets) /\ calls[c] # Idle /\ calls[c].state = "answered"
        /\ clean \in BOOLEAN
    BY DEF Receive, Idle, FeedInv, TypeOK, CallsOrdered
  <2>2. /\ calls' = [calls EXCEPT ![c] = Idle]
        /\ lastSeq' = Advance(packets) /\ rows' = (IF packets = <<>> THEN rows ELSE Render(packets))
        /\ UNCHANGED <<ring, total_seen, markup, pktProto, changes>>
    BY DEF Receive, serverVars
  <2>3. clean /\ (packets = <<>> \/ (calls[c].epoch = changes /\ ~calls[c].cut))
    BY <2>1 DEF Receive
  <2> QED
    BY <2>1, <2>2, <2>3
<1>2. /\ rows \in Seq(Packet) /\ ring \in Seq(Packet) /\ total_seen \in Nat /\ lastSeq \in Nat
      /\ Len(rows) \in Nat /\ MaxRows \in Nat /\ (~markup => Len(rows) <= MaxRows)
  BY PacketFeedAssumption DEF FeedInv, TypeOK
<1>3. \A d \in Calls : calls'[d] = IF d = c THEN Idle ELSE calls[d]
  BY <1>1, OneCall DEF FeedInv
<1>4. CleanCall(calls[c]) \/ packets = <<>>
  BY <1>1 DEF CleanInv
<1> HIDE DEF packets
<1>5. lastSeq <= total_seen
  BY <1>1 DEF CleanInv
<1>6. CASE packets = <<>>
  <2>1. UNCHANGED <<lastSeq, rows>>
    BY <1>1, <1>6 DEF Advance
  <2> QED
    BY <1>1, <1>3, <2>1 DEF CleanInv, CleanCall, Complete, CleanTableComplete, ShownOrTrimmed
<1>7. CASE packets # <<>>
  <2>1. 1 \in 1..Len(packets) /\ packets[1].no \in Nat
    BY <1>1, <1>7, Numbered
  <2>2. /\ \A k \in 1..Len(packets) : Matches(packets[k], pktProto) /\ packets[k].no <= total_seen
        /\ Complete(packets)
    BY <1>1, <1>4, <1>7 DEF CleanCall, packets
  <2>3. /\ lastSeq' \in Nat /\ lastSeq <= lastSeq' /\ lastSeq' <= total_seen
        /\ lastSeq' = lastSeq \/ lastSeq' = packets[1].no
    BY <1>1, <1>2, <1>5, <1>7, <2>1, <2>2 DEF Advance
  <2>4. /\ rows' \in Seq(Packet) /\ (~markup => Len(rows') <= MaxRows)
        /\ (~markup /\ Len(rows') = MaxRows) \/ Len(rows') = Len(packets) + Len(rows)
        /\ \A i \in 1..Len(rows') :
              IF i <= Len(packets)
              THEN rows'[i] = packets[i]
              ELSE i - Len(packets) \in 1..Len(rows) /\ rows'[i] = rows[i - Len(packets)]
    BY <1>1, <1>2, <1>7, Rendered
  <2>5. \A i \in 1..Len(rows') : Matches(rows'[i], pktProto)
    <3> SUFFICES ASSUME NEW i \in 1..Len(rows') PROVE Matches(rows'[i], pktProto)
      OBVIOUS
    <3>1. CASE i <= Len(packets)
      <4>1. i \in 1..Len(packets)
        BY <1>1, <2>4, <3>1
      <4> QED
        BY <2>2, <2>4, <3>1, <4>1
    <3>2. CASE ~(i <= Len(packets))
      BY <1>1, <2>4, <3>2 DEF CleanTableComplete
    <3> QED
      BY <3>1, <3>2
  <2>6. ASSUME markup \/ Len(rows') # MaxRows
        PROVE  /\ \A k \in 1..Len(packets) : \E i \in 1..Len(rows') : rows'[i] = packets[k]
               /\ \A j \in 1..Len(rows) : \E i \in 1..Len(rows') : rows'[i] = rows[j]
    <3>1. Len(rows') = Len(packets) + Len(rows)
      BY <2>4, <2>6
    <3>2. \A k \in 1..Len(packets) : k \in 1..Len(rows') /\ rows'[k] = packets[k]
      BY <1>1, <1>2, <2>4, <3>1
    <3>3. ASSUME NEW j \in 1..Len(rows) PROVE j + Len(packets) \in 1..Len(rows') /\ rows'[j + Len(packets)] = rows[j]
      <4>1. j + Len(packets) \in 1..Len(rows') /\ ~(j + Len(packets) <= Len(packets)) /\ (j + Len(packets)) - Len(packets) = j
        BY <1>1, <1>2, <3>1
      <4> QED
        BY <2>4, <4>1
    <3> QED
      BY <3>2, <3>3
  <2>7. ASSUME NEW i \in 1..Len(ring), ring[i].no <= lastSeq', Matches(ring[i], pktProto), markup \/ Len(rows') # MaxRows
        PROVE  \E j \in 1..Len(rows') : rows'[j] = ring[i]
    <3>1. CASE ring[i].no <= lastSeq
      <4>1. markup \/ Len(rows) # MaxRows
        BY <1>1, <1>2, <2>1, <2>4, <2>7
      <4>2. \E j \in 1..Len(rows) : rows[j] = ring[i]
        BY <1>1, <2>7, <3>1, <4>1 DEF CleanTableComplete, ShownOrTrimmed
      <4> QED
        BY <2>6, <2>7, <4>2
    <3>2. CASE ~(ring[i].no <= lastSeq)
      <4>1. lastSeq < ring[i].no /\ ring[i].no <= packets[1].no
        BY <1>2, <2>3, <2>7, <3>2, Numbered
      <4>2. \E k \in 1..Len(packets) : packets[k] = ring[i]
        BY <2>2, <2>7, <4>1 DEF Complete
      <4> QED
        BY <2>6, <2>7, <4>2
    <3> QED
      BY <3>1, <3>2
  <2>8. CleanTableComplete'
    BY <1>1, <2>5, <2>7 DEF CleanTableComplete, ShownOrTrimmed
  <2>9. ASSUME NEW call, CleanCall(call), call # Idle, CallOK(call) PROVE CleanCall(call)'
    <3>1. call.state = "asked" => call.after \in Nat
      BY <2>9, PacketFeedAssumption DEF CallOK, Idle
    <3>2. call.state = "asked" => call.after <= lastSeq' /\ call.proto = pktProto'
      BY <1>1, <1>2, <2>3, <2>9, <3>1 DEF CleanCall
    <3>3. \A i \in 1..Len(ring) : ring[i].no \in Nat
      BY <1>2, Numbered
    <3>4. ASSUME NEW answer, Complete(answer) PROVE Complete(answer)'
      <4> SUFFICES ASSUME NEW i \in 1..Len(ring), lastSeq' < ring[i].no,
                          ring[i].no <= answer[1].no, Matches(ring[i], pktProto)
                   PROVE  \E k \in 1..Len(answer) : answer[k] = ring[i]
        BY <1>1 DEF Complete
      <4>1. lastSeq < ring[i].no
        BY <1>2, <2>3, <3>3
      <4> QED
        BY <3>4, <4>1 DEF Complete
    <3> QED
      BY <1>1, <2>9, <3>2, <3>4 DEF CleanCall
  <2>10. CleanInv'
    <3>1. \A d \in Calls : calls[d] # Idle /\ calls[d].epoch = changes => CleanCall(calls[d]) /\ CallOK(calls[d])
      BY <1>1, CallParts DEF CleanInv, FeedInv
    <3>2. ASSUME NEW d \in Calls, calls'[d] # Idle, calls'[d].epoch = changes' PROVE CleanCall(calls[d])'
      <4> DEFINE call == calls[d]
      <4>1. CleanCall(call) /\ CallOK(call) /\ call' = call /\ call # Idle
        BY <1>1, <1>3, <3>1, <3>2
      <4>2. PICK k : k = call
        OBVIOUS
      <4>3. CleanCall(k)'
        BY <2>9, <4>1, <4>2
      <4> QED
        BY <4>1, <4>2, <4>3 DEF CleanCall, Complete
    <3> QED
      BY <1>1, <2>3, <3>2 DEF CleanInv
  <2> QED
    BY <2>8, <2>10
<1> QED
  BY <1>6, <1>7

LEMMA CleanStep == FeedInv /\ CleanInv /\ CleanTableComplete /\ [Next]_vars => CleanInv' /\ CleanTableComplete'
<1> SUFFICES ASSUME FeedInv, CleanInv, CleanTableComplete, [Next]_vars PROVE CleanInv' /\ CleanTableComplete'
  OBVIOUS
<1>1. ASSUME NEW proto \in Protos, StorePacket(proto) PROVE CleanInv' /\ CleanTableComplete'
  BY <1>1, CleanStore
<1>2. CASE ServerRestarts
  BY <1>2 DEF ServerRestarts, CleanInv, CleanTableComplete
<1>3. ASSUME NEW c \in Calls, Poll(c) PROVE CleanInv' /\ CleanTableComplete'
  <2> DEFINE v == [state |-> "asked", after |-> lastSeq, proto |-> pktProto, epoch |-> changes]
  <2>1. CleanCall(v)
    BY DEF CleanCall, FeedInv, TypeOK
  <2> HIDE DEF v
  <2>2. calls' = [calls EXCEPT ![c] = v] /\ UNCHANGED <<serverVars, tableVars, pktProto, changes, clean>>
    BY <1>3 DEF Poll, v
  <2> QED
    BY <2>1, <2>2, CleanCallMoves
<1>4. ASSUME NEW c \in Calls, Serve(c) PROVE CleanInv' /\ CleanTableComplete'
  BY <1>4, CleanServe
<1>5. ASSUME NEW c \in Calls, Fail(c) PROVE CleanInv' /\ CleanTableComplete'
  BY <1>5, CleanCallMoves DEF Fail
<1>6. ASSUME NEW c \in Calls, Receive(c) PROVE CleanInv' /\ CleanTableComplete'
  <2>1. CASE clean'
    BY <1>6, <2>1, CleanReceive
  <2>2. CASE ~clean'
    BY <2>2 DEF CleanInv, CleanTableComplete
  <2> QED
    BY <2>1, <2>2
<1>7. ASSUME NEW proto \in Filters, SetProtoFilter(proto) PROVE CleanInv' /\ CleanTableComplete'
  <2>1. /\ rows' = <<>> /\ Len(rows') = 0 /\ lastSeq' = 0 /\ calls' = calls /\ changes' = changes + 1
        /\ ring' = ring /\ total_seen' = total_seen /\ pktProto' = proto
    BY <1>7 DEF SetProtoFilter, ResetPackets, serverVars
  <2>2. total_seen \in Nat /\ changes \in Nat /\ ring \in Seq(Packet)
    BY PacketFeedAssumption DEF FeedInv, TypeOK
  <2>3. \A c \in Calls : calls'[c] # Idle => calls'[c].epoch # changes'
    BY <2>1, <2>2 DEF FeedInv, CallsOrdered
  <2>4. \A i \in 1..Len(ring') : ~(ring'[i].no <= lastSeq')
    BY <2>1, <2>2, Numbered, PacketFeedAssumption
  <2> QED
    BY <2>1, <2>2, <2>3, <2>4 DEF CleanInv, CleanTableComplete
<1>8. CASE UNCHANGED vars
  BY <1>8 DEF vars, serverVars, tableVars, CleanInv, CleanCall, Complete, CleanTableComplete, ShownOrTrimmed
<1> QED
  BY <1>1, <1>2, <1>3, <1>4, <1>5, <1>6, <1>7, <1>8 DEF Next

(* Polls that overlap or fail lose nothing: as long as no answer was cut or *)
(* belongs to an old filter, a packet the cursor has passed and the server  *)
(* still has is shown (web_template.html:1427-1463).                        *)
THEOREM NothingSkipped == Spec => []CleanTableComplete
BY FeedInvariant, CleanStart, CleanStep, PTL DEF Spec
================================================================================
