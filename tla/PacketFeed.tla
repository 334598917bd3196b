------------------------------- MODULE PacketFeed -------------------------------
(***************************************************************************)
(* The packet viewer of dashboard_ui/web_template.html and the route       *)
(* /api/packets of siem.py.  The page polls on a timer that does not wait  *)
(* for the previous answer, so several requests may be under way; the      *)
(* server answers one at a time from the ring of PacketStore; an answer    *)
(* may be overtaken by a later one or be lost.                             *)
(*                                                                         *)
(* A packet is its number and its protocol.  The text filter works as the  *)
(* protocol filter does and is left out; so is the pause button.           *)
(***************************************************************************)
EXTENDS Integers, Sequences, SequencesExt, FiniteSets, FiniteSetsExt

CONSTANTS
    Protos,
    AllProtos,      (* the filter "ALL"                                    *)
    Capacity,       (* maxlen of the ring                                  *)
    Limit,          (* packets of an answer (500)                          *)
    MaxRows,        (* MAX_PKT_ROWS                                        *)
    Calls,          (* calls of fetchPackets that may be under way         *)
    MaxSeen,        (* bound on packets recorded by one server process     *)
    MaxChanges,     (* bound on changes of the filter                      *)
    MaxRestarts     (* bound on restarts of the server process             *)

ASSUME PacketFeedAssumption ==
    /\ AllProtos \notin Protos
    /\ {Capacity, Limit, MaxRows} \subseteq Nat \ {0}
    /\ {MaxSeen, MaxChanges, MaxRestarts} \subseteq Nat

VARIABLES
    ring,           (* the server: packets, oldest first                   *)
    total_seen,     (* the server: number of its newest packet             *)
    lastSeq,        (* the page: highest number already rendered           *)
    rows,           (* the page: rows of the table, first row first        *)
    markup,         (* the page: white space of the page's source still    *)
                    (* follows the rows in the body of the table           *)
    pktProto,       (* the page: filter                                    *)
    calls,          (* call of fetchPackets -> what it asked or was given  *)
    changes,        (* filter changes so far                               *)
    restarts,       (* restarts of the server so far                       *)
    clean,          (* history: since the table was last emptied, the      *)
                    (* server has not restarted and every answer rendered  *)
                    (* was complete and to a question asked after that     *)
    overlapped      (* history: two calls were under way at once           *)

serverVars == <<ring, total_seen, restarts>>
tableVars == <<lastSeq, rows, markup>>
vars == <<serverVars, tableVars, pktProto, calls, changes, clean, overlapped>>

Packet == [no : 1..MaxSeen, proto : Protos]
Filters == Protos \cup {AllProtos}
Idle == [state |-> "idle"]

(* What is rendered or under way comes from a ring; the table is bounded   *)
(* once it has been emptied by the page itself.                             *)
TypeOK ==
    /\ ring \in Seq(Packet) /\ Len(ring) <= Capacity
    /\ total_seen \in 0..MaxSeen
    /\ lastSeq \in 0..MaxSeen
    /\ rows \in Seq(Packet) /\ markup \in BOOLEAN /\ (~markup => Len(rows) <= MaxRows)
    /\ pktProto \in Filters
    /\ DOMAIN calls = Calls
    /\ \A c \in Calls :
          \/ calls[c] = Idle
          \/ calls[c].state = "asked" /\ calls[c].after \in 0..MaxSeen /\ calls[c].proto \in Filters
          \/ calls[c].state = "answered" /\ calls[c].packets \in Seq(Packet) /\ Len(calls[c].packets) <= Limit
    /\ changes \in 0..MaxChanges /\ restarts \in 0..MaxRestarts
    /\ clean \in BOOLEAN /\ overlapped \in BOOLEAN

Init ==
    /\ ring = <<>> /\ total_seen = 0 /\ restarts = 0
    /\ lastSeq = 0 /\ rows = <<>> /\ markup = TRUE
    /\ pktProto = AllProtos /\ changes = 0 /\ clean = TRUE /\ overlapped = FALSE
    /\ calls = [c \in Calls |-> Idle]

--------------------------------------------------------------------------------
First(seq, count) == SubSeq(seq, 1, IF Len(seq) < count THEN Len(seq) ELSE count)

StorePacket(proto) ==
    /\ total_seen < MaxSeen
    /\ total_seen' = total_seen + 1
    /\ LET packet == [no |-> total_seen + 1, proto |-> proto]
       IN ring' = Append(IF Len(ring) = Capacity THEN Tail(ring) ELSE ring, packet)
    /\ UNCHANGED <<restarts, tableVars, pktProto, calls, changes, clean, overlapped>>

(* A new sensor process starts with an empty store and numbers from one;    *)
(* what the old one had not answered fails (`catch` in fetchPackets).       *)
ServerRestarts ==
    /\ restarts < MaxRestarts
    /\ restarts' = restarts + 1
    /\ ring' = <<>>
    /\ total_seen' = 0
    /\ calls' = [c \in Calls |-> IF calls[c].state = "asked" THEN Idle ELSE calls[c]]
    /\ clean' = FALSE
    /\ UNCHANGED <<tableVars, pktProto, changes, overlapped>>

Matches(packet, proto) == proto = AllProtos \/ packet.proto = proto

(* PacketStore.get_recent: where the packets asked for are in the ring ...   *)
Wanted(after, proto) ==
    {i \in 1..Len(ring) : ring[i].no > after /\ Matches(ring[i], proto)}

(* ... and the newest Limit of them, the newest first.                      *)
Newest(picked, wanted) ==
    /\ \A k, l \in 1..Len(picked) : k < l => picked[k] > picked[l]
    /\ \A i \in wanted :
          \/ \E k \in 1..Len(picked) : picked[k] = i
          \/ Len(picked) = Limit /\ \A k \in 1..Limit : i < picked[k]

(* fetchPackets up to the await: the question holds lastSeq and the filter  *)
(* of this moment.  `epoch` is history.                                     *)
Poll(c) ==
    /\ calls[c] = Idle
    /\ calls' = [calls EXCEPT ![c] =
         [state |-> "asked", after |-> lastSeq, proto |-> pktProto, epoch |-> changes]]
    /\ overlapped' = (overlapped \/ \E other \in Calls : calls[other] # Idle)
    /\ UNCHANGED <<serverVars, tableVars, pktProto, changes, clean>>

Serve(c) ==
    /\ calls[c].state = "asked"
    /\ LET wanted == Wanted(calls[c].after, calls[c].proto)
       IN \E n \in 0..Limit : \E picked \in [1..n -> wanted] :
             /\ Newest(picked, wanted)
             /\ calls' = [calls EXCEPT ![c] =
                  [state   |-> "answered",
                   packets |-> [k \in 1..n |-> ring[picked[k]]],
                   cut     |-> \E i \in wanted : \A k \in 1..n : picked[k] # i,
                   epoch   |-> @.epoch]]
    /\ UNCHANGED <<serverVars, tableVars, pktProto, changes, clean, overlapped>>

Fail(c) ==
    /\ calls[c] # Idle
    /\ calls' = [calls EXCEPT ![c] = Idle]
    /\ UNCHANGED <<serverVars, tableVars, pktProto, changes, clean, overlapped>>

(* Mutants: the cursor follows the latest answer even when it was overtaken; *)
(* the table is not trimmed; the rows are added at the wrong end.            *)
Advance_Overwrites(packets) == IF packets = <<>> THEN lastSeq ELSE packets[1].no
Render_Untrimmed(packets) == packets \o rows
Render_Below(packets) == First(rows \o packets, MaxRows)

Advance(packets) == IF packets # <<>> /\ packets[1].no > lastSeq THEN packets[1].no ELSE lastSeq

(* The trim asks the last node of the body for an attribute.  While that    *)
(* node is white space of the page's source the request throws, before      *)
(* anything is removed: the rows stay, however many.                        *)
Render(packets) == IF markup THEN packets \o rows ELSE First(packets \o rows, MaxRows)

(* fetchPackets after the await; an empty answer changes nothing.  What the *)
(* trim throws is caught, and nothing but the scrolling came after it.      *)
Receive(c) ==
    /\ calls[c].state = "answered"
    /\ LET answer == calls[c] IN
          /\ lastSeq' = Advance(answer.packets)
          /\ rows' = IF answer.packets = <<>> THEN rows ELSE Render(answer.packets)
          /\ clean' = (clean /\ (answer.packets = <<>> \/ (answer.epoch = changes /\ ~answer.cut)))
    /\ calls' = [calls EXCEPT ![c] = Idle]
    /\ UNCHANGED <<serverVars, markup, pktProto, changes, overlapped>>

(* Mutant: resetPackets leaves the cursor where it was. *)
ResetPackets_KeepCursor == rows' = <<>> /\ markup' = FALSE /\ UNCHANGED lastSeq

(* packetEmptyState is one row with nothing behind it. *)
ResetPackets == rows' = <<>> /\ markup' = FALSE /\ lastSeq' = 0

SetProtoFilter(proto) ==
    /\ changes < MaxChanges
    /\ changes' = changes + 1
    /\ pktProto' = proto
    /\ ResetPackets
    /\ clean' = TRUE
    /\ UNCHANGED <<serverVars, calls, overlapped>>

Next ==
    \/ \E proto \in Protos : StorePacket(proto)
    \/ ServerRestarts
    \/ \E c \in Calls : Poll(c) \/ Serve(c) \/ Receive(c) \/ Fail(c)
    \/ \E proto \in Filters : SetProtoFilter(proto)

Spec == Init /\ [][Next]_vars

--------------------------------------------------------------------------------
(* "highest packet no. already rendered": however answers overtake one      *)
(* another, no row is newer than the cursor the next question is asked with.*)
CursorCoversRows == \A i \in 1..Len(rows) : rows[i].no <= lastSeq

ShownOrTrimmed(packet) ==
    (~markup /\ Len(rows) = MaxRows) \/ \E i \in 1..Len(rows) : rows[i] = packet

(* Polls that overlap or fail lose nothing: as long as the table is clean,  *)
(* all its rows match the filter, and a packet the cursor has passed and    *)
(* the server still has is shown.                                           *)
CleanTableComplete ==
    clean =>
        /\ \A i \in 1..Len(rows) : Matches(rows[i], pktProto)
        /\ \A i \in 1..Len(ring) :
              ring[i].no <= lastSeq /\ Matches(ring[i], pktProto) => ShownOrTrimmed(ring[i])

(* When every answer arrives before the next poll, each packet is shown     *)
(* once and the newest first, through filter changes and restarts.          *)
RowsNewestFirst ==
    ~overlapped => \A i, j \in 1..Len(rows) : i < j => rows[i].no > rows[j].no

(* web_template.html: "Packets matching the current filter will appear      *)
(* here": a matching packet the server still has is not passed over.        *)
MatchingPacketsAppear ==
    (\A c \in Calls : calls[c] = Idle) =>
        \A i \in 1..Len(ring) :
            ring[i].no <= lastSeq /\ Matches(ring[i], pktProto) => ShownOrTrimmed(ring[i])

(* "cap DOM rows for smooth scrolling" (web_template.html:1265).            *)
TableCapped == Len(rows) <= MaxRows

(* The page's table and its cursor agree, whatever the order of the answers *)
(* (web_template.html:1427-1463).                                           *)
TableConsistent == TypeOK /\ CursorCoversRows
================================================================================
