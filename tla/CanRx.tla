------------------------------- MODULE CanRx -------------------------------
(***************************************************************************)
(* Reception of CAN frames (can_bus.c).  A device sends every frame over   *)
(* two buses; two receive interrupts put the copies into one ring, and     *)
(* CanProcess of the main loop takes them out, drops the second copies and *)
(* has each frame parsed once.                                             *)
(*                                                                         *)
(* The interrupt of FDCAN1 (priority 5) may preempt the one of FDCAN2      *)
(* (priority 6) inside can_rx_push, and both may preempt the main loop.    *)
(*                                                                         *)
(* One entry of the tables of CanProcess is modelled: the frames of all    *)
(* devices whose identifiers have the same CAN_DEVICE_INDEX.  A frame is   *)
(* its identifier and data (`content') and its number, which only the      *)
(* properties look at.  Left out, because nothing in the code reads it:    *)
(* device_can_error and the pending_bus and pending_timeout behind it.     *)
(***************************************************************************)
EXTENDS Integers, Sequences

CONSTANTS
    Content,        \* identifiers and data a frame can have
    RingSize,       \* CAN_RX_RING_SIZE
    \* bounds on what happens: copies a bus may hold that are not in the ring
    \* yet, frames sent, copies lost
    Lag, MaxFrames, MaxLost

ASSUME RingAssumption == RingSize \in Nat /\ RingSize > 1
ASSUME BusAssumption == Lag \in Nat /\ MaxFrames \in Nat /\ MaxLost \in Nat

VARIABLES
    bus,            \* per bus, the copies on the wire or in the controller's FIFO
    ring,           \* can_rx_ring, can_rx_head, can_rx_tail
    push2,          \* can_rx_push of the FDCAN2 interrupt, between two steps
    main,           \* the loop of CanProcess, between two steps
    last,           \* per bus, last_id and last_data of the index
    sent,           \* contents of the frames sent so far
    parsed,         \* number and bus of the copies handed to ProtocolParse
    missed          \* (ghost) what went wrong: copies lost, pushes that met, a
                    \* crowded ring, buses that were apart

vars == <<bus, ring, push2, main, last, sent, parsed, missed>>

Bus == {1, 2}
OtherBus(b) == 3 - b
NoContent == [none |-> TRUE]        \* CAN_ID_NONE
Idle == [at |-> "idle"]
NoFrame == [num |-> 0, content |-> NoContent, bus |-> 1]

ASSUME ContentAssumption == NoContent \notin Content

\* (mutant) the index wraps one slot too late
NextIndexLate(i) == IF i = RingSize THEN 0 ELSE i + 1

NextIndex(i) == IF i + 1 >= RingSize THEN 0 ELSE i + 1
-----------------------------------------------------------------------------
Init ==
    /\ bus = [b \in Bus |-> <<>>]
    /\ ring = [slot |-> [i \in 0 .. RingSize - 1 |-> NoFrame], head |-> 0, tail |-> 0]
    /\ push2 = Idle
    /\ main = Idle
    /\ last = [b \in Bus |-> NoContent]
    /\ sent = <<>>
    /\ parsed = <<>>
    /\ missed = [lost |-> 0, met |-> FALSE, crowded |-> FALSE,
                 apart |-> FALSE]

(* The devices and the buses. *)

\* Copies that are not in the ring yet, the one of a preempted push included.
NotInRing(b) == Len(bus[b]) + IF b = 2 /\ push2 # Idle THEN 1 ELSE 0

\* A device sends its next frame over both buses.
Send(c) ==
    /\ Len(sent) < MaxFrames
    /\ \A b \in Bus : NotInRing(b) < Lag
    /\ sent' = Append(sent, c)
    /\ bus' = [b \in Bus |-> Append(bus[b], [num |-> Len(sent) + 1, content |-> c, bus |-> b])]
    /\ UNCHANGED <<ring, push2, main, last, parsed, missed>>

\* A copy is lost: the line is cut, or the FIFO of the controller is full.
Lose(b) ==
    /\ missed.lost < MaxLost
    /\ bus[b] # <<>>
    /\ bus' = [bus EXCEPT ![b] = Tail(@)]
    /\ missed' = [missed EXCEPT !.lost = @ + 1]
    /\ UNCHANGED <<ring, push2, main, last, sent, parsed>>
-----------------------------------------------------------------------------
(* can_rx_push *)

\* A bus has yet to bring an earlier frame than the n-th: pushed over the other
\* bus now, the n-th overtakes it.
EarlierWaits(b, n) ==
    \/ bus[b] # <<>> /\ Head(bus[b]).num < n
    \/ b = 2 /\ push2 # Idle /\ push2.frame.num < n

Full == NextIndex(ring.head) = ring.tail

\* The push fills the last slot, or there is none: what CanProcess reads of an
\* entry it has already taken out is no longer safe.
Crowded == ring.tail \in {NextIndex(ring.head), NextIndex(NextIndex(ring.head))}

\* A full ring forgets its oldest entry.
RoomMade == IF Full THEN [ring EXCEPT !.tail = NextIndex(@)] ELSE ring

\* The head is read anew for every write to the slot; the index stored in the
\* end was computed when the push began.
Stored(r, frame, next) == [r EXCEPT !.slot[r.head] = frame, !.head = next]

\* Nothing preempts the interrupt of FDCAN1 in favour of CAN.
Push1 ==
    /\ bus[1] # <<>>
    /\ ring' = Stored(RoomMade, Head(bus[1]), NextIndex(ring.head))
    /\ bus' = [bus EXCEPT ![1] = Tail(@)]
    /\ missed' = [missed EXCEPT !.crowded = @ \/ Crowded, !.met = @ \/ push2 # Idle,
                                 !.apart = @ \/ EarlierWaits(2, Head(bus[1]).num)]
    /\ UNCHANGED <<push2, main, last, sent, parsed>>

BeginPush2 ==
    /\ push2 = Idle
    /\ bus[2] # <<>>
    /\ push2' = [at |-> "store", frame |-> Head(bus[2]), next |-> NextIndex(ring.head)]
    /\ bus' = [bus EXCEPT ![2] = Tail(@)]
    /\ ring' = RoomMade
    /\ missed' = [missed EXCEPT !.crowded = @ \/ Crowded,
                                 !.apart = @ \/ EarlierWaits(1, Head(bus[2]).num)]
    /\ UNCHANGED <<main, last, sent, parsed>>

EndPush2 ==
    /\ push2 # Idle
    /\ ring' = Stored(ring, push2.frame, push2.next)
    /\ push2' = Idle
    /\ UNCHANGED <<bus, main, last, sent, parsed, missed>>
-----------------------------------------------------------------------------
(* CanProcess: the main loop, held up while an interrupt runs *)

\* The entry is remembered by its place in the ring ...
TakeEntry ==
    /\ push2 = Idle /\ main = Idle
    /\ ring.head # ring.tail
    /\ main' = [at |-> "advance", entry |-> ring.tail]
    /\ UNCHANGED <<bus, ring, push2, last, sent, parsed, missed>>

\* ... the tail goes on from the value read before ...
AdvanceTail ==
    /\ push2 = Idle /\ main.at = "advance"
    /\ ring' = [ring EXCEPT !.tail = NextIndex(main.entry)]
    /\ main' = [main EXCEPT !.at = "handle"]
    /\ UNCHANGED <<bus, push2, last, sent, parsed, missed>>

\* (mutant) the filter knows only the bus the frame came from
IsDuplicateOfOwnBus(e) == e.content = last[e.bus]

\* (mutant) identifiers are compared and data are not; here Content is the data
IsDuplicateById(e) == \E b \in Bus : last[b] # NoContent

\* The content came last over the other bus, or over this one.
IsDuplicate(e) == e.content \in {last[OtherBus(e.bus)], last[e.bus]}

\* ... and only now the entry is read.
HandleEntry ==
    LET e == ring.slot[main.entry]
    IN  /\ push2 = Idle /\ main.at = "handle"
        /\ parsed' = IF IsDuplicate(e) THEN parsed ELSE Append(parsed, [num |-> e.num, bus |-> e.bus])
        /\ last' = [last EXCEPT ![e.bus] = e.content]
        /\ main' = Idle
        /\ UNCHANGED <<bus, ring, push2, sent, missed>>

Next ==
    \/ \E c \in Content : Send(c)
    \/ \E b \in Bus : Lose(b)
    \/ Push1
    \/ BeginPush2
    \/ EndPush2
    \/ TakeEntry
    \/ AdvanceTail
    \/ HandleEntry

Spec == Init /\ [][Next]_vars
-----------------------------------------------------------------------------
(* Properties *)

Frame == [num : 0 .. MaxFrames, content : Content \cup {NoContent}, bus : Bus]

TypeOK ==
    /\ bus \in [Bus -> Seq(Frame)]
    /\ \A b \in Bus : Len(bus[b]) <= Lag
    /\ ring \in [slot : [0 .. RingSize - 1 -> Frame],
                 head : 0 .. RingSize - 1, tail : 0 .. RingSize - 1]
    /\ push2 \in {Idle} \cup [at : {"store"}, frame : Frame, next : 0 .. RingSize - 1]
    /\ main \in {Idle} \cup [at : {"advance", "handle"}, entry : 0 .. RingSize - 1]
    /\ last \in [Bus -> Content \cup {NoContent}]
    /\ sent \in Seq(Content) /\ Len(sent) <= MaxFrames
    /\ parsed \in Seq([num : 0 .. MaxFrames, bus : Bus])
    /\ missed \in [lost : 0 .. MaxLost, met : BOOLEAN, crowded : BOOLEAN, apart : BOOLEAN]

\* While the ring never ran full, what is parsed of one bus is in the order it
\* was sent in and never comes twice, whichever pushes meet, whatever copies are
\* lost and however far one bus is behind the other.  As long as neither bus
\* overtook the other by a whole frame the same is so of both together: no
\* frame is parsed twice (can_rx_push, CanProcess).
ParsedOnceInOrder ==
    missed.crowded \/
        \A i, j \in DOMAIN parsed :
            i < j /\ (~missed.apart \/ parsed[i].bus = parsed[j].bus) =>
                parsed[i].num < parsed[j].num

\* can_bus.h, lines 47-48: the protocol is called once for every unique packet.
EachParsedOnce ==
    missed.crowded \/
        \A i, j \in DOMAIN parsed : i # j => parsed[i].num # parsed[j].num

Resting ==
    /\ \A b \in Bus : bus[b] = <<>>
    /\ push2 = Idle /\ main = Idle
    /\ ring.head = ring.tail

\* When no copy was lost and neither bus overtook the other, every frame that
\* differs from the one before it has been parsed once the ring is empty
\* (can_rx_push, CanProcess).
ChangesAreParsed ==
    Resting /\ missed = [lost |-> 0, met |-> FALSE, crowded |-> FALSE, apart |-> FALSE] =>
        \A n \in DOMAIN sent :
            n = 1 \/ sent[n] # sent[n - 1] => \E i \in DOMAIN parsed : parsed[i].num = n
=============================================================================
