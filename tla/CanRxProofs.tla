---------------------------- MODULE CanRxProofs ----------------------------
(***************************************************************************)
(* What holds of the reception of CAN frames for any size of the ring and  *)
(* any contents and however far one bus is behind the other: the types,    *)
(* the order and the completeness of what is parsed.                       *)
(***************************************************************************)
EXTENDS CanRx, TLAPS

Places == 0 .. RingSize - 1

\* An index stays within the ring (can_rx_push, CanProcess).
LEMMA NextIndexOK ==
    ASSUME NEW i \in Places
    PROVE  NextIndex(i) \in Places
BY RingAssumption DEF NextIndex, Places

LEMMA ZeroInRing == 0 \in Places
BY RingAssumption DEF Places

LEMMA FrameFields ==
    ASSUME NEW f \in Frame
    PROVE  f.num \in 0 .. MaxFrames /\ f.content \in Content \cup {NoContent} /\ f.bus \in Bus
BY DEF Frame

\* The slots and indices after a push, whatever the head has become meanwhile.
LEMMA StoredOK ==
    ASSUME NEW r \in [slot : [Places -> Frame], head : Places, tail : Places],
           NEW f \in Frame, NEW next \in Places
    PROVE  Stored(r, f, next) \in [slot : [Places -> Frame], head : Places, tail : Places]
BY DEF Stored

LEMMA RoomMadeOK ==
    ASSUME ring \in [slot : [Places -> Frame], head : Places, tail : Places]
    PROVE  RoomMade \in [slot : [Places -> Frame], head : Places, tail : Places]
BY NextIndexOK DEF RoomMade

\* Taking the first copy off a bus.
LEMMA TailOfBus ==
    ASSUME bus \in [Bus -> Seq(Frame)], \A b \in Bus : Len(bus[b]) <= Lag,
           NEW b \in Bus, bus[b] # <<>>
    PROVE  /\ Head(bus[b]) \in Frame
           /\ [bus EXCEPT ![b] = Tail(@)] \in [Bus -> Seq(Frame)]
           /\ \A c \in Bus : Len([bus EXCEPT ![b] = Tail(@)][c]) <= Lag
<1>1. /\ bus[b] \in Seq(Frame) /\ Head(bus[b]) \in Frame /\ Tail(bus[b]) \in Seq(Frame)
      /\ Len(Tail(bus[b])) = Len(bus[b]) - 1 /\ Len(bus[b]) \in Nat
  OBVIOUS
<1>2. Len(Tail(bus[b])) <= Lag
  BY <1>1, BusAssumption
<1> QED
  BY <1>1, <1>2

\* A frame is put on a bus that has room for it.
LEMMA FramePutOnBus ==
    ASSUME NEW s \in Seq(Frame), NEW f \in Frame, Len(s) < Lag
    PROVE  Append(s, f) \in Seq(Frame) /\ Len(Append(s, f)) <= Lag
<1>1. Append(s, f) \in Seq(Frame) /\ Len(Append(s, f)) = Len(s) + 1 /\ Len(s) \in Nat
  OBVIOUS
<1> QED
  BY <1>1, BusAssumption

LEMMA TypeInit == Init => TypeOK
<1> SUFFICES ASSUME Init PROVE TypeOK
  OBVIOUS
<1>1. NoFrame \in Frame
  BY BusAssumption DEF NoFrame, Frame, Bus
<1>2. ring \in [slot : [0 .. RingSize - 1 -> Frame],
                head : 0 .. RingSize - 1, tail : 0 .. RingSize - 1]
  BY <1>1, ZeroInRing DEF Init, Places
<1>3. missed \in [lost : 0 .. MaxLost, met : BOOLEAN, crowded : BOOLEAN, apart : BOOLEAN]
  BY BusAssumption DEF Init
<1>4. bus \in [Bus -> Seq(Frame)] /\ \A b \in Bus : Len(bus[b]) <= Lag
  BY BusAssumption DEF Init
<1>5. sent = <<>> /\ parsed = <<>> /\ Len(sent) <= MaxFrames
  BY BusAssumption DEF Init
<1> QED
  BY <1>2, <1>3, <1>4, <1>5 DEF Init, TypeOK

LEMMA TypeSend ==
    ASSUME TypeOK, NEW c \in Content, Send(c)
    PROVE  TypeOK'
<1>1. Len(sent) \in Nat /\ Len(sent) + 1 <= MaxFrames /\ sent \in Seq(Content)
  BY BusAssumption DEF TypeOK, Send
<1>2. Len(sent) + 1 \in 0 .. MaxFrames
  BY <1>1, BusAssumption
<1>3. \A b \in Bus : [num |-> Len(sent) + 1, content |-> c, bus |-> b] \in Frame
  BY <1>2 DEF Frame
<1>4. \A b \in Bus : bus[b] \in Seq(Frame) /\ Len(bus[b]) < Lag
  <2> TAKE b \in Bus
  <2>1. bus[b] \in Seq(Frame) /\ Len(bus[b]) \in Nat
    BY DEF TypeOK
  <2>2. NotInRing(b) < Lag
    BY DEF Send
  <2> DEFINE held == IF b = 2 /\ push2 # Idle THEN 1 ELSE 0
  <2>3. held \in Nat /\ NotInRing(b) = Len(bus[b]) + held
    BY DEF NotInRing
  <2> HIDE DEF held
  <2> QED
    BY <2>1, <2>2, <2>3, BusAssumption
<1>5. /\ bus' \in [Bus -> Seq(Frame)]
      /\ \A b \in Bus : Len(bus'[b]) <= Lag
  BY <1>3, <1>4, FramePutOnBus DEF Send
<1>6. sent' \in Seq(Content) /\ Len(sent') <= MaxFrames
  BY <1>1 DEF Send
<1> QED
  BY <1>5, <1>6 DEF Send, TypeOK

LEMMA TypeLose ==
    ASSUME TypeOK, NEW b \in Bus, Lose(b)
    PROVE  TypeOK'
<1>1. bus' \in [Bus -> Seq(Frame)] /\ \A c \in Bus : Len(bus'[c]) <= Lag
  BY TailOfBus DEF TypeOK, Lose
<1>2. missed.lost \in 0 .. MaxLost /\ missed.lost < MaxLost
  BY DEF TypeOK, Lose
<1>3. missed.lost + 1 \in 0 .. MaxLost
  BY <1>2, BusAssumption
<1>4. missed' \in [lost : 0 .. MaxLost, met : BOOLEAN, crowded : BOOLEAN, apart : BOOLEAN]
  BY <1>3 DEF TypeOK, Lose
<1> QED
  BY <1>1, <1>4 DEF TypeOK, Lose

\* The receive interrupts (can_rx_push).
LEMMA TypePush ==
    ASSUME TypeOK, Push1 \/ BeginPush2 \/ EndPush2
    PROVE  TypeOK'
<1>1. ring \in [slot : [Places -> Frame], head : Places, tail : Places]
  BY DEF TypeOK, Places
<1>2. NextIndex(ring.head) \in Places
  BY <1>1, NextIndexOK
<1>3. /\ Crowded \in BOOLEAN /\ (push2 # Idle) \in BOOLEAN
      /\ \A b, n : EarlierWaits(b, n) \in BOOLEAN
  BY DEF Crowded, EarlierWaits
<1>4. /\ missed \in [lost : 0 .. MaxLost, met : BOOLEAN, crowded : BOOLEAN, apart : BOOLEAN]
      /\ bus \in [Bus -> Seq(Frame)] /\ \A b \in Bus : Len(bus[b]) <= Lag
      /\ 1 \in Bus /\ 2 \in Bus
  BY DEF TypeOK, Bus
<1>5. CASE Push1
  <2>1. /\ Head(bus[1]) \in Frame
        /\ bus' \in [Bus -> Seq(Frame)] /\ \A b \in Bus : Len(bus'[b]) <= Lag
    BY <1>4, <1>5, TailOfBus DEF Push1
  <2>2. ring' \in [slot : [Places -> Frame], head : Places, tail : Places]
    BY <1>1, <1>2, <1>5, <2>1, RoomMadeOK, StoredOK DEF Push1
  <2>3. missed' \in [lost : 0 .. MaxLost, met : BOOLEAN, crowded : BOOLEAN, apart : BOOLEAN]
    BY <1>3, <1>4, <1>5 DEF Push1
  <2> QED
    BY <1>5, <2>1, <2>2, <2>3 DEF Push1, TypeOK, Places
<1>6. CASE BeginPush2
  <2>1. /\ Head(bus[2]) \in Frame
        /\ bus' \in [Bus -> Seq(Frame)] /\ \A b \in Bus : Len(bus'[b]) <= Lag
    BY <1>4, <1>6, TailOfBus DEF BeginPush2
  <2>2. ring' \in [slot : [Places -> Frame], head : Places, tail : Places]
    BY <1>1, <1>6, RoomMadeOK DEF BeginPush2
  <2>3. missed' \in [lost : 0 .. MaxLost, met : BOOLEAN, crowded : BOOLEAN, apart : BOOLEAN]
    BY <1>3, <1>4, <1>6 DEF BeginPush2
  <2>4. push2' \in [at : {"store"}, frame : Frame, next : Places]
    BY <1>2, <1>6, <2>1 DEF BeginPush2
  <2> QED
    BY <1>6, <2>1, <2>2, <2>3, <2>4 DEF BeginPush2, TypeOK, Places
<1>7. CASE EndPush2
  <2>1. push2 \in [at : {"store"}, frame : Frame, next : Places]
    BY <1>7 DEF EndPush2, TypeOK, Places
  <2>2. ring' \in [slot : [Places -> Frame], head : Places, tail : Places]
    BY <1>1, <1>7, <2>1, StoredOK DEF EndPush2
  <2> QED
    BY <1>7, <2>2 DEF EndPush2, TypeOK, Places
<1> QED
  BY <1>5, <1>6, <1>7

\* The main loop (CanProcess).
LEMMA TypeProcess ==
    ASSUME TypeOK, TakeEntry \/ AdvanceTail \/ HandleEntry
    PROVE  TypeOK'
<1>1. ring \in [slot : [Places -> Frame], head : Places, tail : Places]
  BY DEF TypeOK, Places
<1>2. main # Idle => main \in [at : {"advance", "handle"}, entry : Places]
  BY DEF TypeOK, Places
<1>3. Idle.at = "idle"
  BY DEF Idle
<1>4. CASE TakeEntry
  BY <1>1, <1>4 DEF TakeEntry, TypeOK, Places
<1>5. CASE AdvanceTail
  <2>1. main \in [at : {"advance", "handle"}, entry : Places]
    BY <1>2, <1>3, <1>5 DEF AdvanceTail
  <2>2. NextIndex(main.entry) \in Places
    BY <2>1, NextIndexOK
  <2>3. ring' \in [slot : [Places -> Frame], head : Places, tail : Places]
    BY <1>1, <1>5, <2>2 DEF AdvanceTail
  <2>4. main' \in [at : {"advance", "handle"}, entry : Places]
    BY <1>5, <2>1 DEF AdvanceTail
  <2> QED
    BY <1>5, <2>3, <2>4 DEF AdvanceTail, TypeOK, Places
<1>6. CASE HandleEntry
  <2> DEFINE e == ring.slot[main.entry]
  <2>1. e \in Frame
    BY <1>1, <1>2, <1>3, <1>6 DEF HandleEntry
  <2>2. e.num \in 0 .. MaxFrames /\ e.content \in Content \cup {NoContent} /\ e.bus \in Bus
    BY <2>1, FrameFields
  <2>3. /\ parsed' = (IF IsDuplicate(e) THEN parsed ELSE Append(parsed, [num |-> e.num, bus |-> e.bus]))
        /\ last' = [last EXCEPT ![e.bus] = e.content]
    BY <1>6 DEF HandleEntry
  <2> HIDE DEF e
  <2>4. parsed' \in Seq([num : 0 .. MaxFrames, bus : Bus])
    <3>1. parsed \in Seq([num : 0 .. MaxFrames, bus : Bus])
      BY DEF TypeOK
    <3>2. [num |-> e.num, bus |-> e.bus] \in [num : 0 .. MaxFrames, bus : Bus]
      BY <2>2
    <3>3. Append(parsed, [num |-> e.num, bus |-> e.bus]) \in Seq([num : 0 .. MaxFrames, bus : Bus])
      BY <3>1, <3>2
    <3> QED
      BY <2>3, <3>1, <3>3
  <2>5. last' \in [Bus -> Content \cup {NoContent}]
    BY <2>2, <2>3 DEF TypeOK
  <2> QED
    BY <1>6, <2>4, <2>5 DEF HandleEntry, TypeOK
<1> QED
  BY <1>4, <1>5, <1>6

LEMMA TypeNext == TypeOK /\ [Next]_vars => TypeOK'
<1> SUFFICES ASSUME TypeOK, [Next]_vars PROVE TypeOK'
  OBVIOUS
<1>1. CASE UNCHANGED vars
  BY <1>1 DEF vars, TypeOK
<1> QED
  BY <1>1, TypeSend, TypeLose, TypePush, TypeProcess DEF Next

\* Whatever the interrupts preempt, the indices stay within the ring, an index
\* remembered by a preempted push or by the main loop included, and nothing
\* but received frames is read from it (can_rx_push, CanProcess).
THEOREM TypeCorrectness == Spec => []TypeOK
BY TypeInit, TypeNext, PTL DEF Spec
-----------------------------------------------------------------------------
(* The order of the entries.  CanProcess handles them from the first place *)
(* on, which is the place it remembers while it handles an entry it has    *)
(* already taken out.                                                      *)

\* Steps from one place of the ring to another.
Dist(i, j) == IF j >= i THEN j - i ELSE j - i + RingSize

First == IF main.at = "handle" THEN main.entry ELSE ring.tail

\* The place holds an entry that is not handled yet.
Live(p) == Dist(First, p) < Dist(First, ring.head)

Before(p, q) == Dist(First, p) < Dist(First, q)

\* A copy that is not in the ring yet.
OnBus(b, f) == \E i \in DOMAIN bus[b] : bus[b][i] = f

Waits(f) == (\E b \in Bus : OnBus(b, f)) \/ (push2 # Idle /\ push2.frame = f)

\* A copy the main loop has still to handle.
ToCome(f) == Waits(f) \/ \E p \in Places : Live(p) /\ ring.slot[p] = f

\* The order in which copies are handled: the numbers of one bus rise, and
\* unless one bus overtook the other those of both together never fall.
Precedes(apart, f, g) ==
    /\ f.bus = g.bus => f.num < g.num
    /\ apart \/ f.num <= g.num

\* The places remembered over a preemption and the room that is left.  A push
\* of FDCAN2 that met pushes of FDCAN1 ends at a place they have filled, or at
\* the first one they left free.
Indices ==
    /\ main.at = "advance" => main.entry = ring.tail /\ ring.head # ring.tail
    /\ main.at = "handle" => NextIndex(main.entry) = ring.tail
    /\ Dist(ring.tail, ring.head) <= RingSize - 2
    /\ push2 # Idle =>
          \/ push2.next = NextIndex(ring.head) /\ Dist(ring.tail, ring.head) <= RingSize - 3
          \/ /\ missed.met
             /\ 1 <= Dist(ring.tail, push2.next)
             /\ Dist(ring.tail, push2.next) <= Dist(ring.tail, ring.head)

Rising == \A b \in Bus : \A i, j \in DOMAIN bus[b] : i < j => bus[b][i].num < bus[b][j].num

Outside ==
    /\ Rising
    /\ push2 # Idle => push2.frame.bus = 2
    /\ \A b \in Bus : \A f \in Frame : OnBus(b, f) =>
          f.bus = b /\ (push2 # Idle => Precedes(missed.apart, push2.frame, f))

Genuine == \A f \in Frame : ToCome(f) => f.num \in DOMAIN sent /\ f.content = sent[f.num]

Ordered ==
    \A p \in Places : Live(p) =>
        /\ \A f \in Frame : Waits(f) => Precedes(missed.apart, ring.slot[p], f)
        /\ \A q \in Places : Live(q) /\ Before(p, q) => Precedes(missed.apart, ring.slot[p], ring.slot[q])

\* No frame behind a parsed one is still to come, and of a parsed one only the
\* copy that the filter knows.
Filtered ==
    \A j \in DOMAIN parsed :
        /\ parsed[j].num \in DOMAIN sent
        /\ \A f \in Frame : ToCome(f) =>
              /\ Precedes(missed.apart, parsed[j], f)
              /\ missed.apart \/ (parsed[j].num = f.num => last[OtherBus(f.bus)] = f.content)

Sorted ==
    \A i, j \in DOMAIN parsed :
        i < j /\ (~missed.apart \/ parsed[i].bus = parsed[j].bus) => parsed[i].num < parsed[j].num

Uncrowded == Indices /\ Outside /\ Genuine /\ Ordered /\ Filtered /\ Sorted

LEMMA DistOK ==
    ASSUME NEW i \in Places, NEW j \in Places
    PROVE  /\ Dist(i, j) \in Places /\ Dist(i, i) = 0
           /\ Dist(i, j) = 0 => i = j
           /\ \A k \in Places : Dist(i, j) = Dist(i, k) => j = k
BY RingAssumption DEF Dist, Places

LEMMA DistNext ==
    ASSUME NEW i \in Places, NEW j \in Places
    PROVE  /\ Dist(i, NextIndex(j)) = IF Dist(i, j) = RingSize - 1 THEN 0 ELSE Dist(i, j) + 1
           /\ Dist(NextIndex(i), j) = IF i = j THEN RingSize - 1 ELSE Dist(i, j) - 1
BY RingAssumption DEF Dist, Places, NextIndex

\* The room an interrupt leaves that did not crowd the ring.
LEMMA NotCrowded ==
    ASSUME ring.head \in Places, ring.tail \in Places, ~Crowded
    PROVE  /\ Dist(ring.tail, ring.head) <= RingSize - 3
           /\ RoomMade = ring
<1> DEFINE d == Dist(ring.tail, ring.head)
           h == NextIndex(ring.head)
<1>1. d \in Places /\ h \in Places
  BY DistOK, NextIndexOK
<1>2. ring.tail # h /\ ring.tail # NextIndex(h)
  BY DEF Crowded
<1>3. RoomMade = ring
  BY <1>2 DEF RoomMade, Full
<1>4. Dist(ring.tail, h) = IF d = RingSize - 1 THEN 0 ELSE d + 1
  BY DistNext
<1>5. Dist(ring.tail, NextIndex(h)) =
        IF Dist(ring.tail, h) = RingSize - 1 THEN 0 ELSE Dist(ring.tail, h) + 1
  BY <1>1, DistNext
<1>6. NextIndex(h) \in Places
  BY <1>1, NextIndexOK
<1>7. Dist(ring.tail, h) # 0 /\ Dist(ring.tail, NextIndex(h)) # 0
  BY <1>1, <1>2, <1>6, DistOK
<1> HIDE DEF d, h
<1>8. d <= RingSize - 3
  BY <1>1, <1>4, <1>5, <1>7, RingAssumption DEF Places
<1> QED
  BY <1>3, <1>8 DEF d

\* The places that TypeOK speaks of.
LEMMA PlacesOK ==
    ASSUME TypeOK
    PROVE  /\ ring \in [slot : [Places -> Frame], head : Places, tail : Places]
           /\ main # Idle => main \in [at : {"advance", "handle"}, entry : Places]
           /\ main.at \in {"advance", "handle"} => main # Idle
           /\ First \in Places /\ ring.head \in Places /\ ring.tail \in Places
<1>1. ring \in [slot : [Places -> Frame], head : Places, tail : Places]
  BY DEF TypeOK, Places
<1>2. main # Idle => main \in [at : {"advance", "handle"}, entry : Places]
  BY DEF TypeOK, Places
<1>3. main.at \in {"advance", "handle"} => main # Idle
  BY DEF Idle
<1> QED
  BY <1>1, <1>2, <1>3 DEF First

\* The entries not handled yet are those in the ring, and the one in hand.
LEMMA FillOK ==
    ASSUME TypeOK, Indices, NEW x \in Places, Dist(ring.tail, x) <= RingSize - 2
    PROVE  /\ Dist(First, x) = Dist(ring.tail, x) + (IF main.at = "handle" THEN 1 ELSE 0)
           /\ Dist(First, x) \in Places
<1>1. First \in Places /\ ring.tail \in Places
  BY PlacesOK
<1>2. CASE main.at = "handle"
  <2>1. First = main.entry /\ NextIndex(First) = ring.tail
    BY <1>2 DEF First, Indices
  <2>2. Dist(ring.tail, x) = IF First = x THEN RingSize - 1 ELSE Dist(First, x) - 1
    BY <1>1, <2>1, DistNext
  <2>3. Dist(First, x) \in Places
    BY <1>1, DistOK
  <2> QED
    BY <1>2, <2>2, <2>3, RingAssumption DEF Places
<1>3. CASE main.at # "handle"
  <2>1. First = ring.tail /\ Dist(ring.tail, x) \in Places
    BY <1>1, <1>3, DistOK DEF First
  <2> QED
    BY <1>3, <2>1 DEF Places
<1> QED
  BY <1>2, <1>3

\* One more entry: a copy that was outside the ring takes the place at the head.
LEMMA AppendedPlaces ==
    ASSUME TypeOK, Indices, NEW f,
           Dist(ring.tail, ring.head) <= RingSize - 3,
           ring' = Stored(ring, f, NextIndex(ring.head)),
           UNCHANGED main
    PROVE  /\ Dist(ring.tail, ring.head)' = Dist(ring.tail, ring.head) + 1
           /\ ring'.tail = ring.tail
           /\ ring'.slot[ring.head] = f
           /\ \A p \in Places : p # ring.head => ring'.slot[p] = ring.slot[p]
           /\ ~Live(ring.head)
           /\ \A p \in Places : Live(p)' <=> Live(p) \/ p = ring.head
           /\ \A p, q \in Places : Before(p, q)' <=> Before(p, q)
           /\ \A p \in Places : Live(p) => Before(p, ring.head)
           /\ \A p \in Places : Live(p) => ~Before(ring.head, p)
<1> DEFINE h == ring.head
           D == Dist(First, h)
<1>1. /\ ring \in [slot : [Places -> Frame], head : Places, tail : Places]
      /\ First \in Places /\ h \in Places /\ ring.tail \in Places
  BY PlacesOK
<1>2. /\ ring'.tail = ring.tail /\ ring'.head = NextIndex(h)
      /\ ring'.slot[h] = f
      /\ \A p \in Places : p # h => ring'.slot[p] = ring.slot[p]
  BY <1>1 DEF Stored
<1>3. First' = First
  BY <1>2 DEF First
<1>4. D \in Places /\ D <= RingSize - 2
  <2>1. /\ D = Dist(ring.tail, ring.head) + (IF main.at = "handle" THEN 1 ELSE 0)
        /\ D \in Places /\ Dist(ring.tail, ring.head) \in Places
    BY FillOK, <1>1, DistOK DEF Indices
  <2> HIDE DEF D
  <2> QED
    BY <2>1, RingAssumption DEF Places
<1>5. Dist(First, NextIndex(h)) = D + 1 /\ Dist(ring.tail, NextIndex(h)) = Dist(ring.tail, h) + 1
  <2>1. Dist(First, NextIndex(h)) = IF D = RingSize - 1 THEN 0 ELSE D + 1
    BY <1>1, DistNext
  <2>2. Dist(ring.tail, NextIndex(h)) =
          IF Dist(ring.tail, h) = RingSize - 1 THEN 0 ELSE Dist(ring.tail, h) + 1
    BY <1>1, DistNext
  <2>3. Dist(ring.tail, h) \in Places
    BY <1>1, DistOK
  <2> HIDE DEF D
  <2>4. D # RingSize - 1
    BY <1>4, RingAssumption DEF Places
  <2>5. Dist(ring.tail, h) # RingSize - 1
    BY <2>3, RingAssumption DEF Places
  <2> QED
    BY <2>1, <2>2, <2>4, <2>5
<1>6. Dist(ring.tail, ring.head)' = Dist(ring.tail, ring.head) + 1
  BY <1>2, <1>5 DEF Dist
<1>7. \A p, q \in Places : Before(p, q)' <=> Before(p, q)
  BY <1>3 DEF Before, Dist
<1>8. ~Live(h)
  BY <1>4, RingAssumption DEF Live, Places
<1>9. \A p \in Places : Live(p) => Before(p, h) /\ ~Before(h, p)
  <2> TAKE p \in Places
  <2>1. Dist(First, p) \in Places
    BY <1>1, DistOK
  <2> QED
    BY <1>4, <2>1 DEF Live, Before, Places
<1>10. \A p \in Places : Live(p)' <=> Live(p) \/ p = h
  <2> TAKE p \in Places
  <2>1. Dist(First, p) \in Places
    BY <1>1, DistOK
  <2>2. Dist(First, p) = D <=> p = h
    BY <1>1, DistOK
  <2>3. Live(p)' <=> Dist(First, p) < D + 1
    <3>1. Dist(First, p)' = Dist(First, p)
      BY <1>3 DEF Dist
    <3>2. Dist(First, ring.head)' = D + 1
      BY <1>2, <1>3, <1>5 DEF Dist
    <3> QED
      BY <3>1, <3>2 DEF Live
  <2>4. Live(p) <=> Dist(First, p) < D
    BY DEF Live
  <2> HIDE DEF D
  <2> QED
    BY <1>4, <2>1, <2>2, <2>3, <2>4 DEF Places
<1> QED
  BY <1>2, <1>6, <1>7, <1>8, <1>9, <1>10

LEMMA ElementOfSeq ==
    ASSUME NEW S, NEW s \in Seq(S), NEW j \in DOMAIN s
    PROVE  s[j] \in S
OBVIOUS

LEMMA AppendedOK ==
    ASSUME NEW S, NEW s \in Seq(S), NEW x
    PROVE  /\ DOMAIN Append(s, x) = DOMAIN s \cup {Len(s) + 1}
           /\ \A j \in DOMAIN s :
                 Append(s, x)[j] = s[j] /\ j < Len(s) + 1 /\ j \in Nat
           /\ Append(s, x)[Len(s) + 1] = x /\ Len(s) \in Nat
OBVIOUS

LEMMA TailOK ==
    ASSUME NEW S, NEW s \in Seq(S), s # <<>>
    PROVE  /\ Len(s) \in Nat /\ Len(s) > 0
           /\ DOMAIN s = 1 .. Len(s) /\ DOMAIN Tail(s) = 1 .. Len(s) - 1
           /\ \A i \in DOMAIN Tail(s) : Tail(s)[i] = s[i + 1]
           /\ Head(s) = s[1] /\ Head(s) \in S
OBVIOUS

LEMMA SentOK ==
    ASSUME TypeOK
    PROVE  /\ DOMAIN sent = 1 .. Len(sent) /\ Len(sent) \in Nat
           /\ \A n \in DOMAIN sent : sent[n] \in Content
<1>1. sent \in Seq(Content)
  BY DEF TypeOK
<1> QED
  BY <1>1, ElementOfSeq

LEMMA SlotOK ==
    ASSUME TypeOK, NEW p \in Places
    PROVE  ring.slot[p] \in Frame
BY PlacesOK

\* What the main loop has parsed are numbers.
LEMMA ParsedOK ==
    ASSUME TypeOK, NEW j \in DOMAIN parsed
    PROVE  parsed[j].num \in Nat /\ parsed[j].bus \in Bus
<1>1. parsed \in Seq([num : 0 .. MaxFrames, bus : Bus])
  BY DEF TypeOK
<1>2. parsed[j] \in [num : 0 .. MaxFrames, bus : Bus]
  BY <1>1, ElementOfSeq
<1> QED
  BY <1>2, BusAssumption

LEMMA NumberOK ==
    ASSUME NEW f \in Frame
    PROVE  f.num \in Nat /\ f.bus \in Bus
BY FrameFields, BusAssumption

\* Copies that were in order stay so.
LEMMA PrecedesKept ==
    ASSUME missed.apart => missed'.apart, NEW f, NEW g, Precedes(missed.apart, f, g)
    PROVE  Precedes(missed'.apart, f, g)
BY DEF Precedes

\* The first copy leaves its bus.
LEMMA BusTaken ==
    ASSUME TypeOK, Outside, NEW b \in Bus, bus[b] # <<>>,
           bus' = [bus EXCEPT ![b] = Tail(@)]
    PROVE  /\ Head(bus[b]) \in Frame /\ Head(bus[b]).bus = b /\ OnBus(b, Head(bus[b]))
           /\ \A c \in Bus : \A f : OnBus(c, f)' => OnBus(c, f)
           /\ \A c \in Bus : \A f :
                 OnBus(c, f) => OnBus(c, f)' \/ (c = b /\ f = Head(bus[b]))
           /\ \A f : OnBus(b, f)' => Head(bus[b]).num < f.num
           /\ Rising'
<1>1. bus \in [Bus -> Seq(Frame)] /\ bus[b] \in Seq(Frame)
  BY DEF TypeOK
<1>2. /\ Len(bus[b]) \in Nat /\ Len(bus[b]) > 0
      /\ DOMAIN bus[b] = 1 .. Len(bus[b]) /\ DOMAIN Tail(bus[b]) = 1 .. Len(bus[b]) - 1
      /\ \A i \in DOMAIN Tail(bus[b]) : Tail(bus[b])[i] = bus[b][i + 1]
      /\ Head(bus[b]) = bus[b][1] /\ Head(bus[b]) \in Frame
  BY <1>1, TailOK
<1>3. bus'[b] = Tail(bus[b]) /\ \A c \in Bus : c # b => bus'[c] = bus[c]
  BY <1>1
<1>4. OnBus(b, Head(bus[b]))
  BY <1>2 DEF OnBus
<1>5. Head(bus[b]).bus = b
  BY <1>2, <1>4 DEF Outside
<1>6. \A i \in DOMAIN bus'[b] :
        /\ i \in 1 .. Len(bus[b]) - 1 /\ i + 1 \in DOMAIN bus[b]
        /\ bus'[b][i] = bus[b][i + 1]
  <2> DEFINE n == Len(bus[b])
             s == Tail(bus[b])
  <2>1. DOMAIN bus'[b] = 1 .. n - 1 /\ DOMAIN bus[b] = 1 .. n /\ n \in Nat
        /\ \A i \in 1 .. n - 1 : s[i] = bus[b][i + 1]
    BY <1>2, <1>3
  <2>2. bus'[b] = s
    BY <1>3
  <2> HIDE DEF n, s
  <2>3. \A i \in 1 .. n - 1 : i + 1 \in 1 .. n
    BY <2>1
  <2> QED
    BY <2>1, <2>2, <2>3 DEF n
<1>7. \A f : OnBus(b, f)' => OnBus(b, f) /\ Head(bus[b]).num < f.num
  <2> SUFFICES ASSUME NEW f, OnBus(b, f)' PROVE OnBus(b, f) /\ Head(bus[b]).num < f.num
    OBVIOUS
  <2>1. PICK i \in DOMAIN bus'[b] : bus'[b][i] = f
    BY DEF OnBus
  <2>2. bus[b][i + 1] = f /\ i + 1 \in DOMAIN bus[b] /\ 1 \in DOMAIN bus[b] /\ 1 < i + 1
    BY <1>2, <1>6, <2>1
  <2> QED
    BY <1>2, <2>2 DEF OnBus, Outside, Rising
<1>8. \A f : OnBus(b, f) => OnBus(b, f)' \/ f = Head(bus[b])
  <2> SUFFICES ASSUME NEW f, OnBus(b, f), f # Head(bus[b]) PROVE OnBus(b, f)'
    OBVIOUS
  <2>1. PICK i \in DOMAIN bus[b] : bus[b][i] = f
    BY DEF OnBus
  <2>2. i - 1 \in DOMAIN Tail(bus[b]) /\ (i - 1) + 1 = i
    BY <1>2, <2>1
  <2>3. bus'[b][i - 1] = f
    BY <1>2, <1>3, <2>1, <2>2
  <2> QED
    BY <1>3, <2>2, <2>3 DEF OnBus
<1>9. \A c \in Bus : c # b => \A f : OnBus(c, f)' <=> OnBus(c, f)
  BY <1>3 DEF OnBus
<1>10. Rising'
  <2> SUFFICES ASSUME NEW c \in Bus, NEW i \in DOMAIN bus'[c], NEW j \in DOMAIN bus'[c], i < j
               PROVE  bus'[c][i].num < bus'[c][j].num
    BY DEF Rising
  <2>1. CASE c = b
    <3>1. /\ bus'[b][i] = bus[b][i + 1] /\ bus'[b][j] = bus[b][j + 1]
          /\ i + 1 \in DOMAIN bus[b] /\ j + 1 \in DOMAIN bus[b] /\ i + 1 < j + 1
      BY <1>6, <2>1
    <3> QED
      BY <2>1, <3>1 DEF Outside, Rising
  <2>2. CASE c # b
    BY <1>3, <2>2 DEF Outside, Rising
  <2> QED
    BY <2>1, <2>2
<1> QED
  BY <1>2, <1>4, <1>5, <1>7, <1>8, <1>9, <1>10

\* A copy that the ring takes from a bus comes before all the others still
\* outside, unless it overtook one of them.
LEMMA NotOvertaken ==
    ASSUME TypeOK, Outside, NEW b \in Bus, ~EarlierWaits(OtherBus(b), Head(bus[b]).num),
           bus[b] # <<>>, NEW c \in Bus, c # b, NEW f \in Frame, OnBus(c, f)
    PROVE  Head(bus[b]).num <= f.num
<1>1. bus[b] \in Seq(Frame) /\ bus[c] \in Seq(Frame) /\ c = OtherBus(b)
  BY DEF TypeOK, Bus, OtherBus
<1>2. PICK i \in DOMAIN bus[c] : bus[c][i] = f
  BY DEF OnBus
<1>3. bus[c] # <<>>
  BY <1>1, <1>2
<1>4. Head(bus[c]) = bus[c][1] /\ Head(bus[c]) \in Frame /\ 1 \in DOMAIN bus[c] /\ i \in Nat
      /\ (i # 1 => 1 < i) /\ Head(bus[b]) \in Frame
  BY <1>1, <1>2, <1>3, TailOK
<1>5. ~(Head(bus[c]).num < Head(bus[b]).num)
  BY <1>1, <1>3 DEF EarlierWaits
<1>6. i = 1 \/ Head(bus[c]).num < f.num
  BY <1>2, <1>4 DEF Outside, Rising
<1>7. Head(bus[c]).num \in Nat /\ Head(bus[b]).num \in Nat /\ f.num \in Nat
  BY <1>4, NumberOK
<1> QED
  BY <1>2, <1>4, <1>5, <1>6, <1>7

\* What follows the order survives a step after which no copy is to come that
\* was not to come before.
LEMMA Kept ==
    ASSUME TypeOK, Uncrowded, First' = First,
           \A p \in Places : Live(p)' => Live(p) /\ ring'.slot[p] = ring.slot[p],
           \A f \in Frame : Waits(f)' => Waits(f),
           missed.apart => missed'.apart,
           UNCHANGED <<last, sent, parsed>>
    PROVE  Genuine' /\ Ordered' /\ Filtered' /\ Sorted'
<1>1. \A f \in Frame : ToCome(f)' => ToCome(f)
  BY DEF ToCome
<1>2. Genuine'
  BY <1>1 DEF Uncrowded, Genuine
<1>3. Ordered'
  <2> SUFFICES ASSUME NEW p \in Places, Live(p)'
               PROVE  /\ \A f \in Frame : Waits(f)' => Precedes(missed'.apart, ring'.slot[p], f)
                      /\ \A q \in Places : Live(q)' /\ Before(p, q)' =>
                            Precedes(missed'.apart, ring'.slot[p], ring'.slot[q])
    BY DEF Ordered
  <2>1. Live(p) /\ ring'.slot[p] = ring.slot[p]
    OBVIOUS
  <2>2. ASSUME NEW f \in Frame, Waits(f)' PROVE Precedes(missed'.apart, ring'.slot[p], f)
    <3>1. Precedes(missed.apart, ring.slot[p], f)
      BY <2>1, <2>2 DEF Uncrowded, Ordered
    <3> QED
      BY <2>1, <3>1 DEF Precedes
  <2>3. ASSUME NEW q \in Places, Live(q)', Before(p, q)'
        PROVE  Precedes(missed'.apart, ring'.slot[p], ring'.slot[q])
    <3>1. Live(q) /\ ring'.slot[q] = ring.slot[q] /\ Before(p, q)
      BY <2>3 DEF Before, Dist
    <3>2. Precedes(missed.apart, ring.slot[p], ring.slot[q])
      BY <2>1, <3>1 DEF Uncrowded, Ordered
    <3> QED
      BY <2>1, <3>1, <3>2 DEF Precedes
  <2> QED
    BY <2>2, <2>3
<1>4. Filtered'
  <2> SUFFICES ASSUME NEW j \in DOMAIN parsed
               PROVE  /\ parsed[j].num \in DOMAIN sent
                      /\ \A f \in Frame : ToCome(f)' =>
                            /\ Precedes(missed'.apart, parsed[j], f)
                            /\ missed'.apart \/ (parsed[j].num = f.num =>
                                                   last[OtherBus(f.bus)] = f.content)
    BY DEF Filtered
  <2> QED
    BY <1>1 DEF Uncrowded, Filtered, Precedes
<1>5. Sorted'
  BY DEF Uncrowded, Sorted
<1> QED
  BY <1>2, <1>3, <1>4, <1>5

\* A copy goes from outside into the ring.
LEMMA Appended ==
    ASSUME TypeOK, Uncrowded, NEW f \in Frame, Waits(f),
           Dist(ring.tail, ring.head) <= RingSize - 3,
           ring' = Stored(ring, f, NextIndex(ring.head)),
           \A g \in Frame : Waits(g)' => Waits(g) /\ Precedes(missed'.apart, f, g),
           missed.apart => missed'.apart,
           UNCHANGED <<main, last, sent, parsed>>
    PROVE  /\ Genuine' /\ Ordered' /\ Filtered' /\ Sorted'
           /\ \A g \in Frame : ToCome(g)' => ToCome(g)
           /\ (\A g \in Frame : Waits(g) => Waits(g)' \/ g = f) =>
                 \A g \in Frame : ToCome(g) => ToCome(g)'
<1> DEFINE h == ring.head
<1>1. /\ ring'.slot[h] = f
      /\ \A p \in Places : p # h => ring'.slot[p] = ring.slot[p]
      /\ ~Live(h)
      /\ \A p \in Places : Live(p)' <=> Live(p) \/ p = h
      /\ \A p, q \in Places : Before(p, q)' <=> Before(p, q)
      /\ \A p \in Places : Live(p) => Before(p, h)
      /\ \A p \in Places : Live(p) => ~Before(h, p)
  BY AppendedPlaces DEF Uncrowded
<1>2. h \in Places /\ ~Before(h, h)
  <2>1. Dist(First, h) \in Places
    BY PlacesOK, DistOK
  <2> QED
    BY <2>1, PlacesOK, RingAssumption DEF Before, Places
<1> HIDE DEF h
<1>3. \A g \in Frame : ToCome(g)' => ToCome(g)
  BY <1>1 DEF ToCome
<1>4. ASSUME \A g \in Frame : Waits(g) => Waits(g)' \/ g = f,
             NEW g \in Frame, ToCome(g)
      PROVE  ToCome(g)'
  <2>1. CASE Waits(g)
    BY <1>1, <1>2, <1>4, <2>1 DEF ToCome
  <2>2. CASE \E p \in Places : Live(p) /\ ring.slot[p] = g
    <3>1. PICK p \in Places : Live(p) /\ ring.slot[p] = g
      BY <2>2
    <3>2. Live(p)' /\ ring'.slot[p] = g
      BY <1>1, <3>1
    <3> QED
      BY <3>2 DEF ToCome
  <2> QED
    BY <1>4, <2>1, <2>2 DEF ToCome
<1>5. Genuine'
  BY <1>3 DEF Uncrowded, Genuine
<1>6. Ordered'
  <2> SUFFICES ASSUME NEW p \in Places, Live(p)'
               PROVE  /\ \A g \in Frame : Waits(g)' => Precedes(missed'.apart, ring'.slot[p], g)
                      /\ \A q \in Places : Live(q)' /\ Before(p, q)' =>
                            Precedes(missed'.apart, ring'.slot[p], ring'.slot[q])
    BY DEF Ordered
  <2>1. CASE p = h
    <3>1. \A q \in Places : ~(Live(q)' /\ Before(p, q)')
      BY <1>1, <1>2, <2>1
    <3> QED
      BY <1>1, <2>1, <3>1 DEF Precedes
  <2>2. CASE p # h
    <3>1. Live(p) /\ ring'.slot[p] = ring.slot[p]
      BY <1>1, <2>2
    <3>2. \A g \in Frame : Waits(g) => Precedes(missed'.apart, ring'.slot[p], g)
      BY <3>1 DEF Uncrowded, Ordered, Precedes
    <3>3. ASSUME NEW q \in Places, Live(q)', Before(p, q)'
          PROVE  Precedes(missed'.apart, ring'.slot[p], ring'.slot[q])
      <4>1. CASE q = h
        BY <1>1, <3>1, <3>2, <4>1 DEF Precedes
      <4>2. CASE q # h
        <5>1. Live(q) /\ ring'.slot[q] = ring.slot[q] /\ Before(p, q)
          BY <1>1, <3>3, <4>2
        <5>2. Precedes(missed.apart, ring.slot[p], ring.slot[q])
          BY <3>1, <5>1 DEF Uncrowded, Ordered
        <5> QED
          BY <3>1, <5>1, <5>2 DEF Precedes
      <4> QED
        BY <4>1, <4>2
    <3> QED
      BY <3>2, <3>3
  <2> QED
    BY <2>1, <2>2
<1>7. Filtered'
  <2> SUFFICES ASSUME NEW j \in DOMAIN parsed
               PROVE  /\ parsed[j].num \in DOMAIN sent
                      /\ \A g \in Frame : ToCome(g)' =>
                            /\ Precedes(missed'.apart, parsed[j], g)
                            /\ missed'.apart \/ (parsed[j].num = g.num =>
                                                   last[OtherBus(g.bus)] = g.content)
    BY DEF Filtered
  <2> QED
    BY <1>3 DEF Uncrowded, Filtered, Precedes
<1>8. Sorted'
  BY DEF Uncrowded, Sorted
<1> QED
  BY <1>3, <1>4, <1>5, <1>6, <1>7, <1>8
-----------------------------------------------------------------------------
\* The next frame goes over both buses, behind everything sent so far.
LEMMA SentToCome ==
    ASSUME TypeOK, NEW c \in Content, Send(c)
    PROVE  LET new(b) == [num |-> Len(sent) + 1, content |-> c, bus |-> b]
           IN  /\ \A b \in Bus : new(b) \in Frame
               /\ \A b \in Bus : \A f : OnBus(b, f)' <=> OnBus(b, f) \/ f = new(b)
               /\ \A f : Waits(f)' <=> Waits(f) \/ \E b \in Bus : f = new(b)
               /\ \A f : ToCome(f)' <=> ToCome(f) \/ \E b \in Bus : f = new(b)
<1> DEFINE new(b) == [num |-> Len(sent) + 1, content |-> c, bus |-> b]
<1>1. Len(sent) + 1 \in 0 .. MaxFrames
  BY SentOK, BusAssumption DEF Send
<1>2. \A b \in Bus : new(b) \in Frame
  BY <1>1 DEF Frame
<1>3. \A b \in Bus : bus[b] \in Seq(Frame) /\ bus'[b] = Append(bus[b], new(b))
  BY DEF TypeOK, Send
<1>4. UNCHANGED <<ring, push2, main>>
  BY DEF Send
<1> HIDE DEF new
<1>5. \A b \in Bus : \A f : OnBus(b, f)' <=> OnBus(b, f) \/ f = new(b)
  <2> SUFFICES ASSUME NEW b \in Bus, NEW f PROVE OnBus(b, f)' <=> OnBus(b, f) \/ f = new(b)
    OBVIOUS
  <2>1. /\ DOMAIN bus'[b] = DOMAIN bus[b] \cup {Len(bus[b]) + 1}
        /\ \A j \in DOMAIN bus[b] : bus'[b][j] = bus[b][j]
        /\ bus'[b][Len(bus[b]) + 1] = new(b)
    BY <1>3, AppendedOK
  <2> QED
    BY <2>1 DEF OnBus
<1>6. \A f : Waits(f)' <=> Waits(f) \/ \E b \in Bus : f = new(b)
  BY <1>4, <1>5 DEF Waits
<1>7. \A p \in Places : Live(p)' <=> Live(p)
  BY <1>4 DEF Live, Dist, First
<1>8. \A f : ToCome(f)' <=> ToCome(f) \/ \E b \in Bus : f = new(b)
  BY <1>4, <1>6, <1>7 DEF ToCome
<1> QED
  BY <1>2, <1>5, <1>6, <1>8 DEF new

LEMMA UncrowdedSend ==
    ASSUME TypeOK, Uncrowded, NEW c \in Content, Send(c)
    PROVE  Uncrowded'
<1> DEFINE new(b) == [num |-> Len(sent) + 1, content |-> c, bus |-> b]
<1>1. UNCHANGED <<ring, push2, main, last, parsed, missed>>
  BY DEF Send
<1>2. /\ \A b \in Bus : new(b) \in Frame
      /\ \A b \in Bus : \A f : OnBus(b, f)' <=> OnBus(b, f) \/ f = new(b)
      /\ \A f : Waits(f)' <=> Waits(f) \/ \E b \in Bus : f = new(b)
      /\ \A f : ToCome(f)' <=> ToCome(f) \/ \E b \in Bus : f = new(b)
  BY SentToCome
<1>3. \A b \in Bus : new(b).num = Len(sent) + 1 /\ new(b).content = c /\ new(b).bus = b
  OBVIOUS
<1>4. \A b \in Bus : bus'[b] = Append(bus[b], new(b)) /\ bus[b] \in Seq(Frame)
  BY DEF TypeOK, Send
<1> HIDE DEF new
<1>5. /\ Len(sent) \in Nat
      /\ DOMAIN sent = 1 .. Len(sent) /\ DOMAIN sent' = 1 .. Len(sent) + 1
      /\ \A n \in DOMAIN sent : sent'[n] = sent[n]
      /\ sent'[Len(sent) + 1] = c
  BY SentOK DEF TypeOK, Send
<1>6. \A f \in Frame : ToCome(f) => f.num < Len(sent) + 1
  BY <1>5 DEF Uncrowded, Genuine
\* Whatever is to come before it precedes the new frame.
<1>7. ASSUME NEW f, f.num \in Nat, f.num < Len(sent) + 1, NEW b \in Bus
      PROVE  Precedes(missed'.apart, f, new(b))
  BY <1>3, <1>5, <1>7 DEF Precedes
<1>8. /\ \A p \in Places : Live(p)' <=> Live(p)
      /\ \A p, q \in Places : Before(p, q)' <=> Before(p, q)
      /\ \A f, g : Precedes(missed'.apart, f, g) <=> Precedes(missed.apart, f, g)
  BY <1>1 DEF Live, Before, Dist, First, Precedes
<1>9. Indices'
  BY <1>1 DEF Uncrowded, Indices, Dist
<1>10. Outside'
  <2>1. Rising'
    <3> SUFFICES ASSUME NEW b \in Bus, NEW i \in DOMAIN bus'[b], NEW j \in DOMAIN bus'[b], i < j
                 PROVE  bus'[b][i].num < bus'[b][j].num
      BY DEF Rising
    <3>1. /\ DOMAIN bus'[b] = DOMAIN bus[b] \cup {Len(bus[b]) + 1}
          /\ \A k \in DOMAIN bus[b] :
                bus'[b][k] = bus[b][k] /\ k < Len(bus[b]) + 1 /\ k \in Nat
          /\ bus'[b][Len(bus[b]) + 1] = new(b) /\ Len(bus[b]) \in Nat
      <4>1. bus[b] \in Seq(Frame) /\ bus'[b] = Append(bus[b], new(b))
        BY <1>4
      <4>2. /\ DOMAIN Append(bus[b], new(b)) = DOMAIN bus[b] \cup {Len(bus[b]) + 1}
            /\ \A k \in DOMAIN bus[b] : Append(bus[b], new(b))[k] = bus[b][k]
                                         /\ k < Len(bus[b]) + 1 /\ k \in Nat
            /\ Append(bus[b], new(b))[Len(bus[b]) + 1] = new(b) /\ Len(bus[b]) \in Nat
        BY <4>1, AppendedOK
      <4> QED
        BY <4>1, <4>2
    <3>2. i \in DOMAIN bus[b]
      BY <3>1
    <3>3. CASE j \in DOMAIN bus[b]
      BY <3>1, <3>2, <3>3 DEF Uncrowded, Outside, Rising
    <3>4. CASE j = Len(bus[b]) + 1
      <4>1. bus[b][i] \in Frame /\ ToCome(bus[b][i])
        <5>1. OnBus(b, bus[b][i])
          BY <3>2 DEF OnBus
        <5> QED
          BY <1>4, <3>2, <5>1, ElementOfSeq DEF ToCome, Waits
      <4> QED
        BY <1>3, <1>6, <3>1, <3>2, <3>4, <4>1
    <3> QED
      BY <3>1, <3>3, <3>4
  <2>2. ASSUME NEW b \in Bus, NEW f \in Frame, OnBus(b, f)'
        PROVE  f.bus = b /\ (push2 # Idle => Precedes(missed'.apart, push2.frame, f))
    <3>1. CASE OnBus(b, f)
      BY <1>8, <3>1 DEF Uncrowded, Outside
    <3>2. CASE f = new(b)
      <4>1. push2 # Idle => push2.frame \in Frame /\ ToCome(push2.frame)
        BY DEF TypeOK, ToCome, Waits
      <4> QED
        BY <1>3, <1>6, <1>7, <3>2, <4>1, NumberOK
    <3> QED
      BY <1>2, <2>2, <3>1, <3>2
  <2> QED
    BY <1>1, <2>1, <2>2 DEF Uncrowded, Outside
<1>11. Genuine'
  <2> SUFFICES ASSUME NEW f \in Frame, ToCome(f)'
               PROVE  f.num \in DOMAIN sent' /\ f.content = sent'[f.num]
    BY DEF Genuine
  <2>1. CASE ToCome(f)
    BY <1>5, <2>1 DEF Uncrowded, Genuine
  <2>2. CASE \E b \in Bus : f = new(b)
    BY <1>3, <1>5, <2>2
  <2> QED
    BY <1>2, <2>1, <2>2
<1>12. Ordered'
  <2> SUFFICES ASSUME NEW p \in Places, Live(p), NEW f \in Frame, Waits(f)'
               PROVE  Precedes(missed'.apart, ring.slot[p], f)
    BY <1>1, <1>8 DEF Uncrowded, Ordered
  <2>1. CASE Waits(f)
    BY <1>8, <2>1 DEF Uncrowded, Ordered
  <2>2. CASE \E b \in Bus : f = new(b)
    <3>1. ring.slot[p] \in Frame /\ ToCome(ring.slot[p])
      BY SlotOK DEF ToCome
    <3> QED
      BY <1>6, <1>7, <2>2, <3>1, NumberOK
  <2> QED
    BY <1>2, <2>1, <2>2
<1>13. Filtered'
  <2> SUFFICES ASSUME NEW j \in DOMAIN parsed
               PROVE  /\ parsed[j].num \in DOMAIN sent'
                      /\ \A f \in Frame : ToCome(f)' =>
                            /\ Precedes(missed'.apart, parsed[j], f)
                            /\ missed.apart \/ (parsed[j].num = f.num =>
                                                   last[OtherBus(f.bus)] = f.content)
    BY <1>1 DEF Filtered
  <2>1. parsed[j].num \in DOMAIN sent /\ parsed[j].num \in Nat
    BY ParsedOK DEF Uncrowded, Filtered
  <2>2. ASSUME NEW f \in Frame, ToCome(f)'
        PROVE  /\ Precedes(missed'.apart, parsed[j], f)
               /\ missed.apart \/ (parsed[j].num = f.num => last[OtherBus(f.bus)] = f.content)
    <3>1. CASE ToCome(f)
      BY <1>8, <3>1 DEF Uncrowded, Filtered
    <3>2. CASE \E b \in Bus : f = new(b)
      <4>1. parsed[j].num < Len(sent) + 1
        BY <1>5, <2>1
      <4> QED
        BY <1>3, <1>7, <2>1, <3>2, <4>1
    <3> QED
      BY <1>2, <2>2, <3>1, <3>2
  <2> QED
    BY <1>5, <2>1, <2>2
<1>14. Sorted'
  BY <1>1 DEF Uncrowded, Sorted
<1> QED
  BY <1>9, <1>10, <1>11, <1>12, <1>13, <1>14 DEF Uncrowded

\* The first copy that a bus holds is lost.
LEMMA UncrowdedLose ==
    ASSUME TypeOK, Uncrowded, NEW b \in Bus, Lose(b)
    PROVE  Uncrowded'
<1>1. /\ UNCHANGED <<ring, push2, main, last, sent, parsed>>
      /\ missed'.met = missed.met /\ missed'.apart = missed.apart
  BY DEF Lose, TypeOK
<1>2. (\A c \in Bus : \A f : OnBus(c, f)' => OnBus(c, f)) /\ Rising'
  BY BusTaken DEF Lose, Uncrowded
<1>3. \A f : Waits(f)' => Waits(f)
  BY <1>1, <1>2 DEF Waits
<1>4. Genuine' /\ Ordered' /\ Filtered' /\ Sorted'
  <2>1. First' = First
    BY <1>1 DEF First
  <2>2. \A p \in Places : Live(p)' => Live(p) /\ ring'.slot[p] = ring.slot[p]
    BY <1>1, <2>1 DEF Live, Dist
  <2> QED
    BY <1>1, <1>3, <2>1, <2>2, Kept
<1>5. Indices'
  BY <1>1 DEF Uncrowded, Indices, Dist
<1>6. Outside'
  BY <1>1, <1>2 DEF Uncrowded, Outside, Precedes
<1> QED
  BY <1>4, <1>5, <1>6 DEF Uncrowded

\* The interrupt of FDCAN1 puts the first copy of its bus into the ring.
LEMMA PushedFirst ==
    ASSUME TypeOK, Uncrowded, Push1, ~missed'.crowded
    PROVE  /\ Head(bus[1]) \in Frame /\ Waits(Head(bus[1]))
           /\ Dist(ring.tail, ring.head) <= RingSize - 3
           /\ ring' = Stored(ring, Head(bus[1]), NextIndex(ring.head))
           /\ missed.apart => missed'.apart
           /\ \A f \in Frame : Waits(f)' => Waits(f) /\ Precedes(missed'.apart, Head(bus[1]), f)
           /\ \A f \in Frame : Waits(f) => Waits(f)' \/ f = Head(bus[1])
<1> DEFINE e == Head(bus[1])
<1>1. bus[1] # <<>> /\ UNCHANGED <<push2, main, last, sent, parsed>> /\ 1 \in Bus /\ 2 \in Bus
  BY DEF Push1, Bus
<1>2. /\ ~Crowded
      /\ missed.apart => missed'.apart
      /\ missed'.apart \/ ~EarlierWaits(2, e.num)
  BY DEF Push1, TypeOK
<1>3. /\ ring.head \in Places /\ ring.tail \in Places
      /\ ring' = Stored(ring, e, NextIndex(ring.head))
      /\ Dist(ring.tail, ring.head) <= RingSize - 3
  BY <1>2, PlacesOK, NotCrowded DEF Push1
<1>4. /\ e \in Frame /\ e.bus = 1 /\ OnBus(1, e)
      /\ \A c \in Bus : \A f : OnBus(c, f)' => OnBus(c, f)
      /\ \A c \in Bus : \A f : OnBus(c, f) => OnBus(c, f)' \/ (c = 1 /\ f = e)
      /\ \A f : OnBus(1, f)' => e.num < f.num
  BY <1>1, BusTaken DEF Push1, Uncrowded
<1>5. Waits(e)
  BY <1>1, <1>4 DEF Waits
<1>6. ASSUME ~EarlierWaits(2, e.num), NEW f \in Frame, OnBus(2, f) PROVE e.num <= f.num
  BY <1>1, <1>6, NotOvertaken DEF Uncrowded, OtherBus
<1> HIDE DEF e
<1>7. ASSUME NEW f \in Frame, Waits(f)' PROVE Waits(f) /\ Precedes(missed'.apart, e, f)
  <2>1. Waits(f)
    BY <1>1, <1>4, <1>7 DEF Waits
  <2>2. e.num \in Nat /\ f.num \in Nat
    BY <1>4, NumberOK
  <2>3. CASE OnBus(1, f)'
    BY <1>4, <2>1, <2>2, <2>3 DEF Precedes
  <2>4. CASE OnBus(2, f)'
    <3>1. OnBus(2, f) /\ f.bus = 2
      BY <1>1, <1>4, <2>4 DEF Uncrowded, Outside
    <3> QED
      BY <1>2, <1>4, <1>6, <2>1, <3>1 DEF Precedes
  <2>5. CASE push2 # Idle /\ push2.frame = f
    <3>1. f.bus = 2
      BY <2>5 DEF Uncrowded, Outside
    <3>2. ~EarlierWaits(2, e.num) => e.num <= f.num
      BY <2>2, <2>5 DEF EarlierWaits
    <3> QED
      BY <1>2, <1>4, <2>1, <3>1, <3>2 DEF Precedes
  <2> QED
    BY <1>1, <1>7, <2>1, <2>3, <2>4, <2>5 DEF Waits, Bus
<1>8. \A f \in Frame : Waits(f) => Waits(f)' \/ f = e
  BY <1>1, <1>4 DEF Waits
<1> QED
  BY <1>2, <1>3, <1>4, <1>5, <1>7, <1>8 DEF e

\* A push of FDCAN2 that it preempts has computed a place that now has an entry.
LEMMA UncrowdedPush1 ==
    ASSUME TypeOK, Uncrowded, Push1, ~missed'.crowded
    PROVE  Uncrowded'
<1>1. /\ bus[1] # <<>> /\ 1 \in Bus /\ 2 \in Bus
      /\ UNCHANGED <<push2, main, last, sent, parsed>>
      /\ (push2 # Idle => missed'.met) /\ (missed.apart => missed'.apart)
  BY DEF Push1, TypeOK, Bus
<1>2. /\ Head(bus[1]) \in Frame /\ Waits(Head(bus[1]))
      /\ Dist(ring.tail, ring.head) <= RingSize - 3
      /\ ring' = Stored(ring, Head(bus[1]), NextIndex(ring.head))
      /\ \A f \in Frame : Waits(f)' => Waits(f) /\ Precedes(missed'.apart, Head(bus[1]), f)
  BY PushedFirst
<1>3. Genuine' /\ Ordered' /\ Filtered' /\ Sorted'
  BY <1>1, <1>2, Appended
<1>4. /\ Dist(ring.tail, ring.head)' = Dist(ring.tail, ring.head) + 1
      /\ ring'.tail = ring.tail /\ ring'.head = NextIndex(ring.head)
      /\ ring.head \in Places /\ ring.tail \in Places
  <2>1. ring'.head = NextIndex(ring.head)
    BY <1>2, PlacesOK DEF Stored
  <2> QED
    BY <1>1, <1>2, <2>1, AppendedPlaces, PlacesOK DEF Uncrowded
<1>5. Dist(ring.tail, ring.head) \in Nat /\ Dist(ring.tail, ring.tail) = 0
  BY PlacesOK, DistOK DEF Places
<1>6. Indices'
  <2> DEFINE d == Dist(ring.tail, ring.head)
  <2>1. Dist(ring.tail, ring'.head) = d + 1 /\ d \in Nat /\ Dist(ring.tail, ring.head)' = d + 1
    BY <1>4, <1>5 DEF Dist
  <2>2. ring'.head # ring'.tail
    BY <1>4, <1>5, <2>1
  <2>3. d + 1 <= RingSize - 2
    BY <1>2, <2>1, RingAssumption
  <2>4. push2 # Idle => /\ 1 <= Dist(ring.tail, push2.next)
                        /\ Dist(ring.tail, push2.next) <= d + 1
    <3> SUFFICES ASSUME push2 # Idle
                 PROVE  1 <= Dist(ring.tail, push2.next) /\ Dist(ring.tail, push2.next) <= d + 1
      OBVIOUS
    <3>0. Dist(ring.tail, push2.next) \in Nat
      <4>1. push2.next \in Places
        BY DEF TypeOK, Places
      <4>2. Dist(ring.tail, push2.next) \in Places
        BY <1>4, <4>1, DistOK
      <4> QED
        BY <4>2, RingAssumption DEF Places
    <3>1. CASE push2.next = NextIndex(ring.head)
      BY <1>4, <2>1, <3>1
    <3>2. CASE 1 <= Dist(ring.tail, push2.next) /\ Dist(ring.tail, push2.next) <= d
      <4> HIDE DEF d
      <4> QED
        BY <2>1, <3>0, <3>2
    <3> QED
      BY <3>1, <3>2 DEF Uncrowded, Indices
  <2>5. Dist(ring.tail, push2.next)' = Dist(ring.tail, push2.next)
    BY <1>1, <1>4 DEF Dist
  <2> HIDE DEF d
  <2> QED
    BY <1>1, <1>4, <2>1, <2>2, <2>3, <2>4, <2>5 DEF Uncrowded, Indices
<1>7. Outside'
  <2>1. (\A c \in Bus : \A f : OnBus(c, f)' => OnBus(c, f)) /\ Rising'
    BY <1>1, BusTaken DEF Push1, Uncrowded
  <2> QED
    BY <1>1, <2>1 DEF Uncrowded, Outside, Precedes
<1> QED
  BY <1>3, <1>6, <1>7 DEF Uncrowded

\* The push of FDCAN2 takes the first copy of its bus.
LEMMA UncrowdedBeginPush2 ==
    ASSUME TypeOK, Uncrowded, BeginPush2, ~missed'.crowded
    PROVE  Uncrowded' /\ \A f \in Frame : ToCome(f)' <=> ToCome(f)
<1> DEFINE e == Head(bus[2])
<1>1. /\ bus[2] # <<>> /\ push2 = Idle /\ 1 \in Bus /\ 2 \in Bus
      /\ UNCHANGED <<main, last, sent, parsed>>
      /\ push2' # Idle /\ push2'.frame = e /\ push2'.next = NextIndex(ring.head)
  BY DEF BeginPush2, Bus, Idle
<1>2. /\ ~Crowded
      /\ missed.apart => missed'.apart
      /\ missed'.apart \/ ~EarlierWaits(1, e.num)
  BY DEF BeginPush2, TypeOK
<1>3. /\ ring.head \in Places /\ ring.tail \in Places /\ ring' = ring
      /\ Dist(ring.tail, ring.head) <= RingSize - 3
  BY <1>2, PlacesOK, NotCrowded DEF BeginPush2
<1>4. /\ e \in Frame /\ e.bus = 2 /\ OnBus(2, e)
      /\ \A c \in Bus : \A f : OnBus(c, f)' => OnBus(c, f)
      /\ \A c \in Bus : \A f : OnBus(c, f) => OnBus(c, f)' \/ (c = 2 /\ f = e)
      /\ \A f : OnBus(2, f)' => e.num < f.num
      /\ Rising'
  BY <1>1, BusTaken DEF BeginPush2, Uncrowded
<1>5. ASSUME ~EarlierWaits(1, e.num), NEW f \in Frame, OnBus(1, f) PROVE e.num <= f.num
  BY <1>1, <1>5, NotOvertaken DEF Uncrowded, OtherBus
<1> HIDE DEF e
<1>6. \A f \in Frame : Waits(f)' <=> Waits(f)
  BY <1>1, <1>4 DEF Waits
<1>7. First' = First /\ \A p \in Places : Live(p)' <=> Live(p)
  BY <1>1, <1>3 DEF First, Live, Dist
<1>8. Genuine' /\ Ordered' /\ Filtered' /\ Sorted'
  BY <1>1, <1>2, <1>3, <1>6, <1>7, Kept
<1>9. Indices'
  BY <1>1, <1>3 DEF Uncrowded, Indices, Dist
<1>10. Outside'
  <2>1. ASSUME NEW b \in Bus, NEW f \in Frame, OnBus(b, f)'
        PROVE  f.bus = b /\ Precedes(missed'.apart, e, f)
    <3>1. OnBus(b, f) /\ f.bus = b /\ e.num \in Nat /\ f.num \in Nat
      BY <1>4, <2>1, NumberOK DEF Uncrowded, Outside
    <3>2. CASE b = 2
      BY <1>4, <2>1, <3>1, <3>2 DEF Precedes
    <3>3. CASE b = 1
      BY <1>2, <1>4, <1>5, <3>1, <3>3 DEF Precedes
    <3> QED
      BY <3>2, <3>3 DEF Bus
  <2> QED
    BY <1>1, <1>4, <2>1 DEF Outside
<1>11. \A f \in Frame : ToCome(f)' <=> ToCome(f)
  BY <1>3, <1>6, <1>7 DEF ToCome
<1> QED
  BY <1>8, <1>9, <1>10, <1>11 DEF Uncrowded

\* The push of FDCAN2 ends and adds an entry.
LEMMA PushedSecond ==
    ASSUME TypeOK, Uncrowded, EndPush2
    PROVE  /\ push2.frame \in Frame /\ Waits(push2.frame) /\ push2' = Idle
           /\ ring' = Stored(ring, push2.frame, push2.next)
           /\ UNCHANGED <<bus, main, last, sent, parsed, missed>>
           /\ \A f \in Frame : Waits(f)' => Waits(f) /\ Precedes(missed'.apart, push2.frame, f)
           /\ \A f \in Frame : Waits(f) => Waits(f)' \/ f = push2.frame
           /\ Outside'
<1>1. /\ push2 # Idle /\ push2' = Idle
      /\ ring' = Stored(ring, push2.frame, push2.next)
      /\ UNCHANGED <<bus, main, last, sent, parsed, missed>>
  BY DEF EndPush2
<1>2. push2.frame \in Frame
  BY <1>1 DEF TypeOK
<1>3. \A c \in Bus : \A f : OnBus(c, f)' <=> OnBus(c, f)
  BY <1>1 DEF OnBus
<1>4. /\ Waits(push2.frame)
      /\ \A f \in Frame : Waits(f)' => \E b \in Bus : OnBus(b, f)
      /\ \A f \in Frame : Waits(f)' => Waits(f)
      /\ \A f \in Frame : Waits(f) => Waits(f)' \/ f = push2.frame
  BY <1>1, <1>3 DEF Waits
<1>5. \A f \in Frame : Waits(f)' => Precedes(missed'.apart, push2.frame, f)
  BY <1>1, <1>4 DEF Uncrowded, Outside, Precedes
<1>6. Outside'
  BY <1>1, <1>3 DEF Uncrowded, Outside, Rising
<1> QED
  BY <1>1, <1>2, <1>4, <1>5, <1>6

\* After pushes of FDCAN1 in between it writes the place that is empty and
\* goes back to the head it computed: what lies behind it is lost.
LEMMA UncrowdedEndPush2 ==
    ASSUME TypeOK, Uncrowded, EndPush2
    PROVE  Uncrowded'
<1>1. /\ push2.frame \in Frame /\ Waits(push2.frame) /\ push2 # Idle /\ push2' = Idle
      /\ ring' = Stored(ring, push2.frame, push2.next)
      /\ UNCHANGED <<bus, main, last, sent, parsed, missed>>
      /\ \A f \in Frame : Waits(f)' => Waits(f) /\ Precedes(missed'.apart, push2.frame, f)
      /\ Outside'
  BY PushedSecond DEF EndPush2
<1>2. /\ ring.head \in Places /\ ring.tail \in Places /\ First \in Places
      /\ Dist(ring.tail, ring.head) \in Nat /\ Dist(ring.tail, ring.tail) = 0
  BY PlacesOK, DistOK DEF Places
<1>3. CASE /\ push2.next = NextIndex(ring.head)
           /\ Dist(ring.tail, ring.head) <= RingSize - 3
  <2>1. Genuine' /\ Ordered' /\ Filtered' /\ Sorted'
    BY <1>1, <1>3, Appended
  <2>2. /\ Dist(ring.tail, ring.head)' = Dist(ring.tail, ring.head) + 1
        /\ ring'.tail = ring.tail
    BY <1>1, <1>3, AppendedPlaces DEF Uncrowded
  <2>3. ring'.head # ring'.tail
    <3>1. Dist(ring.tail, ring'.head) = Dist(ring.tail, ring.head) + 1
      BY <2>2 DEF Dist
    <3> QED
      BY <1>2, <2>2, <3>1
  <2>4. Dist(ring.tail, ring.head)' <= RingSize - 2
    BY <1>2, <1>3, <2>2, RingAssumption
  <2>5. Indices'
    BY <1>1, <2>2, <2>3, <2>4 DEF Uncrowded, Indices
  <2> QED
    BY <1>1, <2>1, <2>5 DEF Uncrowded
<1>4. CASE /\ 1 <= Dist(ring.tail, push2.next)
           /\ Dist(ring.tail, push2.next) <= Dist(ring.tail, ring.head)
  <2>1. /\ ring'.head = push2.next /\ ring'.tail = ring.tail /\ push2.next \in Places
        /\ \A p \in Places : p # ring.head => ring'.slot[p] = ring.slot[p]
    BY <1>1, PlacesOK DEF Stored, TypeOK, Places
  <2>2. First' = First
    BY <1>1, <2>1 DEF First
  <2>3. Dist(ring.tail, push2.next) \in Nat /\ Dist(ring.tail, push2.next) <= RingSize - 2
    <3>0. Dist(ring.tail, push2.next) \in Places
      BY <1>2, <2>1, DistOK
    <3>1. Dist(ring.tail, push2.next) \in Nat
      BY <3>0, RingAssumption DEF Places
    <3>2. Dist(ring.tail, ring.head) <= RingSize - 2
      BY DEF Uncrowded, Indices
    <3> QED
      BY <1>2, <1>4, <3>1, <3>2, RingAssumption
  <2>4. Dist(First, push2.next) <= Dist(First, ring.head)
    <3>1. /\ Dist(First, push2.next) =
                Dist(ring.tail, push2.next) + (IF main.at = "handle" THEN 1 ELSE 0)
          /\ Dist(First, ring.head) =
                Dist(ring.tail, ring.head) + (IF main.at = "handle" THEN 1 ELSE 0)
      BY <1>2, <2>1, <2>3, FillOK DEF Uncrowded, Indices
    <3> QED
      BY <1>2, <1>4, <2>3, <3>1
  <2>5. \A p \in Places : Live(p)' => Live(p) /\ ring'.slot[p] = ring.slot[p]
    <3> SUFFICES ASSUME NEW p \in Places, Live(p)' PROVE Live(p) /\ p # ring.head
      BY <2>1
    <3>0. \A x \in Places : Dist(First, x) \in Places
      BY <1>2, DistOK
    <3>1. /\ Dist(First, p) \in Nat /\ Dist(First, ring.head) \in Nat
          /\ Dist(First, push2.next) \in Nat
      BY <1>2, <2>1, <3>0, RingAssumption DEF Places
    <3>2. Dist(First, p) < Dist(First, push2.next)
      BY <2>1, <2>2 DEF Live, Dist
    <3> QED
      BY <2>4, <3>1, <3>2 DEF Live
  <2>6. Genuine' /\ Ordered' /\ Filtered' /\ Sorted'
    BY <1>1, <2>2, <2>5, Kept
  <2>7. Indices'
    <3>1. Dist(ring.tail, ring.head)' = Dist(ring.tail, push2.next)
      BY <2>1 DEF Dist
    <3>2. ring'.head # ring'.tail
      BY <1>2, <1>4, <2>1, <2>3
    <3> QED
      BY <1>1, <2>1, <2>3, <3>1, <3>2 DEF Uncrowded, Indices
  <2> QED
    BY <1>1, <2>6, <2>7 DEF Uncrowded
<1> QED
  BY <1>1, <1>3, <1>4 DEF Uncrowded, Indices

\* The main loop remembers the first entry ...
LEMMA UncrowdedTake ==
    ASSUME TypeOK, Uncrowded, TakeEntry
    PROVE  Uncrowded' /\ \A f \in Frame : ToCome(f)' <=> ToCome(f)
<1>1. /\ ring.head # ring.tail /\ push2 = Idle /\ main = Idle
      /\ main'.at = "advance" /\ main'.entry = ring.tail
      /\ UNCHANGED <<bus, ring, push2, last, sent, parsed, missed>>
  BY DEF TakeEntry
<1>2. First' = First
  BY <1>1 DEF First, Idle
<1>3. /\ \A p \in Places : Live(p)' <=> Live(p)
      /\ \A c \in Bus : \A f : OnBus(c, f)' <=> OnBus(c, f)
      /\ \A f : Waits(f)' <=> Waits(f)
  BY <1>1, <1>2 DEF Live, Dist, OnBus, Waits
<1>4. Genuine' /\ Ordered' /\ Filtered' /\ Sorted'
  BY <1>1, <1>2, <1>3, Kept
<1>5. Indices'
  BY <1>1 DEF Uncrowded, Indices, Dist
<1>6. Outside'
  BY <1>1, <1>3 DEF Uncrowded, Outside, Rising, Precedes
<1> QED
  BY <1>1, <1>3, <1>4, <1>5, <1>6 DEF Uncrowded, ToCome

\* ... and moves the tail past it.
LEMMA UncrowdedAdvance ==
    ASSUME TypeOK, Uncrowded, AdvanceTail
    PROVE  Uncrowded' /\ \A f \in Frame : ToCome(f)' <=> ToCome(f)
<1>1. /\ push2 = Idle /\ main.at = "advance"
      /\ UNCHANGED <<bus, push2, last, sent, parsed, missed>>
  BY DEF AdvanceTail
<1>2. /\ main.entry = ring.tail /\ ring.head # ring.tail
      /\ main # Idle
  BY <1>1, PlacesOK DEF Uncrowded, Indices
<1>3. /\ ring'.slot = ring.slot /\ ring'.head = ring.head
      /\ ring'.tail = NextIndex(ring.tail)
      /\ main'.at = "handle" /\ main'.entry = ring.tail
  BY <1>1, <1>2, PlacesOK DEF AdvanceTail
<1>4. First' = First
  BY <1>1, <1>3 DEF First
<1>5. /\ \A p \in Places : Live(p)' <=> Live(p)
      /\ \A c \in Bus : \A f : OnBus(c, f)' <=> OnBus(c, f)
      /\ \A f : Waits(f)' <=> Waits(f)
  BY <1>1, <1>3, <1>4 DEF Live, Dist, OnBus, Waits
<1>6. Genuine' /\ Ordered' /\ Filtered' /\ Sorted'
  BY <1>1, <1>3, <1>4, <1>5, Kept
<1>7. Indices'
  <2>1. Dist(ring.tail, ring.head)' = Dist(ring.tail, ring.head) - 1
    <3>1. Dist(NextIndex(ring.tail), ring.head) =
            IF ring.tail = ring.head THEN RingSize - 1 ELSE Dist(ring.tail, ring.head) - 1
      BY PlacesOK, DistNext
    <3> QED
      BY <1>2, <1>3, <3>1 DEF Dist
  <2>2. Dist(ring.tail, ring.head) \in Nat /\ Dist(ring.tail, ring.head) <= RingSize - 2
    BY PlacesOK, DistOK DEF Uncrowded, Indices, Places
  <2>3. Dist(ring.tail, ring.head)' <= RingSize - 2
    BY <2>1, <2>2, RingAssumption
  <2> QED
    BY <1>1, <1>3, <2>3 DEF Indices
<1>8. Outside'
  BY <1>1, <1>5 DEF Uncrowded, Outside, Rising, Precedes
<1> QED
  BY <1>3, <1>5, <1>6, <1>7, <1>8 DEF Uncrowded, ToCome

\* The main loop hands on the entry it remembers: the places not handled yet
\* begin with the next one.
LEMMA HandledPlaces ==
    ASSUME TypeOK, Indices, HandleEntry
    PROVE  /\ First \in Places /\ First = main.entry /\ Live(First)
           /\ main'.at # "handle" /\ main'.at # "advance"
           /\ \A p \in Places : Live(p)' <=> Live(p) /\ p # First
           /\ \A p \in Places : Live(p)' => Before(First, p)
           /\ \A p, q \in Places : Live(p)' /\ Live(q)' => (Before(p, q)' <=> Before(p, q))
<1> DEFINE D == Dist(First, ring.head)
<1>1. /\ main.at = "handle" /\ main' = Idle /\ ring' = ring
      /\ First \in Places /\ ring.head \in Places /\ ring.tail \in Places
  BY PlacesOK DEF HandleEntry
<1>2. First = main.entry /\ ring.tail = NextIndex(First)
  BY <1>1 DEF First, Indices
<1>3. First' = NextIndex(First) /\ main'.at = "idle"
  BY <1>1, <1>2 DEF First, Idle
<1>4. D \in Nat /\ D > 0 /\ D <= RingSize - 1
  <2>1. D = Dist(ring.tail, ring.head) + 1 /\ D \in Places
    BY <1>1, FillOK DEF Indices
  <2>2. Dist(ring.tail, ring.head) \in Nat
    BY PlacesOK, DistOK DEF Places
  <2> HIDE DEF D
  <2> QED
    BY <2>1, <2>2 DEF Places
<1>5. Dist(First, First) = 0 /\ First # ring.head
  BY <1>1, <1>4, DistOK
<1>6. \A p \in Places :
        /\ Dist(First, p) \in Nat
        /\ Dist(First, p) = 0 <=> p = First
        /\ Dist(First, p)' = IF p = First THEN RingSize - 1 ELSE Dist(First, p) - 1
  <2> TAKE p \in Places
  <2>1. Dist(First, p) \in Places /\ (Dist(First, p) = 0 <=> p = First)
    BY <1>1, DistOK
  <2>2. Dist(First, p)' = Dist(NextIndex(First), p)
    BY <1>3 DEF Dist
  <2>3. Dist(NextIndex(First), p) = IF First = p THEN RingSize - 1 ELSE Dist(First, p) - 1
    BY <1>1, DistNext
  <2> QED
    BY <2>1, <2>2, <2>3 DEF Places
<1>7. Dist(First, ring.head)' = D - 1
  BY <1>1, <1>5, <1>6
<1> HIDE DEF D
<1>8. \A p \in Places : Live(p) <=> Dist(First, p) < D
  BY DEF Live, D
<1>9. \A p \in Places : Live(p)' <=> Dist(First, p)' < D - 1
  BY <1>7 DEF Live
<1>10. \A p \in Places : Live(p)' <=> Live(p) /\ p # First
  <2> TAKE p \in Places
  <2>1. CASE p = First
    <3>1. Dist(First, p)' = RingSize - 1
      BY <1>6, <2>1
    <3> QED
      BY <1>4, <1>9, <2>1, <3>1, RingAssumption
  <2>2. CASE p # First
    <3>1. Dist(First, p)' = Dist(First, p) - 1 /\ Dist(First, p) \in Nat
      BY <1>6, <2>2
    <3> QED
      BY <1>4, <1>8, <1>9, <2>2, <3>1
  <2> QED
    BY <2>1, <2>2
<1>11. Live(First)
  BY <1>1, <1>4, <1>5, <1>8
<1>12. \A p \in Places : Live(p)' => Before(First, p)
  <2> SUFFICES ASSUME NEW p \in Places, p # First PROVE Before(First, p)
    BY <1>10
  <2>1. Dist(First, p) \in Nat /\ Dist(First, p) # 0
    BY <1>6
  <2> QED
    BY <1>5, <2>1 DEF Before
<1>13. \A p, q \in Places : Live(p)' /\ Live(q)' => (Before(p, q)' <=> Before(p, q))
  <2> SUFFICES ASSUME NEW p \in Places, NEW q \in Places, p # First, q # First
               PROVE  Before(p, q)' <=> Before(p, q)
    BY <1>10
  <2>1. /\ Dist(First, p) \in Nat /\ Dist(First, q) \in Nat
        /\ Dist(First, p)' = Dist(First, p) - 1 /\ Dist(First, q)' = Dist(First, q) - 1
    BY <1>6
  <2> QED
    BY <2>1 DEF Before
<1> QED
  BY <1>1, <1>2, <1>3, <1>10, <1>11, <1>12, <1>13

\* The entry in hand comes before everything that is still to come.
LEMMA HandledEntry ==
    ASSUME TypeOK, Uncrowded, HandleEntry
    PROVE  LET e == ring.slot[First]
           IN  /\ First \in Places /\ Live(First) /\ e \in Frame /\ ToCome(e)
               /\ main'.at # "handle" /\ main'.at # "advance"
               /\ UNCHANGED <<bus, ring, push2, sent, missed>>
               /\ parsed' = IF IsDuplicate(e) THEN parsed
                            ELSE Append(parsed, [num |-> e.num, bus |-> e.bus])
               /\ last' = [last EXCEPT ![e.bus] = e.content]
               /\ \A p \in Places : Live(p)' <=> Live(p) /\ p # First
               /\ \A p, q \in Places : Live(p)' /\ Live(q)' => (Before(p, q)' <=> Before(p, q))
               /\ \A f \in Frame : Waits(f)' <=> Waits(f)
               /\ \A f \in Frame : ToCome(f)' => ToCome(f) /\ Precedes(missed.apart, e, f)
               /\ \A f \in Frame : ToCome(f) => ToCome(f)' \/ f = e
<1> DEFINE e == ring.slot[First]
<1>1. /\ First \in Places /\ First = main.entry /\ Live(First)
      /\ main'.at # "handle" /\ main'.at # "advance"
      /\ \A p \in Places : Live(p)' <=> Live(p) /\ p # First
      /\ \A p \in Places : Live(p)' => Before(First, p)
      /\ \A p, q \in Places : Live(p)' /\ Live(q)' => (Before(p, q)' <=> Before(p, q))
  BY HandledPlaces DEF Uncrowded
<1>2. /\ UNCHANGED <<bus, ring, push2, sent, missed>>
      /\ parsed' = IF IsDuplicate(e) THEN parsed
                   ELSE Append(parsed, [num |-> e.num, bus |-> e.bus])
      /\ last' = [last EXCEPT ![e.bus] = e.content]
  BY <1>1 DEF HandleEntry
<1>3. e \in Frame /\ ToCome(e)
  BY <1>1, SlotOK DEF ToCome
<1>4. \A f \in Frame : Waits(f)' <=> Waits(f)
  BY <1>2 DEF Waits, OnBus
<1>5. ASSUME NEW f \in Frame, ToCome(f)' PROVE ToCome(f) /\ Precedes(missed.apart, e, f)
  <2>1. CASE Waits(f)'
    BY <1>1, <1>4, <2>1 DEF ToCome, Uncrowded, Ordered
  <2>2. CASE \E p \in Places : Live(p)' /\ ring'.slot[p] = f
    <3>1. PICK p \in Places : Live(p)' /\ ring'.slot[p] = f
      BY <2>2
    <3>2. Live(p) /\ Before(First, p) /\ ring.slot[p] = f
      BY <1>1, <1>2, <3>1
    <3> QED
      BY <1>1, <3>2 DEF ToCome, Uncrowded, Ordered
  <2> QED
    BY <1>5, <2>1, <2>2 DEF ToCome
<1>6. ASSUME NEW f \in Frame, ToCome(f), f # e PROVE ToCome(f)'
  <2>1. CASE Waits(f)
    BY <1>4, <2>1 DEF ToCome
  <2>2. CASE \E p \in Places : Live(p) /\ ring.slot[p] = f
    <3>1. PICK p \in Places : Live(p) /\ ring.slot[p] = f
      BY <2>2
    <3>2. Live(p)' /\ ring'.slot[p] = f
      BY <1>1, <1>2, <1>6, <3>1
    <3> QED
      BY <3>2 DEF ToCome
  <2> QED
    BY <1>6, <2>1, <2>2 DEF ToCome
<1> HIDE DEF e
<1> QED
  BY <1>1, <1>2, <1>3, <1>4, <1>5, <1>6 DEF e

\* The filter knows the content of the entry in hand from now on.
LEMMA LastHandled ==
    ASSUME TypeOK, NEW e \in Frame, last' = [last EXCEPT ![e.bus] = e.content]
    PROVE  /\ last'[e.bus] = e.content
           /\ \A b \in Bus : b # e.bus => last'[b] = last[b] /\ e.bus = OtherBus(b)
           /\ \A b \in Bus : OtherBus(b) \in Bus
<1>1. \A b \in Bus : OtherBus(b) \in Bus /\ \A c \in Bus : c # b => c = OtherBus(b)
  BY DEF Bus, OtherBus
<1>2. last \in [Bus -> Content \cup {NoContent}]
  BY DEF TypeOK
<1> QED
  BY <1>1, <1>2, NumberOK

\* No parsed copy is behind the entry in hand; one of the same frame is known
\* to the filter, which drops the entry then.
LEMMA UncrowdedHandle ==
    ASSUME TypeOK, Uncrowded, HandleEntry
    PROVE  Uncrowded'
<1> DEFINE e == ring.slot[First]
<1>1. /\ First \in Places /\ Live(First) /\ e \in Frame /\ ToCome(e)
      /\ main'.at # "handle" /\ main'.at # "advance"
      /\ UNCHANGED <<bus, ring, push2, sent, missed>>
      /\ parsed' = IF IsDuplicate(e) THEN parsed
                   ELSE Append(parsed, [num |-> e.num, bus |-> e.bus])
      /\ last' = [last EXCEPT ![e.bus] = e.content]
      /\ \A p \in Places : Live(p)' <=> Live(p) /\ p # First
      /\ \A p, q \in Places : Live(p)' /\ Live(q)' => (Before(p, q)' <=> Before(p, q))
      /\ \A f \in Frame : Waits(f)' <=> Waits(f)
      /\ \A f \in Frame : ToCome(f)' => ToCome(f) /\ Precedes(missed.apart, e, f)
  BY HandledEntry
<1> HIDE DEF e
<1>2. /\ e.num \in DOMAIN sent /\ e.content = sent[e.num]
      /\ e.num \in Nat /\ e.bus \in Bus
  BY <1>1, NumberOK DEF Uncrowded, Genuine
<1>3. /\ last'[e.bus] = e.content
      /\ \A b \in Bus : b # e.bus => last'[b] = last[b] /\ e.bus = OtherBus(b)
      /\ \A b \in Bus : OtherBus(b) \in Bus
  BY <1>1, LastHandled
<1>4. Indices'
  BY <1>1 DEF Uncrowded, Indices, Dist
<1>5. Outside'
  BY <1>1 DEF Uncrowded, Outside, Rising, OnBus
<1>6. Genuine'
  BY <1>1 DEF Uncrowded, Genuine
<1>7. Ordered'
  BY <1>1 DEF Uncrowded, Ordered
\* What Filtered says of one parsed copy, before and after the step.
<1> DEFINE Behind(c) ==
        \A f \in Frame : ToCome(f) =>
            /\ Precedes(missed.apart, c, f)
            /\ missed.apart \/ (c.num = f.num => last[OtherBus(f.bus)] = f.content)
    BehindNext(c) ==
        \A f \in Frame : ToCome(f)' =>
            /\ Precedes(missed.apart, c, f)
            /\ missed.apart \/ (c.num = f.num => last'[OtherBus(f.bus)] = f.content)
<1>8. \A j \in DOMAIN parsed :
        Behind(parsed[j]) /\ parsed[j].num \in DOMAIN sent /\ parsed[j].num \in Nat
  BY ParsedOK DEF Uncrowded, Filtered
\* A copy of the frame of the entry in hand that comes after it is of the other bus.
<1>9. ASSUME NEW f \in Frame, ToCome(f)', f.num = e.num
      PROVE  last'[OtherBus(f.bus)] = f.content
  <2>1. f.bus # e.bus /\ f.bus \in Bus /\ f.content = e.content
    BY <1>1, <1>2, <1>9, NumberOK DEF Precedes, Uncrowded, Genuine
  <2> QED
    BY <1>3, <2>1
<1>10. ASSUME NEW c, c.num \in Nat, Behind(c)
       PROVE  BehindNext(c)
  <2> SUFFICES ASSUME NEW f \in Frame, ToCome(f)'
               PROVE  /\ Precedes(missed.apart, c, f)
                      /\ missed.apart \/ (c.num = f.num => last'[OtherBus(f.bus)] = f.content)
    OBVIOUS
  <2>1. ToCome(f) /\ Precedes(missed.apart, e, f) /\ f.num \in Nat
    BY <1>1, NumberOK
  <2>2. Precedes(missed.apart, c, f) /\ Precedes(missed.apart, c, e)
    BY <1>1, <1>10, <2>1
  <2>3. ~missed.apart /\ c.num = f.num => f.num = e.num
    BY <1>2, <1>10, <2>1, <2>2 DEF Precedes
  <2> QED
    BY <1>9, <2>2, <2>3
<1>11. BehindNext([num |-> e.num, bus |-> e.bus])
  BY <1>1, <1>9 DEF Precedes
<1> HIDE DEF BehindNext
<1>12. parsed \in Seq([num : 0 .. MaxFrames, bus : Bus])
  BY DEF TypeOK
<1> DEFINE r == [num |-> e.num, bus |-> e.bus]
<1>13. r.num = e.num /\ r.bus = e.bus
  OBVIOUS
<1>14. ~IsDuplicate(e) =>
         /\ DOMAIN parsed' = DOMAIN parsed \cup {Len(parsed) + 1}
         /\ \A j \in DOMAIN parsed : parsed'[j] = parsed[j] /\ j < Len(parsed) + 1 /\ j \in Nat
         /\ parsed'[Len(parsed) + 1] = r /\ Len(parsed) \in Nat
  BY <1>1, <1>12, AppendedOK
<1> HIDE DEF r
<1>15. Filtered'
  <2>1. \A j \in DOMAIN parsed' : BehindNext(parsed'[j]) /\ parsed'[j].num \in DOMAIN sent
    <3>1. CASE IsDuplicate(e)
      BY <1>1, <1>8, <1>10, <3>1
    <3>2. CASE ~IsDuplicate(e)
      BY <1>2, <1>8, <1>10, <1>11, <1>13, <1>14, <3>2 DEF r
    <3> QED
      BY <3>1, <3>2
  <2> QED
    BY <1>1, <2>1 DEF Filtered, BehindNext
<1>16. Sorted'
  <2>1. CASE IsDuplicate(e)
    BY <1>1, <2>1 DEF Uncrowded, Sorted
  <2>2. CASE ~IsDuplicate(e)
    <3>1. ASSUME NEW i \in DOMAIN parsed, ~missed.apart \/ parsed[i].bus = e.bus
          PROVE  parsed[i].num < e.num
      <4>1. Precedes(missed.apart, parsed[i], e) /\ parsed[i].num \in Nat
        BY <1>1, <1>8
      <4>2. ~missed.apart => parsed[i].num # e.num
        BY <1>1, <1>8, <2>2 DEF IsDuplicate
      <4> QED
        BY <1>2, <3>1, <4>1, <4>2 DEF Precedes
    <3>2. ASSUME NEW i \in DOMAIN parsed', NEW j \in DOMAIN parsed', i < j,
                 ~missed.apart \/ parsed'[i].bus = parsed'[j].bus
          PROVE  parsed'[i].num < parsed'[j].num
      <4>1. i \in DOMAIN parsed
        BY <1>14, <2>2, <3>2
      <4>2. CASE j \in DOMAIN parsed
        BY <1>14, <2>2, <3>2, <4>1, <4>2 DEF Uncrowded, Sorted
      <4>3. CASE j = Len(parsed) + 1
        BY <1>13, <1>14, <2>2, <3>1, <3>2, <4>1, <4>3
      <4> QED
        BY <1>14, <2>2, <4>2, <4>3
    <3> QED
      BY <1>1, <3>2 DEF Sorted
  <2> QED
    BY <2>1, <2>2
<1> QED
  BY <1>4, <1>5, <1>6, <1>7, <1>15, <1>16 DEF Uncrowded
-----------------------------------------------------------------------------
\* The inductive invariant: once the ring was crowded nothing is claimed.
OrderInv == TypeOK /\ (~missed.crowded => Uncrowded)

LEMMA OrderInit == Init => OrderInv
<1> SUFFICES ASSUME Init PROVE OrderInv
  OBVIOUS
<1>1. TypeOK
  BY TypeInit
<1>2. /\ main = Idle /\ push2 = Idle /\ sent = <<>> /\ parsed = <<>>
      /\ ring.head = 0 /\ ring.tail = 0
      /\ \A b \in Bus : bus[b] = <<>>
  BY DEF Init
<1>3. main.at = "idle" /\ First = 0
  BY <1>2 DEF Idle, First
<1>4. \A p \in Places : ~Live(p)
  <2> TAKE p \in Places
  <2>1. Dist(0, p) \in Nat /\ Dist(0, 0) = 0
    BY ZeroInRing, DistOK DEF Places
  <2> QED
    BY <1>2, <1>3, <2>1 DEF Live
<1>5. Indices
  <2>1. Dist(ring.tail, ring.head) = 0
    BY <1>2, ZeroInRing, DistOK
  <2> QED
    BY <1>2, <1>3, <2>1, RingAssumption DEF Indices
<1>6. \A f : ~ToCome(f)
  BY <1>2, <1>4 DEF ToCome, Waits, OnBus
<1>7. Outside /\ Genuine /\ Ordered
  BY <1>2, <1>4, <1>6 DEF Outside, Rising, OnBus, Genuine, Ordered
<1>8. DOMAIN parsed = {}
  BY <1>2
<1>9. Filtered /\ Sorted
  BY <1>8 DEF Filtered, Sorted
<1> QED
  BY <1>1, <1>5, <1>7, <1>9 DEF OrderInv, Uncrowded

LEMMA OrderNext ==
    ASSUME OrderInv, [Next]_vars
    PROVE  OrderInv'
<1>1. TypeOK /\ TypeOK'
  BY TypeNext DEF OrderInv
<1> SUFFICES ASSUME ~missed'.crowded PROVE Uncrowded'
  BY <1>1 DEF OrderInv
<1>2. missed'.crowded = missed.crowded \/ Push1 \/ BeginPush2
  BY <1>1 DEF Next, vars, Send, Lose, EndPush2, TakeEntry, AdvanceTail, HandleEntry, TypeOK
<1>3. Uncrowded
  <2>1. missed.crowded => missed'.crowded
    BY <1>1, <1>2 DEF Push1, BeginPush2, TypeOK
  <2> QED
    BY <2>1 DEF OrderInv
<1>4. CASE UNCHANGED vars
  <2>1. /\ UNCHANGED <<bus, ring, push2, main, last, sent, parsed, missed>>
    BY <1>4 DEF vars
  <2>2. First' = First
    BY <2>1 DEF First
  <2>3. /\ \A p \in Places : Live(p)' <=> Live(p)
        /\ \A c \in Bus : \A f : OnBus(c, f)' <=> OnBus(c, f)
        /\ \A f : Waits(f)' <=> Waits(f)
    BY <2>1, <2>2 DEF Live, Dist, OnBus, Waits
  <2>4. Genuine' /\ Ordered' /\ Filtered' /\ Sorted'
    BY <1>1, <1>3, <2>1, <2>2, <2>3, Kept
  <2>5. Indices' /\ Outside'
    BY <1>3, <2>1, <2>3 DEF Uncrowded, Indices, Outside, Rising, Dist
  <2> QED
    BY <2>4, <2>5 DEF Uncrowded
<1>5. ASSUME NEW c \in Content, Send(c) PROVE Uncrowded'
  BY <1>1, <1>3, <1>5, UncrowdedSend
<1>6. ASSUME NEW b \in Bus, Lose(b) PROVE Uncrowded'
  BY <1>1, <1>3, <1>6, UncrowdedLose
<1>7. CASE Push1
  BY <1>1, <1>3, <1>7, UncrowdedPush1
<1>8. CASE BeginPush2
  BY <1>1, <1>3, <1>8, UncrowdedBeginPush2
<1>9. CASE EndPush2
  BY <1>1, <1>3, <1>9, UncrowdedEndPush2
<1>10. CASE TakeEntry
  BY <1>1, <1>3, <1>10, UncrowdedTake
<1>11. CASE AdvanceTail
  BY <1>1, <1>3, <1>11, UncrowdedAdvance
<1>12. CASE HandleEntry
  BY <1>1, <1>3, <1>12, UncrowdedHandle
<1> QED
  BY <1>4, <1>5, <1>6, <1>7, <1>8, <1>9, <1>10, <1>11, <1>12 DEF Next

\* While the ring never ran full, what is parsed of one bus is in the order it
\* was sent in and never comes twice; while moreover neither bus overtook the
\* other by a whole frame, no frame at all is parsed twice or behind a later
\* one: whatever copies are lost and whichever pushes meet, for a ring of any
\* size, any contents and any lag (can_rx_push, CanProcess).
THEOREM ParsedOnceInOrderAlways == Spec => []ParsedOnceInOrder
<1>1. OrderInv /\ [Next]_vars => OrderInv'
  BY OrderNext
<1>2. OrderInv => ParsedOnceInOrder
  BY DEF OrderInv, Uncrowded, Sorted, ParsedOnceInOrder
<1> QED
  BY <1>1, <1>2, OrderInit, PTL DEF Spec
-----------------------------------------------------------------------------
(* No change is missed.  When no copy was lost, no pushes met, the ring    *)
(* was never crowded and neither bus overtook the other, the copies of     *)
(* each bus are handled one after the other: m[b] is the number of the     *)
(* last one, and all those after it are still to come.                     *)

Whole == missed = [lost |-> 0, met |-> FALSE, crowded |-> FALSE, apart |-> FALSE]

\* The filter knows the last content of each bus.
Known(m) ==
    \A b \in Bus :
        /\ m[b] <= Len(sent)
        /\ last[b] = IF m[b] = 0 THEN NoContent ELSE sent[m[b]]

\* Every copy after the last one handled is still to come.
Coming(m) ==
    \A b \in Bus : \A n \in m[b] + 1 .. Len(sent) :
        \E f \in Frame : ToCome(f) /\ f.num = n /\ f.bus = b

\* What is still to come is later than what was handled.
Later(m) ==
    \A f \in Frame : ToCome(f) =>
        /\ m[f.bus] < f.num
        /\ \A b \in Bus : m[b] <= f.num

Changed(n) == n = 1 \/ sent[n] # sent[n - 1]

HasBeenParsed(n) == \E i \in DOMAIN parsed : parsed[i].num = n

\* Every change up to a copy that was handled has been parsed.
Done(m) == \A n \in DOMAIN sent : \A b \in Bus : Changed(n) /\ n <= m[b] => HasBeenParsed(n)

Progress(m) == Known(m) /\ Coming(m) /\ Later(m) /\ Done(m)

\* A step that leaves what is to come as it is.
LEMMA ProgressKept ==
    ASSUME NEW m \in [Bus -> 0 .. MaxFrames], Progress(m),
           \A f \in Frame : ToCome(f)' <=> ToCome(f),
           UNCHANGED <<last, sent, parsed>>
    PROVE  Progress(m)'
<1>1. Known(m)' /\ Done(m)'
  BY DEF Progress, Known, Done, Changed, HasBeenParsed
<1>2. Coming(m)' /\ Later(m)'
  BY DEF Progress, Coming, Later
<1> QED
  BY <1>1, <1>2 DEF Progress

LEMMA ProgressSend ==
    ASSUME TypeOK, NEW c \in Content, Send(c),
           NEW m \in [Bus -> 0 .. MaxFrames], Progress(m)
    PROVE  Progress(m)'
<1> DEFINE new(b) == [num |-> Len(sent) + 1, content |-> c, bus |-> b]
<1>1. UNCHANGED <<ring, push2, main, last, parsed, missed>>
  BY DEF Send
<1>2. /\ \A b \in Bus : new(b) \in Frame
      /\ \A f : ToCome(f)' <=> ToCome(f) \/ \E b \in Bus : f = new(b)
  BY SentToCome
<1>3. \A b \in Bus : new(b).num = Len(sent) + 1 /\ new(b).bus = b
  OBVIOUS
<1> HIDE DEF new
<1>4. /\ Len(sent') = Len(sent) + 1 /\ Len(sent) \in Nat
      /\ DOMAIN sent = 1 .. Len(sent) /\ DOMAIN sent' = 1 .. Len(sent) + 1
      /\ \A n \in DOMAIN sent : sent'[n] = sent[n]
  BY DEF TypeOK, Send
<1>5. \A b \in Bus : m[b] \in Nat /\ m[b] <= Len(sent)
  BY BusAssumption DEF Progress, Known
<1>6. Known(m)'
  <2> SUFFICES ASSUME NEW b \in Bus
               PROVE  m[b] <= Len(sent') /\ last[b] = IF m[b] = 0 THEN NoContent ELSE sent'[m[b]]
    BY <1>1 DEF Known
  <2>1. last[b] = IF m[b] = 0 THEN NoContent ELSE sent[m[b]]
    BY DEF Progress, Known
  <2>2. m[b] # 0 => m[b] \in DOMAIN sent
    BY <1>4, <1>5
  <2>3. m[b] <= Len(sent')
    BY <1>4, <1>5
  <2> QED
    BY <1>4, <2>1, <2>2, <2>3
<1>7. Coming(m)'
  <2> SUFFICES ASSUME NEW b \in Bus, NEW n \in m[b] + 1 .. Len(sent')
               PROVE  \E f \in Frame : ToCome(f)' /\ f.num = n /\ f.bus = b
    BY DEF Coming
  <2>1. CASE n = Len(sent')
    BY <1>2, <1>3, <1>4, <2>1
  <2>2. CASE n # Len(sent')
    <3>1. n \in m[b] + 1 .. Len(sent)
      BY <1>4, <1>5, <2>2
    <3> QED
      BY <1>2, <3>1 DEF Progress, Coming
  <2> QED
    BY <2>1, <2>2
<1>8. Later(m)'
  <2> SUFFICES ASSUME NEW f \in Frame, ToCome(f)'
               PROVE  m[f.bus] < f.num /\ \A b \in Bus : m[b] <= f.num
    BY DEF Later
  <2>1. CASE ToCome(f)
    BY <2>1 DEF Progress, Later
  <2>2. CASE \E b \in Bus : f = new(b)
    BY <1>3, <1>4, <1>5, <2>2
  <2> QED
    BY <1>2, <2>1, <2>2
<1>9. Done(m)'
  <2> SUFFICES ASSUME NEW n \in DOMAIN sent', NEW b \in Bus, Changed(n)', n <= m[b]
               PROVE  HasBeenParsed(n)
    BY <1>1 DEF Done, HasBeenParsed
  <2>1. n \in DOMAIN sent /\ (n # 1 => n - 1 \in DOMAIN sent)
    BY <1>4, <1>5
  <2>2. Changed(n)
    BY <1>4, <2>1 DEF Changed
  <2> QED
    BY <2>1, <2>2 DEF Progress, Done
<1> QED
  BY <1>6, <1>7, <1>8, <1>9 DEF Progress

\* The entry in hand is the next copy of its bus, and the other bus is not
\* further behind: a changed content is in neither entry of the filter.
LEMMA ProgressHandle ==
    ASSUME TypeOK, Uncrowded, ~missed.apart, HandleEntry,
           NEW m \in [Bus -> 0 .. MaxFrames], Progress(m)
    PROVE  \E k \in [Bus -> 0 .. MaxFrames] : Progress(k)'
<1> DEFINE e == ring.slot[First]
<1>1. /\ e \in Frame /\ ToCome(e)
      /\ UNCHANGED <<bus, ring, push2, sent, missed>>
      /\ parsed' = IF IsDuplicate(e) THEN parsed
                   ELSE Append(parsed, [num |-> e.num, bus |-> e.bus])
      /\ last' = [last EXCEPT ![e.bus] = e.content]
      /\ \A f \in Frame : ToCome(f)' => ToCome(f) /\ Precedes(missed.apart, e, f)
      /\ \A f \in Frame : ToCome(f) => ToCome(f)' \/ f = e
  BY HandledEntry
<1> HIDE DEF e
<1>2. /\ e.num \in DOMAIN sent /\ e.content = sent[e.num]
      /\ e.num \in 0 .. MaxFrames /\ e.bus \in Bus
  BY <1>1, FrameFields DEF Uncrowded, Genuine
<1>3. \A f \in Frame : ToCome(f)' =>
        f.num \in Nat /\ e.num <= f.num /\ (e.bus = f.bus => e.num < f.num)
  BY <1>1, NumberOK DEF Precedes
<1>4. /\ DOMAIN sent = 1 .. Len(sent) /\ Len(sent) \in Nat
      /\ \A n \in DOMAIN sent : sent[n] \in Content
  BY SentOK
<1>5. \A b \in Bus : m[b] \in Nat /\ m[b] <= Len(sent) /\ m[b] <= e.num
  BY <1>1, BusAssumption DEF Progress, Known, Later
<1>6. m[e.bus] < e.num
  BY <1>1 DEF Progress, Later
<1>7. PICK k \in [Bus -> 0 .. MaxFrames] :
        k[e.bus] = e.num /\ \A b \in Bus : b # e.bus => k[b] = m[b]
  <2>1. [m EXCEPT ![e.bus] = e.num] \in [Bus -> 0 .. MaxFrames]
    BY <1>2
  <2> QED
    BY <1>2, <2>1
<1>8. /\ last'[e.bus] = e.content
      /\ \A b \in Bus : b # e.bus => last'[b] = last[b]
      /\ OtherBus(e.bus) \in Bus
  BY <1>1, <1>2, LastHandled
\* Neither bus is more than one frame behind the entry in hand.
<1>9. \A b \in Bus : m[b] \in {e.num - 1, e.num}
  <2>0. e.num \in Nat /\ \A b \in Bus : m[b] \in Nat /\ m[b] <= e.num
    BY <1>2, <1>5, BusAssumption
  <2> SUFFICES ASSUME NEW b \in Bus, m[b] + 1 < e.num PROVE FALSE
    BY <2>0
  <2> DEFINE n == e.num - 1
  <2>1. n \in m[b] + 1 .. Len(sent)
    BY <1>2, <1>4, <1>5
  <2>2. PICK f \in Frame : ToCome(f) /\ f.num = n
    BY <2>1 DEF Progress, Coming
  <2>3. f # e /\ n < e.num
    BY <1>2, <1>4, <2>2
  <2>4. e.num <= n
    BY <1>1, <1>3, <2>2, <2>3
  <2> QED
    BY <1>2, <1>4, <2>4
<1>10. m[e.bus] = e.num - 1
  BY <1>2, <1>4, <1>5, <1>6, <1>9
<1>11. Known(k)'
  <2> SUFFICES ASSUME NEW b \in Bus
               PROVE  k[b] <= Len(sent) /\ last'[b] = IF k[b] = 0 THEN NoContent ELSE sent[k[b]]
    BY <1>1 DEF Known
  <2>1. CASE b = e.bus
    <3>1. k[b] = e.num /\ e.num # 0 /\ e.num <= Len(sent)
      BY <1>2, <1>4, <1>7, <2>1
    <3> QED
      BY <1>2, <1>8, <2>1, <3>1
  <2>2. CASE b # e.bus
    BY <1>7, <1>8, <2>2 DEF Progress, Known
  <2> QED
    BY <2>1, <2>2
<1>12. Coming(k)'
  <2> SUFFICES ASSUME NEW b \in Bus, NEW n \in k[b] + 1 .. Len(sent)
               PROVE  \E f \in Frame : ToCome(f)' /\ f.num = n /\ f.bus = b
    BY <1>1 DEF Coming
  <2>1. n \in m[b] + 1 .. Len(sent) /\ (b = e.bus => n # e.num)
    <3>1. CASE b = e.bus
      BY <1>2, <1>4, <1>5, <1>7, <3>1
    <3>2. CASE b # e.bus
      BY <1>7, <3>2
    <3> QED
      BY <3>1, <3>2
  <2>2. PICK f \in Frame : ToCome(f) /\ f.num = n /\ f.bus = b
    BY <2>1 DEF Progress, Coming
  <2> QED
    BY <1>1, <2>1, <2>2
<1>13. Later(k)'
  <2> SUFFICES ASSUME NEW f \in Frame, ToCome(f)'
               PROVE  k[f.bus] < f.num /\ \A b \in Bus : k[b] <= f.num
    BY DEF Later
  <2>1. /\ m[f.bus] < f.num /\ \A b \in Bus : m[b] <= f.num
    BY <1>1 DEF Progress, Later
  <2>2. f.bus \in Bus
    BY NumberOK
  <2> QED
    BY <1>3, <1>7, <2>1, <2>2
<1>14. \A n \in DOMAIN sent :
         HasBeenParsed(n) \/ (~IsDuplicate(e) /\ n = e.num) => HasBeenParsed(n)'
  <2>1. parsed \in Seq([num : 0 .. MaxFrames, bus : Bus])
    BY DEF TypeOK
  <2>2. CASE IsDuplicate(e)
    BY <1>1, <2>2 DEF HasBeenParsed
  <2>3. CASE ~IsDuplicate(e)
    <3> DEFINE r == [num |-> e.num, bus |-> e.bus]
    <3>1. parsed' = Append(parsed, r)
      BY <1>1, <2>3
    <3>2. /\ DOMAIN parsed' = DOMAIN parsed \cup {Len(parsed) + 1}
          /\ \A j \in DOMAIN parsed : parsed'[j] = parsed[j]
          /\ parsed'[Len(parsed) + 1] = r
      BY <2>1, <3>1, AppendedOK
    <3>3. r.num = e.num
      OBVIOUS
    <3> HIDE DEF r
    <3> QED
      BY <3>2, <3>3 DEF HasBeenParsed
  <2> QED
    BY <2>2, <2>3
\* A changed content that neither bus has brought yet is no duplicate.
<1>15. ASSUME Changed(e.num), \A b \in Bus : m[b] # e.num
       PROVE  ~IsDuplicate(e)
  <2>1. \A b \in Bus : m[b] = e.num - 1
    BY <1>9, <1>15
  <2>2. \A b \in Bus : last[b] = IF m[b] = 0 THEN NoContent ELSE sent[m[b]]
    BY DEF Progress, Known
  <2>3. \A b \in Bus : last[b] # e.content
    <3>1. CASE e.num = 1
      <4>1. \A b \in Bus : last[b] = NoContent
        BY <2>1, <2>2, <3>1
      <4> QED
        BY <1>2, <1>4, <4>1, ContentAssumption
    <3>2. CASE e.num # 1
      <4>1. \A b \in Bus : last[b] = sent[e.num - 1]
        <5>1. e.num - 1 # 0
          BY <1>2, <1>4, <3>2
        <5> QED
          BY <2>1, <2>2, <5>1
      <4> QED
        BY <1>2, <1>15, <3>2, <4>1 DEF Changed
    <3> QED
      BY <3>1, <3>2
  <2> QED
    BY <1>2, <1>8, <2>3 DEF IsDuplicate
<1>16. Done(k)'
  <2> SUFFICES ASSUME NEW n \in DOMAIN sent, NEW b \in Bus, Changed(n), n <= k[b]
               PROVE  HasBeenParsed(n)'
    BY <1>1 DEF Done, Changed
  <2>1. CASE \E c \in Bus : n <= m[c]
    BY <1>14, <2>1 DEF Progress, Done
  <2>2. CASE \A c \in Bus : ~(n <= m[c])
    <3>1. b = e.bus /\ n <= e.num
      BY <1>7, <2>2
    <3>2. n = e.num
      BY <1>2, <1>4, <1>5, <1>10, <2>2, <3>1
    <3>3. \A c \in Bus : m[c] # e.num
      BY <1>2, <1>4, <1>5, <2>2, <3>2
    <3> QED
      BY <1>14, <1>15, <3>2, <3>3
  <2> QED
    BY <2>1, <2>2
<1> QED
  BY <1>7, <1>11, <1>12, <1>13, <1>16 DEF Progress

\* The inductive invariant: with anything missed nothing is claimed.
ProgressInv ==
    OrderInv /\ (Whole => \E m \in [Bus -> 0 .. MaxFrames] : Progress(m))

LEMMA ProgressInit == Init => ProgressInv
<1> SUFFICES ASSUME Init PROVE ProgressInv
  OBVIOUS
<1>1. OrderInv /\ TypeOK
  BY OrderInit DEF OrderInv
<1>2. PICK m \in [Bus -> 0 .. MaxFrames] : \A b \in Bus : m[b] = 0
  <2>1. [b \in Bus |-> 0] \in [Bus -> 0 .. MaxFrames]
    BY BusAssumption
  <2> QED
    BY <2>1
<1>3. /\ sent = <<>> /\ ring.head = 0 /\ ring.tail = 0 /\ push2 = Idle /\ main = Idle
      /\ \A b \in Bus : bus[b] = <<>> /\ last[b] = NoContent
      /\ ~missed.crowded
  BY DEF Init
<1>4. Len(sent) = 0 /\ DOMAIN sent = {}
  BY <1>3
<1>5. \A f \in Frame : ~ToCome(f)
  <2>1. Genuine
    BY <1>1, <1>3 DEF OrderInv, Uncrowded
  <2> QED
    BY <1>4, <2>1 DEF Genuine
<1>6. Known(m)
  BY <1>2, <1>3, <1>4 DEF Known
<1>7. Coming(m)
  BY <1>2, <1>4 DEF Coming
<1>8. Later(m) /\ Done(m)
  BY <1>4, <1>5 DEF Later, Done
<1>9. \E k \in [Bus -> 0 .. MaxFrames] : Progress(k)
  BY <1>6, <1>7, <1>8 DEF Progress
<1> QED
  BY <1>1, <1>9 DEF ProgressInv

LEMMA ProgressNext ==
    ASSUME ProgressInv, [Next]_vars
    PROVE  ProgressInv'
<1>1. OrderInv /\ OrderInv' /\ TypeOK
  BY OrderNext DEF ProgressInv, OrderInv
<1> SUFFICES ASSUME Whole' PROVE \E m \in [Bus -> 0 .. MaxFrames] : Progress(m)'
  BY <1>1 DEF ProgressInv
<1>2. missed'.lost = 0 /\ ~missed'.met /\ ~missed'.crowded /\ ~missed'.apart
  BY DEF Whole
\* What was missed stays missed.
<1>3. /\ Whole /\ ~missed.met /\ ~missed.crowded /\ ~missed.apart
      /\ \A b \in Bus : ~Lose(b)
  <2>1. /\ missed \in [lost : 0 .. MaxLost, met : BOOLEAN, crowded : BOOLEAN, apart : BOOLEAN]
        /\ missed.lost \in Nat
    BY <1>1, BusAssumption DEF TypeOK
  <2>2. ASSUME NEW b \in Bus, Lose(b) PROVE FALSE
    <3>1. missed'.lost = missed.lost + 1
      BY <2>1, <2>2 DEF Lose
    <3> QED
      BY <1>2, <2>1, <3>1
  <2>3. missed' = missed \/ Push1 \/ BeginPush2
    BY <2>2 DEF Next, vars, Send, EndPush2, TakeEntry, AdvanceTail, HandleEntry
  <2>4. missed.lost = 0 /\ ~missed.met /\ ~missed.crowded /\ ~missed.apart
    <3>1. CASE missed' = missed
      BY <1>2, <3>1
    <3>2. CASE Push1
      BY <1>2, <2>1, <3>2 DEF Push1
    <3>3. CASE BeginPush2
      BY <1>2, <2>1, <3>3 DEF BeginPush2
    <3> QED
      BY <2>3, <3>1, <3>2, <3>3
  <2>5. Whole
    BY <2>1, <2>4 DEF Whole
  <2> QED
    BY <2>2, <2>4, <2>5
<1>4. Uncrowded
  BY <1>1, <1>3 DEF OrderInv
<1>5. PICK m \in [Bus -> 0 .. MaxFrames] : Progress(m)
  BY <1>3 DEF ProgressInv
<1>6. CASE UNCHANGED vars
  <2>1. UNCHANGED <<bus, ring, push2, main, last, sent, parsed>>
    BY <1>6 DEF vars
  <2>2. \A f \in Frame : ToCome(f)' <=> ToCome(f)
    BY <2>1 DEF ToCome, Waits, OnBus, Live, Dist, First
  <2> QED
    BY <1>5, <2>1, <2>2, ProgressKept
<1>7. ASSUME NEW c \in Content, Send(c) PROVE Progress(m)'
  BY <1>1, <1>5, <1>7, ProgressSend
<1>8. CASE Push1
  <2>1. UNCHANGED <<push2, main, last, sent, parsed>>
    BY <1>8 DEF Push1
  <2>2. \A f \in Frame : ToCome(f)' <=> ToCome(f)
    BY <1>1, <1>2, <1>4, <1>8, <2>1, PushedFirst, Appended
  <2> QED
    BY <1>5, <2>1, <2>2, ProgressKept
<1>9. CASE BeginPush2
  <2>1. UNCHANGED <<main, last, sent, parsed>>
    BY <1>9 DEF BeginPush2
  <2> QED
    BY <1>1, <1>2, <1>4, <1>5, <1>9, <2>1, UncrowdedBeginPush2, ProgressKept
<1>10. CASE EndPush2
  <2>1. /\ push2.next = NextIndex(ring.head) /\ Dist(ring.tail, ring.head) <= RingSize - 3
    BY <1>3, <1>4, <1>10 DEF EndPush2, Uncrowded, Indices
  <2>2. \A f \in Frame : ToCome(f)' <=> ToCome(f)
    BY <1>1, <1>4, <1>10, <2>1, PushedSecond, Appended
  <2> QED
    BY <1>1, <1>4, <1>5, <1>10, <2>2, PushedSecond, ProgressKept
<1>11. CASE TakeEntry
  <2>1. UNCHANGED <<last, sent, parsed>>
    BY <1>11 DEF TakeEntry
  <2> QED
    BY <1>1, <1>4, <1>5, <1>11, <2>1, UncrowdedTake, ProgressKept
<1>12. CASE AdvanceTail
  <2>1. UNCHANGED <<last, sent, parsed>>
    BY <1>12 DEF AdvanceTail
  <2> QED
    BY <1>1, <1>4, <1>5, <1>12, <2>1, UncrowdedAdvance, ProgressKept
<1>13. CASE HandleEntry
  BY <1>1, <1>3, <1>4, <1>5, <1>13, ProgressHandle
<1>14. CASE Next
  BY <1>3, <1>7, <1>8, <1>9, <1>10, <1>11, <1>12, <1>13, <1>14 DEF Next
<1> QED
  BY <1>6, <1>14

\* At rest nothing is still to come.
LEMMA RestingOK ==
    ASSUME ProgressInv
    PROVE  ChangesAreParsed
<1> SUFFICES ASSUME Resting, Whole, NEW n \in DOMAIN sent, Changed(n)
             PROVE  HasBeenParsed(n)
  BY DEF ChangesAreParsed, Whole, Changed, HasBeenParsed
<1>1. TypeOK /\ Uncrowded
  BY DEF ProgressInv, OrderInv, Whole
<1>2. PICK m \in [Bus -> 0 .. MaxFrames] : Progress(m)
  BY DEF ProgressInv
<1>3. \A p \in Places : ~Live(p)
  <2> TAKE p \in Places
  <2>1. First = ring.head
    BY DEF Resting, First, Idle
  <2>2. Dist(First, ring.head) = 0 /\ Dist(First, p) \in Nat
    BY <1>1, <2>1, PlacesOK, DistOK DEF Places
  <2> QED
    BY <2>2 DEF Live
<1>4. \A f : ~ToCome(f)
  <2>1. push2 = Idle /\ \A b \in Bus : bus[b] = <<>> /\ DOMAIN <<>> = {}
    BY DEF Resting
  <2> QED
    BY <1>3, <2>1 DEF ToCome, Waits, OnBus
<1>5. DOMAIN sent = 1 .. Len(sent) /\ Len(sent) \in Nat /\ 1 \in Bus
  BY <1>1, SentOK DEF Bus
<1>6. m[1] \in Nat
  BY <1>5, BusAssumption
<1>7. n <= m[1]
  <2>1. ~(n \in m[1] + 1 .. Len(sent))
    BY <1>2, <1>4, <1>5 DEF Progress, Coming
  <2> QED
    BY <1>5, <1>6, <2>1
<1> QED
  BY <1>2, <1>5, <1>7 DEF Progress, Done

\* When no copy was lost, no push of one interrupt met a push of the other,
\* the ring was never crowded and neither bus overtook the other, every frame
\* that differs from the one before it has been parsed once the ring is empty:
\* for a ring of any size, any contents and any lag (can_rx_push, CanProcess).
THEOREM ChangesAreParsedAlways == Spec => []ChangesAreParsed
<1>1. ProgressInv /\ [Next]_vars => ProgressInv'
  BY ProgressNext
<1>2. ProgressInv => ChangesAreParsed
  BY RestingOK
<1> QED
  BY <1>1, <1>2, ProgressInit, PTL DEF Spec
=============================================================================
