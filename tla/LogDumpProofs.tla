---------------------------- MODULE LogDumpProofs ----------------------------
(***************************************************************************)
(* What holds of the dump of the event log for tiers, packets and a ring   *)
(* of any size, any number of requests, and a log that moves on at will.   *)
(***************************************************************************)
EXTENDS LogDump, FiniteSetTheorems, SequenceTheorems, TLAPS

Session ==
    [active : BOOLEAN, stream : Nat, pkt_num : Nat, mode : Tier \cup {"both"},
     cur_tier : Tier, first_packet : BOOLEAN, next_logical : Nat,
     end_logical : [Tier -> 0 .. Capacity]]

Record == [label : Nat, record : Nat]
Flag == {"FIRST", "LAST", "TIER_CHANGE", "ERROR"}

Transmitter ==
    [queue : Seq(Frame), line : {"idle", "log", "bridge"}, sending : Frame \cup {None},
     buffer : Frame \cup {None}, log_busy : BOOLEAN, bridge : 0 .. 1, bridge_busy : BOOLEAN]

Loop ==
    [at : {"idle", "look", "copy", "crossed", "send", "mark", "pump", "read", "store"},
     next : {"idle", "pump"}, budget : 0 .. MainBudget, tier_end : 0 .. Capacity,
     entries : Seq(Record), record : Nat, frame : Frame \cup {None}]

Panel == [esp : BOOLEAN, linked : BOOLEAN, next_stream : Nat]

Host == [stream : Nat, heard : Seq(Frame), quiet : BOOLEAN, mixed : BOOLEAN, failed : BOOLEAN]

Counts == [requests : Nat, posts : Nat, faults : Nat]

\* The type invariant, part by part.
LEMMA TypeParts ==
    TypeOK <=> /\ log \in [Tier -> Nat] /\ session \in Session
               /\ tx \in Transmitter /\ Len(tx.queue) < RingSize
               /\ loop \in Loop /\ irq \in 0 .. PumpBudget
               /\ panel \in Panel /\ host \in Host /\ spent \in Counts
               /\ InHand
BY DEF TypeOK, Session, Transmitter, Loop, Panel, Host, Counts, Record

LEMMA TypePartsNext ==
    ASSUME log' \in [Tier -> Nat], session' \in Session,
           tx' \in Transmitter, Len(tx'.queue) < RingSize,
           loop' \in Loop, irq' \in 0 .. PumpBudget,
           panel' \in Panel, host' \in Host, spent' \in Counts, InHand'
    PROVE  TypeOK'
BY DEF TypeOK, Session, Transmitter, Loop, Panel, Host, Counts, Record

LEMMA Sizes ==
    /\ Capacity \in Nat /\ Capacity > 0 /\ PerPacket \in Nat /\ PerPacket > 0
    /\ MainBudget \in Nat /\ MainBudget > 0 /\ PumpBudget \in Nat /\ PumpBudget > 0
    /\ RingSize \in Nat /\ RingSize > PumpBudget + 1
BY SizesAssumption
-----------------------------------------------------------------------------
(* The log and the session. *)

LEMMA TotalOK ==
    ASSUME log \in [Tier -> Nat], NEW t \in Tier
    PROVE  TotalRecords(t) \in 0 .. Capacity /\ TotalRecords(t) <= log[t] /\ log[t] \in Nat
BY Sizes DEF TotalRecords, Lesser

LEMMA ReadLogicalOK ==
    ASSUME log \in [Tier -> Nat], NEW t \in Tier, NEW l \in Nat
    PROVE  ReadLogical(t, l) \in Nat
<1>1. log[t] - TotalRecords(t) + l + 1 \in Nat
  BY TotalOK
<1> QED
  BY <1>1 DEF ReadLogical, EmptyRecord

LEMMA NoSessionOK == NoSession \in Session
BY Sizes DEF NoSession, Session, Tier

LEMMA ResponseOK ==
    ASSUME NEW status \in {"OK", "BUSY", "OUT_OF_RANGE"}, NEW stream \in Nat, NEW total \in Nat
    PROVE  Response(status, stream, total) \in Frame
BY DEF Response, Frame

LEMMA StartDumpOK ==
    ASSUME TypeOK, NEW mode \in Tier \cup {"both"}, NEW start \in Nat
    PROVE  /\ StartDump(session, mode, start).session \in Session
           /\ StartDump(session, mode, start).rsp \in Frame
<1> DEFINE crit == TotalRecords("critical")
           gen == TotalRecords("general")
           in_critical == mode = "critical" \/ (mode = "both" /\ start < crit)
           records == CASE mode = "critical" -> crit
                        [] mode = "general" -> gen
                        [] mode = "both" -> crit + gen
           fresh == [NoSession EXCEPT !.stream = panel.next_stream, !.mode = mode,
                                      !.first_packet = TRUE]
           first == IF mode = "both" /\ ~in_critical THEN start - crit ELSE start
           ends == [t \in Tier |-> IF mode \in {t, "both"} THEN TotalRecords(t) ELSE 0]
           opened == [fresh EXCEPT
                        !.active = TRUE,
                        !.cur_tier = IF in_critical THEN "critical" ELSE "general",
                        !.next_logical = first,
                        !.end_logical = ends]
<1>1. /\ session \in Session /\ panel.next_stream \in Nat /\ log \in [Tier -> Nat]
      /\ session.active \in BOOLEAN
  BY TypeParts DEF Session, Panel
<1>2. crit \in 0 .. Capacity /\ gen \in 0 .. Capacity
  BY <1>1, TotalOK DEF Tier
<1>3. records \in Nat
  BY <1>2, Sizes DEF Tier
<1>4. fresh \in Session
  BY <1>1, NoSessionOK DEF Session
<1>5. first \in Nat
  BY <1>2
<1>6. ends \in [Tier -> 0 .. Capacity]
  BY <1>1, TotalOK, Sizes
<1>7. opened \in Session
  <2>1. (IF in_critical THEN "critical" ELSE "general") \in Tier
    BY DEF Tier
  <2> HIDE DEF fresh, first, ends, in_critical
  <2> QED
    BY <1>4, <1>5, <1>6, <2>1 DEF Session
<1> DEFINE d == StartDump(session, mode, start)
<1>8. d = CASE session.active -> [session |-> session, rsp |-> Response("BUSY", 0, 0)]
            [] ~session.active /\ start > records ->
                  [session |-> fresh, rsp |-> Response("OUT_OF_RANGE", 0, 0)]
            [] ~session.active /\ start = records ->
                  [session |-> NoSession, rsp |-> Response("OK", panel.next_stream, 0)]
            [] ~session.active /\ start < records ->
                  [session |-> opened, rsp |-> Response("OK", panel.next_stream, records - start)]
  BY DEF StartDump
<1> HIDE DEF d, fresh, opened, records, crit, gen, in_critical, first, ends
<1>9. /\ Response("BUSY", 0, 0) \in Frame
      /\ Response("OUT_OF_RANGE", 0, 0) \in Frame
      /\ Response("OK", panel.next_stream, 0) \in Frame
  BY <1>1, ResponseOK
<1>10. ASSUME start < records
       PROVE  Response("OK", panel.next_stream, records - start) \in Frame
  <2>1. records - start \in Nat
    BY <1>3, <1>10
  <2> QED
    BY <1>1, <2>1, ResponseOK
<1>11. d.session \in Session /\ d.rsp \in Frame
  <2>1. CASE session.active
    BY <1>1, <1>8, <1>9, <2>1
  <2>2. CASE ~session.active /\ start > records
    BY <1>3, <1>4, <1>8, <1>9, <2>2
  <2>3. CASE ~session.active /\ start = records
    BY <1>3, <1>8, <1>9, <2>3, NoSessionOK
  <2>4. CASE ~session.active /\ start < records
    BY <1>3, <1>7, <1>8, <1>10, <2>4
  <2> QED
    BY <1>3, <2>1, <2>2, <2>3, <2>4
<1> QED
  BY <1>11 DEF d

LEMMA BeginPacketOK ==
    ASSUME NEW s \in Session
    PROVE  /\ BeginPacket(s) \in Session
           /\ BeginPacket(s).active /\ s.active =>
                  BeginPacket(s).next_logical < BeginPacket(s).end_logical[BeginPacket(s).cur_tier]
<1>1. CASE s.next_logical < s.end_logical[s.cur_tier]
  BY <1>1 DEF BeginPacket
<1>2. CASE ~(s.next_logical < s.end_logical[s.cur_tier]) /\ GeneralFollows(s)
  <2>1. BeginPacket(s) = [s EXCEPT !.cur_tier = "general", !.next_logical = 0]
    BY <1>2 DEF BeginPacket
  <2>2. s.end_logical["general"] > 0
    BY <1>2 DEF GeneralFollows
  <2>3. /\ BeginPacket(s) \in Session
        /\ BeginPacket(s).cur_tier = "general" /\ BeginPacket(s).next_logical = 0
        /\ BeginPacket(s).end_logical = s.end_logical
    <3> DEFINE t == [s EXCEPT !.cur_tier = "general", !.next_logical = 0]
    <3>1. t \in Session
      BY DEF Session, Tier
    <3>2. t.cur_tier = "general" /\ t.next_logical = 0 /\ t.end_logical = s.end_logical
      BY DEF Session
    <3> QED
      BY <2>1, <3>1, <3>2
  <2> QED
    BY <2>2, <2>3
<1>3. CASE ~(s.next_logical < s.end_logical[s.cur_tier]) /\ ~GeneralFollows(s)
  <2>1. BeginPacket(s) = [s EXCEPT !.active = FALSE]
    BY <1>3 DEF BeginPacket
  <2> QED
    BY <2>1 DEF Session
<1> QED
  BY <1>1, <1>2, <1>3

LEMMA PacketFlagsOK ==
    ASSUME NEW s, NEW tier_end, NEW error
    PROVE  PacketFlags(s, tier_end, error) \in SUBSET Flag
BY DEF PacketFlags, Flag

\* A packet is at most one frame.
LEMMA EndPacketOK ==
    ASSUME NEW s \in Session, NEW tier_end, NEW error, NEW entries \in Seq(Record)
    PROVE  /\ EndPacket(s, tier_end, error, entries).session \in Session
           /\ \/ EndPacket(s, tier_end, error, entries).frames = <<>>
              \/ \E f \in Frame : EndPacket(s, tier_end, error, entries).frames = <<f>>
<1> DEFINE flags == PacketFlags(s, tier_end, error)
           p == EndPacket(s, tier_end, error, entries)
           f == [type |-> "data", stream |-> s.stream, pkt_num |-> s.pkt_num,
                 tier |-> s.cur_tier, flags |-> flags, entries |-> entries]
           t == [s EXCEPT !.first_packet = FALSE, !.pkt_num = @ + 1,
                          !.active = @ /\ "LAST" \notin flags]
<1>1. flags \in SUBSET Flag
  BY PacketFlagsOK
<1>2. CASE entries = <<>>
  <2>1. p.frames = <<>> /\ p.session = [s EXCEPT !.active = FALSE]
    BY <1>2 DEF EndPacket
  <2> QED
    BY <2>1 DEF Session
<1>3. CASE entries # <<>>
  <2>1. p.frames = <<f>> /\ p.session = t
    BY <1>3 DEF EndPacket
  <2>2. f \in Frame
    BY <1>1 DEF Frame, Session, Flag, Record
  <2>3. (s.active /\ "LAST" \notin flags) \in BOOLEAN /\ s.pkt_num + 1 \in Nat
    BY DEF Session
  <2>4. t \in Session
    <3> HIDE DEF flags
    <3> QED
      BY <2>3 DEF Session
  <2> HIDE DEF p, f, t
  <2>5. p.session \in Session /\ \E g \in Frame : p.frames = <<g>>
    BY <2>1, <2>2, <2>4
  <2> QED
    BY <2>5 DEF p
<1> QED
  BY <1>2, <1>3

\* The records a packet of the interrupt would hold.
LEMMA WantedOK ==
    ASSUME NEW s \in Session
    PROVE  /\ Wanted(s) \subseteq Nat
           /\ BeginPacket(s).active /\ s.active =>
                \E n \in Nat \ {0} :
                    /\ Wanted(s) = BeginPacket(s).next_logical .. BeginPacket(s).next_logical + n - 1
                    /\ n <= PerPacket
                    /\ BeginPacket(s).next_logical + n <=
                            BeginPacket(s).end_logical[BeginPacket(s).cur_tier]
                    /\ Cardinality(Wanted(s)) = n
<1> DEFINE b == BeginPacket(s)
           first == b.next_logical
           last == b.end_logical[b.cur_tier]
<1>1. b \in Session /\ first \in Nat /\ last \in 0 .. Capacity
  BY BeginPacketOK DEF Session
<1>2. Wanted(s) = IF ~b.active THEN {} ELSE first .. Lesser(first + PerPacket, last) - 1
  BY DEF Wanted
<1> HIDE DEF b
<1>3. Wanted(s) \subseteq Nat
  BY <1>1, <1>2
<1>4. ASSUME b.active, s.active
      PROVE  \E n \in Nat \ {0} : /\ Wanted(s) = first .. first + n - 1
                                  /\ n <= PerPacket /\ first + n <= last
                                  /\ Cardinality(Wanted(s)) = n
  <2> DEFINE n == Lesser(first + PerPacket, last) - first
  <2>1. first < last
    BY <1>4, BeginPacketOK DEF b
  <2>2. n \in Nat \ {0} /\ n <= PerPacket /\ first + n <= last
    BY <1>1, <2>1, Sizes DEF Lesser
  <2>3. first + n = Lesser(first + PerPacket, last)
    BY <1>1, Sizes DEF Lesser
  <2> HIDE DEF n
  <2>4. Wanted(s) = first .. first + n - 1
    <3>1. Wanted(s) = first .. Lesser(first + PerPacket, last) - 1
      BY <1>2, <1>4
    <3>2. first + n - 1 = Lesser(first + PerPacket, last) - 1
      BY <1>1, <2>2, <2>3
    <3> QED
      BY <3>1, <3>2, Zenon
  <2> HIDE DEF first, last
  <2>5. first \in Int /\ first + n - 1 \in Int /\ ~(first > first + n - 1) /\ (first + n - 1) - first + 1 = n
    BY <1>1, <2>2 DEF first
  <2>6. Cardinality(Wanted(s)) = n
    BY <2>4, <2>5, FS_Interval
  <2> QED
    BY <2>2, <2>4, <2>6
<1> QED
  BY <1>3, <1>4 DEF b
LEMMA EntryOK ==
    ASSUME log \in [Tier -> Nat], NEW s \in Session, NEW l \in Nat
    PROVE  Entry(s, l) \in Record
BY ReadLogicalOK DEF Entry, Record, Session

\* A packet of the interrupt holds as many records as it can, or those before
\* the one that could not be read.
LEMMA WholePacketIs ==
    ASSUME log \in [Tier -> Nat], NEW s \in Session, s.active, BeginPacket(s).active,
           NEW failing \in {NoFailure} \cup Wanted(s)
    PROVE  \E n \in Nat, entries \in Seq(Record) :
             LET b == BeginPacket(s)
             IN  /\ n <= PerPacket /\ b.next_logical + n <= b.end_logical[b.cur_tier]
                 /\ failing = NoFailure => n > 0
                 /\ entries = [k \in 1 .. n |-> Entry(b, b.next_logical + k - 1)]
                 /\ Len(entries) = n
                 /\ [b EXCEPT !.next_logical = @ + n] \in Session
                 /\ WholePacket(s, failing) =
                        EndPacket([b EXCEPT !.next_logical = @ + n], b.end_logical[b.cur_tier],
                                  failing # NoFailure, entries)
<1> DEFINE b == BeginPacket(s)
           n == IF failing \in Wanted(s) THEN failing - b.next_logical ELSE Cardinality(Wanted(s))
           entries == [k \in 1 .. n |-> Entry(b, b.next_logical + k - 1)]
<1>1. b \in Session /\ b.next_logical \in Nat /\ b.end_logical[b.cur_tier] \in 0 .. Capacity
  BY BeginPacketOK DEF Session
<1>2. WholePacket(s, failing) = EndPacket([b EXCEPT !.next_logical = @ + n],
                                          b.end_logical[b.cur_tier], failing \in Wanted(s), entries)
  BY DEF WholePacket
<1>3. PICK m \in Nat \ {0} :
         /\ Wanted(s) = b.next_logical .. b.next_logical + m - 1
         /\ m <= PerPacket /\ b.next_logical + m <= b.end_logical[b.cur_tier]
         /\ Cardinality(Wanted(s)) = m
  BY WantedOK
<1> HIDE DEF b
<1>4. NoFailure \notin Wanted(s)
  BY <1>1, <1>3 DEF NoFailure
<1>5. failing \in Wanted(s) <=> failing # NoFailure
  BY <1>4
<1>6. /\ n \in Nat /\ n <= m
      /\ failing = NoFailure => n = m
  <2>1. CASE failing \in Wanted(s)
    BY <1>1, <1>3, <1>5, <2>1
  <2>2. CASE failing \notin Wanted(s)
    BY <1>3, <2>2
  <2> QED
    BY <2>1, <2>2
<1> HIDE DEF n
<1>7. \A k \in 1 .. n : Entry(b, b.next_logical + k - 1) \in Record
  <2> SUFFICES ASSUME NEW k \in 1 .. n PROVE Entry(b, b.next_logical + k - 1) \in Record
    OBVIOUS
  <2>1. b.next_logical + k - 1 \in Nat
    BY <1>1, <1>6
  <2> QED
    BY <1>1, <2>1, EntryOK
<1>8. entries \in Seq(Record) /\ Len(entries) = n
  BY <1>6, <1>7
<1>9. [b EXCEPT !.next_logical = @ + n] \in Session
  BY <1>1, <1>6 DEF Session
<1>10. n <= PerPacket /\ b.next_logical + n <= b.end_logical[b.cur_tier]
  BY <1>1, <1>3, <1>6, Sizes
<1>11. failing = NoFailure => n > 0
  BY <1>3, <1>6
<1>12. WholePacket(s, failing) = EndPacket([b EXCEPT !.next_logical = @ + n],
                                          b.end_logical[b.cur_tier], failing # NoFailure, entries)
  BY <1>2, <1>5
<1> HIDE DEF entries
<1> QED
  BY <1>6, <1>8, <1>9, <1>10, <1>11, <1>12 DEF b, entries

LEMMA WholePacketOK ==
    ASSUME log \in [Tier -> Nat], NEW s \in Session, s.active,
           NEW failing \in {NoFailure} \cup Wanted(s)
    PROVE  /\ WholePacket(s, failing).session \in Session
           /\ \/ WholePacket(s, failing).frames = <<>>
              \/ \E f \in Frame : WholePacket(s, failing).frames = <<f>>
<1>1. CASE ~BeginPacket(s).active
  <2>1. /\ WholePacket(s, failing).session = BeginPacket(s)
        /\ WholePacket(s, failing).frames = <<>>
    BY <1>1 DEF WholePacket
  <2> QED
    BY <2>1, BeginPacketOK
<1>2. CASE BeginPacket(s).active
  <2> DEFINE b == BeginPacket(s)
             t(n) == [b EXCEPT !.next_logical = @ + n]
  <2>1. PICK n \in Nat, entries \in Seq(Record) :
           /\ t(n) \in Session
           /\ WholePacket(s, failing) = EndPacket(t(n), b.end_logical[b.cur_tier],
                                                  failing # NoFailure, entries)
    BY <1>2, WholePacketIs
  <2> HIDE DEF t
  <2> QED
    BY <2>1, EndPacketOK
<1> QED
  BY <1>1, <1>2
-----------------------------------------------------------------------------
(* The ring and the transmitter. *)

LEMMA SendOK ==
    ASSUME NEW x \in Transmitter, Len(x.queue) < RingSize, NEW f \in Frame
    PROVE  /\ SendFrame(x, f) \in Transmitter
           /\ Len(SendFrame(x, f).queue) < RingSize
           /\ SendFrame(x, f).buffer = x.buffer
<1> DEFINE q == IF Len(x.queue) = RingSize - 1 THEN Tail(x.queue) ELSE x.queue
<1>1. x.queue \in Seq(Frame) /\ Len(x.queue) \in Nat
  BY DEF Transmitter
<1>2. q \in Seq(Frame) /\ Len(q) < RingSize - 1 /\ Len(q) \in Nat
  <2>1. CASE Len(x.queue) = RingSize - 1
    <3>1. x.queue # <<>>
      BY <1>1, <2>1, Sizes
    <3>2. Tail(x.queue) \in Seq(Frame) /\ Len(Tail(x.queue)) = Len(x.queue) - 1
      BY <1>1, <3>1
    <3> QED
      BY <1>1, <2>1, <3>2, Sizes
  <2>2. CASE Len(x.queue) # RingSize - 1
    BY <1>1, <2>2, Sizes
  <2> QED
    BY <2>1, <2>2
<1> HIDE DEF q
<1>3. Append(q, f) \in Seq(Frame) /\ Len(Append(q, f)) < RingSize
  <2>1. Append(q, f) \in Seq(Frame) /\ Len(Append(q, f)) = Len(q) + 1
    BY <1>2
  <2> QED
    BY <1>2, <2>1, Sizes
<1>4. SendFrame(x, f) = [x EXCEPT !.queue = Append(q, f)]
  BY DEF SendFrame, q
<1> QED
  BY <1>3, <1>4 DEF Transmitter

\* What a call of the interrupt does to the ring, the line and the buffer.
LEMMA TryTxIs ==
    ASSUME NEW x \in Transmitter
    PROVE  /\ UartTaken(x) \/ x.queue = <<>> => TryTx(x) = x
           /\ ~(UartTaken(x) \/ x.queue = <<>>) =>
                /\ TryTx(x) \in Transmitter /\ Head(x.queue) \in Frame
                /\ TryTx(x).queue = Tail(x.queue)
                /\ TryTx(x).buffer = (IF x.buffer = None THEN None ELSE Head(x.queue))
                /\ TryTx(x).bridge = x.bridge /\ TryTx(x).bridge_busy = x.bridge_busy
                /\ x.line = "idle" => /\ TryTx(x).line = "log" /\ TryTx(x).log_busy
                                      /\ TryTx(x).sending = Head(x.queue)
                /\ x.line # "idle" => /\ TryTx(x).line = x.line /\ ~TryTx(x).log_busy
                /\ x.line = "log" => TryTx(x).sending = None
                /\ x.line = "bridge" => TryTx(x).sending = x.sending
<1>1. x.queue \in Seq(Frame) /\ x.line \in {"idle", "log", "bridge"} /\ x.log_busy \in BOOLEAN
      /\ x.sending \in Frame \cup {None}
  BY DEF Transmitter
<1>2. CASE UartTaken(x) \/ x.queue = <<>>
  BY <1>2 DEF TryTx
<1>3. CASE ~(UartTaken(x) \/ x.queue = <<>>)
  <2> DEFINE h == Head(x.queue)
             b == IF x.buffer = None THEN None ELSE h
             v == IF x.line = "log" THEN None ELSE x.sending
             y == [x EXCEPT !.queue = Tail(x.queue), !.sending = v, !.buffer = b]
             z == [y EXCEPT !.line = "log", !.sending = h, !.log_busy = TRUE]
  <2>1. h \in Frame /\ Tail(x.queue) \in Seq(Frame) /\ ~x.log_busy
    BY <1>1, <1>3 DEF UartTaken
  <2>2. b \in Frame \cup {None} /\ v \in Frame \cup {None}
    BY <1>1, <2>1
  <2>3. TryTx(x) = IF x.line # "idle" THEN y ELSE z
    BY <1>3 DEF TryTx, Copied
  <2> HIDE DEF h, b, v
  <2>4. y \in Transmitter /\ z \in Transmitter
    BY <2>1, <2>2 DEF Transmitter
  <2>5. /\ y.queue = Tail(x.queue) /\ y.buffer = b /\ y.bridge = x.bridge
        /\ y.bridge_busy = x.bridge_busy /\ y.line = x.line /\ y.log_busy = x.log_busy
        /\ y.sending = v
        /\ z.queue = Tail(x.queue) /\ z.buffer = b /\ z.bridge = x.bridge
        /\ z.bridge_busy = x.bridge_busy /\ z.line = "log" /\ z.log_busy = TRUE
        /\ z.sending = h
    BY DEF Transmitter
  <2> HIDE DEF y, z
  <2>6. CASE x.line = "idle"
    BY <1>3, <2>1, <2>3, <2>4, <2>5, <2>6 DEF b, h
  <2>7. CASE x.line # "idle"
    BY <1>1, <1>3, <2>1, <2>3, <2>4, <2>5, <2>7 DEF b, h, v
  <2> QED
    BY <2>6, <2>7
<1> QED
  BY <1>2, <1>3

LEMMA NoneIsNoFrame == None \notin Frame
BY DEF None, Frame

LEMMA TryTxOK ==
    ASSUME NEW x \in Transmitter, Len(x.queue) < RingSize
    PROVE  /\ TryTx(x) \in Transmitter
           /\ Len(TryTx(x).queue) <= Len(x.queue) /\ Len(TryTx(x).queue) < RingSize
           /\ TryTx(x).buffer = None <=> x.buffer = None
<1>1. x.queue \in Seq(Frame) /\ Len(x.queue) \in Nat
  BY DEF Transmitter
<1>2. CASE UartTaken(x) \/ x.queue = <<>>
  BY <1>1, <1>2, TryTxIs
<1>3. CASE ~(UartTaken(x) \/ x.queue = <<>>)
  <2>1. Len(Tail(x.queue)) = Len(x.queue) - 1
    BY <1>1, <1>3
  <2>2. /\ TryTx(x) \in Transmitter /\ TryTx(x).queue = Tail(x.queue) /\ Head(x.queue) \in Frame
        /\ TryTx(x).buffer = (IF x.buffer = None THEN None ELSE Head(x.queue))
    BY <1>3, TryTxIs
  <2> QED
    BY <1>1, <2>1, <2>2, NoneIsNoFrame, Sizes
<1> QED
  BY <1>2, <1>3

LEMMA TxDoneOK ==
    ASSUME NEW x \in Transmitter, Len(x.queue) < RingSize
    PROVE  /\ TxDone(x) \in Transmitter /\ Len(TxDone(x).queue) < RingSize
           /\ TxDone(x).buffer = None <=> x.buffer = None
           /\ ~x.log_busy => TxDone(x) = [x EXCEPT !.bridge_busy = FALSE]
<1> DEFINE y == [x EXCEPT !.log_busy = FALSE]
           z == IF x.log_busy THEN TryTx(y) ELSE x
<1>1. y \in Transmitter /\ Len(y.queue) < RingSize /\ y.buffer = x.buffer
  BY DEF Transmitter
<1>2. z \in Transmitter /\ Len(z.queue) < RingSize /\ (z.buffer = None <=> x.buffer = None)
  <2> HIDE DEF y
  <2> QED
    BY <1>1, TryTxOK
<1>3. TxDone(x) = [z EXCEPT !.bridge_busy = FALSE]
  BY DEF TxDone
<1>4. ~x.log_busy => z = x
  OBVIOUS
<1> HIDE DEF z
<1> QED
  BY <1>2, <1>3, <1>4 DEF Transmitter

LEMMA SendFramesOK ==
    ASSUME NEW x \in Transmitter, Len(x.queue) < RingSize, NEW frames,
           frames = <<>> \/ \E f \in Frame : frames = <<f>>
    PROVE  /\ Send(x, frames) \in Transmitter /\ Len(Send(x, frames).queue) < RingSize
           /\ Send(x, frames).buffer = x.buffer
<1>1. CASE frames = <<>>
  BY <1>1 DEF Send
<1>2. CASE \E f \in Frame : frames = <<f>>
  <2>1. PICK f \in Frame : frames = <<f>>
    BY <1>2
  <2>2. Send(x, frames) = SendFrame(x, f)
    BY <2>1 DEF Send
  <2> QED
    BY <2>2, SendOK
<1> QED
  BY <1>1, <1>2

LEMMA ReceivedOK ==
    ASSUME NEW h \in Host, NEW f \in Frame \cup {None}
    PROVE  Received(h, f) \in Host
<1>1. CASE f \in Frame
  <2>1. Append(h.heard, f) \in Seq(Frame)
    BY <1>1 DEF Host
  <2> QED
    BY <2>1 DEF Received, Host
<1>2. CASE f = None
  BY <1>2 DEF Received
<1> QED
  BY <1>1, <1>2

LEMMA DisturbedOK ==
    ASSUME NEW h \in Host
    PROVE  /\ Disturbed(h) \in Host /\ Disturbed(h).quiet = (h.quiet /\ ~Outstanding)
           /\ Disturbed(h).mixed = (h.mixed \/ InSend)
           /\ Disturbed(h).stream = h.stream /\ Disturbed(h).heard = h.heard
           /\ Disturbed(h).failed = h.failed
<1>1. (h.quiet /\ ~Outstanding) \in BOOLEAN /\ (h.mixed \/ InSend) \in BOOLEAN
  BY DEF Host
<1> QED
  BY <1>1 DEF Disturbed, Host

\* An interrupt finds the main loop at a step of its own call or leaves it alone.
LEMMA CrossLoopOK ==
    ASSUME loop \in Loop, CrossLoop
    PROVE  /\ loop' \in Loop /\ loop'.at # "copy"
           /\ loop'.at = "crossed" => loop.at \in {"copy", "crossed"}
           /\ loop'.at = "send" <=> loop.at = "send"
           /\ loop'.frame = loop.frame
           /\ loop.at # "copy" => loop' = loop
<1>1. CASE loop.at = "copy"
  <2>1. loop' = [loop EXCEPT !.at = "crossed"]
    BY <1>1 DEF CrossLoop
  <2> QED
    BY <1>1, <2>1 DEF Loop
<1>2. CASE loop.at # "copy"
  BY <1>2 DEF CrossLoop
<1> QED
  BY <1>1, <1>2
\* What the main loop has in hand, after an interrupt that calls TryTx,
LEMMA InHandCrossed ==
    ASSUME loop \in Loop, InHand, CrossLoop, tx'.buffer = None <=> tx.buffer = None
    PROVE  loop' \in Loop /\ InHand'
BY CrossLoopOK DEF InHand

\* after a step that leaves the main loop alone,
LEMMA InHandKept ==
    ASSUME InHand, loop' = loop, tx'.queue = tx.queue \/ loop.at # "copy",
           tx'.buffer = None <=> tx.buffer = None
    PROVE  InHand'
BY DEF InHand

\* and when the main loop does something else.
LEMMA InHandElse ==
    ASSUME loop'.at \in {"idle", "look", "mark", "pump", "read", "store"}, tx'.buffer = None
    PROVE  InHand'
BY DEF InHand

LEMMA LeftOK ==
    ASSUME NEW next \in {"idle", "pump"}
    PROVE  /\ Left(next) \in Loop /\ Left(next).at = next /\ Left(next).entries = <<>>
<1>1. (IF next = "pump" THEN MainBudget ELSE 0) \in 0 .. MainBudget
  BY Sizes
<1>2. Resting \in Loop /\ Resting.entries = <<>>
  BY Sizes DEF Resting, Loop
<1> QED
  BY <1>1, <1>2 DEF Left, Loop

LEMMA TestUartOK ==
    ASSUME NEW next \in {"idle", "pump"}, TestUart(next)
    PROVE  /\ loop' \in Loop /\ loop'.at \in {next, "look"} /\ loop'.entries = <<>>
           /\ loop'.at = "look" => ~UartTaken(tx)
<1>1. Resting \in Loop /\ Resting.entries = <<>>
  BY Sizes DEF Resting, Loop
<1>2. CASE UartTaken(tx)
  BY <1>2, LeftOK DEF TestUart
<1>3. CASE ~UartTaken(tx)
  <2>1. loop' = [Resting EXCEPT !.at = "look", !.next = next]
    BY <1>3 DEF TestUart
  <2> QED
    BY <1>1, <1>3, <2>1 DEF Loop
<1> QED
  BY <1>2, <1>3
-----------------------------------------------------------------------------
(* Type correctness, action by action. *)

LEMMA TypeInit == Init => TypeOK
<1> SUFFICES ASSUME Init PROVE TypeOK
  OBVIOUS
<1>1. log \in [Tier -> Nat]
  BY SurroundingsAssumption DEF Init
<1>2. session \in Session
  BY NoSessionOK DEF Init
<1>3. tx \in Transmitter /\ Len(tx.queue) < RingSize
  BY Sizes DEF Init, Transmitter
<1>4. loop \in Loop /\ irq \in 0 .. PumpBudget
  BY Sizes DEF Init, Loop, Resting
<1>6. InHand
  BY DEF Init, InHand, Resting
<1>5. panel \in Panel /\ host \in Host /\ spent \in Counts
  BY DEF Init, Panel, Host, Counts
<1> QED
  BY <1>1, <1>2, <1>3, <1>4, <1>5, <1>6, TypeParts

LEMMA TypeRequests ==
    ASSUME TypeOK,
           \/ \E mode \in Tier \cup {"both"}, start \in Starts : RequestStart(mode, start)
           \/ RequestStop \/ RequestOther
    PROVE  TypeOK'
<1>0. /\ log \in [Tier -> Nat] /\ session \in Session
      /\ tx \in Transmitter /\ Len(tx.queue) < RingSize
      /\ loop \in Loop /\ irq \in 0 .. PumpBudget
      /\ panel \in Panel /\ host \in Host /\ spent \in Counts /\ InHand
  BY TypeParts
<1> USE <1>0, TypePartsNext
<1>1. irq' \in 0 .. PumpBudget /\ spent' \in Counts /\ log' = log /\ CrossLoop
  BY Sizes DEF RequestStart, RequestStop, RequestOther, Requested, Counts
<1>2. ASSUME NEW f \in Frame
      PROVE  /\ TryTx(SendFrame(tx, f)) \in Transmitter
             /\ Len(TryTx(SendFrame(tx, f)).queue) < RingSize
             /\ TryTx(SendFrame(tx, f)).buffer = None <=> tx.buffer = None
  BY SendOK, TryTxOK
<1>3. Response("OK", 0, 0) \in Frame
  BY ResponseOK
<1>4. ASSUME NEW mode \in Tier \cup {"both"}, NEW start \in Starts, RequestStart(mode, start)
      PROVE  TypeOK'
  <2> DEFINE a == StartDump(session, mode, start)
  <2>1. a.session \in Session /\ a.rsp \in Frame
    BY SurroundingsAssumption, StartDumpOK
  <2>2. /\ session' = a.session /\ tx' = TryTx(SendFrame(tx, a.rsp))
        /\ IF a.rsp.status = "BUSY"
           THEN panel' = panel /\ host' = Disturbed(host)
           ELSE /\ panel' = [panel EXCEPT !.next_stream = @ + 1]
                /\ host' = [stream |-> a.rsp.stream, heard |-> <<>>, failed |-> FALSE,
                            quiet |-> ~Outstanding, mixed |-> InPacket \/ InSend]
    BY <1>4 DEF RequestStart
  <2> HIDE DEF a
  <2>3. /\ session' \in Session /\ tx' \in Transmitter /\ Len(tx'.queue) < RingSize
        /\ loop' \in Loop /\ InHand'
    BY <1>1, <1>2, <2>1, <2>2, InHandCrossed
  <2>4. CASE a.rsp.status = "BUSY"
    BY <1>1, <2>2, <2>3, <2>4, DisturbedOK
  <2>5. CASE a.rsp.status # "BUSY"
    <3>1. panel' \in Panel
      BY <2>2, <2>5 DEF Panel
    <3>2. a.rsp.stream \in Nat
      BY <2>1 DEF Frame
    <3>3. (~Outstanding) \in BOOLEAN /\ (InPacket \/ InSend) \in BOOLEAN
      OBVIOUS
    <3>4. <<>> \in Seq(Frame)
      OBVIOUS
    <3>5. host' = [stream |-> a.rsp.stream, heard |-> <<>>, failed |-> FALSE,
                   quiet |-> ~Outstanding, mixed |-> InPacket \/ InSend]
      BY <2>2, <2>5
    <3>6. host' \in Host
      BY <3>2, <3>3, <3>4, <3>5, Zenon DEF Host
    <3> QED
      BY <1>1, <2>3, <3>1, <3>6
  <2> QED
    BY <2>4, <2>5
<1>5. CASE RequestStop
  <2>1. session' \in Session /\ host' \in Host /\ panel' = panel
    BY <1>5, NoSessionOK, DisturbedOK DEF RequestStop
  <2>2. /\ tx' \in Transmitter /\ Len(tx'.queue) < RingSize
        /\ tx'.buffer = None <=> tx.buffer = None
    BY <1>2, <1>3, <1>5 DEF RequestStop
  <2>3. loop' \in Loop /\ InHand'
    BY <1>1, <2>2, InHandCrossed
  <2> QED
    BY <1>1, <2>1, <2>2, <2>3
<1>6. CASE RequestOther
  <2>1. session' = session /\ host' \in Host /\ panel' = panel
    BY <1>6, DisturbedOK DEF RequestOther
  <2>2. /\ tx' \in Transmitter /\ Len(tx'.queue) < RingSize
        /\ tx'.buffer = None <=> tx.buffer = None
    BY <1>2, <1>3, <1>6 DEF RequestOther
  <2>3. loop' \in Loop /\ InHand'
    BY <1>1, <2>2, InHandCrossed
  <2> QED
    BY <1>1, <2>1, <2>2, <2>3
<1> QED
  BY <1>4, <1>5, <1>6

LEMMA ReadFailsOK ==
    ASSUME spent \in Counts, NEW failing, ReadFails(failing)
    PROVE  spent' \in Counts
BY DEF ReadFails, Counts

LEMMA TypePump ==
    ASSUME TypeOK, NEW failing \in {NoFailure} \cup Wanted(session), Pump(failing)
    PROVE  TypeOK'
<1>0. /\ log \in [Tier -> Nat] /\ session \in Session
      /\ tx \in Transmitter /\ Len(tx.queue) < RingSize
      /\ loop \in Loop /\ irq \in 0 .. PumpBudget
      /\ panel \in Panel /\ host \in Host /\ spent \in Counts /\ InHand
  BY TypeParts
<1> USE <1>0, TypePartsNext
<1> DEFINE p == IF session.active THEN WholePacket(session, failing)
                ELSE [session |-> session, frames |-> <<>>]
<1>1. /\ irq > 0 /\ session' = p.session /\ tx' = TryTx(Send(tx, p.frames))
      /\ irq' = Pumped(irq, p.session.active) /\ CrossLoop
      /\ IF irq' = 0 THEN LogHostLink ELSE UNCHANGED <<log, panel>>
      /\ host' = [host EXCEPT !.failed = @ \/ failing # NoFailure,
                              !.mixed = @ \/ (InPacket /\ p.frames # <<>>)]
  BY DEF Pump
<1>2. /\ p.session \in Session
      /\ p.frames = <<>> \/ \E f \in Frame : p.frames = <<f>>
  BY WholePacketOK
<1> HIDE DEF p
<1>3. /\ tx' \in Transmitter /\ Len(tx'.queue) < RingSize
      /\ tx'.buffer = None <=> tx.buffer = None
  <2> DEFINE y == Send(tx, p.frames)
  <2>1. y \in Transmitter /\ Len(y.queue) < RingSize /\ y.buffer = tx.buffer
    BY <1>2, SendFramesOK
  <2>2. tx' = TryTx(y)
    BY <1>1
  <2> HIDE DEF y
  <2> QED
    BY <2>1, <2>2, TryTxOK
<1>8. loop' \in Loop /\ InHand'
  BY <1>1, <1>3, InHandCrossed
<1>4. irq' \in 0 .. PumpBudget
  BY <1>1, Sizes DEF Pumped
<1>5. log' \in [Tier -> Nat] /\ panel' \in Panel
  <2>1. CASE LogHostLink
    <3>1. panel' \in Panel
      BY <2>1 DEF LogHostLink, Panel
    <3>2. log["critical"] \in Nat
      BY DEF Tier
    <3>3. (IF panel.linked THEN log["critical"] ELSE log["critical"] + 1) \in Nat
      BY <3>2
    <3>4. log' \in [Tier -> Nat]
      BY <2>1, <3>3 DEF LogHostLink
    <3> QED
      BY <3>1, <3>4
  <2>2. CASE UNCHANGED <<log, panel>>
    BY <2>2
  <2> QED
    BY <1>1, <2>1, <2>2
<1>6. host' \in Host
  <2>1. /\ (host.failed \/ failing # NoFailure) \in BOOLEAN
        /\ (host.mixed \/ (InPacket /\ p.frames # <<>>)) \in BOOLEAN
    BY DEF Host
  <2> QED
    BY <1>1, <2>1 DEF Host
<1>7. spent' \in Counts
  BY ReadFailsOK DEF Pump
<1> QED
  BY <1>1, <1>2, <1>3, <1>4, <1>5, <1>6, <1>7, <1>8

LEMMA FinishPacketOK ==
    ASSUME TypeOK, NEW s \in Session, NEW error, NEW entries \in Seq(Record),
           FinishPacket(s, error, entries), InPacket
    PROVE  /\ session' \in Session /\ tx' \in Transmitter /\ Len(tx'.queue) < RingSize
           /\ loop' \in Loop /\ InHand'
<1>0. /\ log \in [Tier -> Nat] /\ session \in Session
      /\ tx \in Transmitter /\ Len(tx.queue) < RingSize
      /\ loop \in Loop /\ irq \in 0 .. PumpBudget
      /\ panel \in Panel /\ host \in Host /\ spent \in Counts /\ InHand
  BY TypeParts
<1> USE <1>0, TypePartsNext
<1> DEFINE p == EndPacket(s, loop.tier_end, error, entries)
<1>1. /\ session' = p.session /\ tx' = Send(tx, p.frames)
      /\ loop' = [loop EXCEPT !.at = "pump", !.entries = <<>>, !.record = 0]
  BY DEF FinishPacket
<1>2. /\ p.session \in Session
      /\ p.frames = <<>> \/ \E f \in Frame : p.frames = <<f>>
  BY EndPacketOK
<1> HIDE DEF p
<1>3. tx' \in Transmitter /\ Len(tx'.queue) < RingSize /\ tx'.buffer = None
  BY <1>1, <1>2, SendFramesOK DEF InHand, InPacket
<1>4. loop' \in Loop /\ loop'.at = "pump"
  <2>1. <<>> \in Seq(Record)
    OBVIOUS
  <2> QED
    BY <1>1, <2>1 DEF Loop
<1> QED
  BY <1>1, <1>2, <1>3, <1>4, InHandElse

LEMMA TypeSend ==
    ASSUME TypeOK, LogTransport_Process \/ TryTxSteps \/ PumpEnds
    PROVE  TypeOK'
<1>0. /\ log \in [Tier -> Nat] /\ session \in Session
      /\ tx \in Transmitter /\ Len(tx.queue) < RingSize
      /\ loop \in Loop /\ irq \in 0 .. PumpBudget
      /\ panel \in Panel /\ host \in Host /\ spent \in Counts /\ InHand
  BY TypeParts
<1>1. /\ tx.queue \in Seq(Frame) /\ Len(tx.queue) \in Nat /\ loop.next \in {"idle", "pump"}
      /\ tx.sending \in Frame \cup {None} /\ tx.buffer \in Frame \cup {None}
      /\ loop.frame \in Frame \cup {None}
  BY <1>0 DEF Transmitter, Loop
<1>2. UNCHANGED <<log, session, irq, panel, host, spent>>
  <2>1. CASE CopyCrossed
    BY <2>1 DEF CopyCrossed
  <2>2. CASE LogTransport_Process \/ PumpEnds \/ LookAtRing \/ CopyFrame \/ SendBuffer \/ MarkBusy
    BY <2>2 DEF LogTransport_Process, PumpEnds, LookAtRing, CopyFrame, SendBuffer, MarkBusy
  <2> QED
    BY <2>1, <2>2 DEF TryTxSteps
<1> USE <1>0, <1>2, TypePartsNext
<1>3. CASE LogTransport_Process \/ PumpEnds
  <2>1. tx' = tx /\ loop.at \in {"idle", "pump"} /\ \E next \in {"idle", "pump"} : TestUart(next)
    BY <1>3 DEF LogTransport_Process, PumpEnds
  <2>2. loop' \in Loop /\ loop'.at \in {"idle", "pump", "look"} /\ tx'.buffer = None
    BY <2>1, TestUartOK DEF InHand
  <2> QED
    BY <2>1, <2>2, InHandElse
<1>4. CASE LookAtRing
  <2>1. CASE tx.queue = <<>>
    <3>1. tx' = tx /\ loop' \in Loop /\ loop'.at \in {"idle", "pump"} /\ tx.buffer = None
      BY <1>1, <1>4, <2>1, LeftOK DEF LookAtRing, InHand
    <3> QED
      BY <3>1, InHandElse
  <2>2. CASE tx.queue # <<>>
    <3>1. tx' = tx /\ loop' = [loop EXCEPT !.at = "copy", !.frame = Head(tx.queue)]
          /\ tx.buffer = None
      BY <1>4, <2>2 DEF LookAtRing, InHand
    <3>2. Head(tx.queue) \in Frame /\ Head(tx.queue) # None
      BY <1>1, <2>2, NoneIsNoFrame
    <3>3. loop' \in Loop /\ InHand'
      BY <2>2, <3>1, <3>2 DEF Loop, InHand
    <3> QED
      BY <3>1, <3>3
  <2> QED
    BY <2>1, <2>2
<1>5. ASSUME tx' \in Transmitter, Len(tx'.queue) < RingSize, tx'.buffer \in Frame,
             loop' = [loop EXCEPT !.at = "send", !.frame = None]
      PROVE  TypeOK'
  <2>1. loop' \in Loop /\ loop'.at = "send"
    BY <1>5 DEF Loop
  <2> QED
    BY <1>5, <2>1, NoneIsNoFrame DEF InHand
<1>6. CASE CopyFrame
  <2> DEFINE v == IF tx.line = "log" THEN None ELSE tx.sending
             q == Tail(tx.queue)
             g == Head(tx.queue)
  <2>1. /\ tx.queue # <<>> /\ loop' = [loop EXCEPT !.at = "send", !.frame = None]
        /\ tx' = [tx EXCEPT !.queue = q, !.sending = v, !.buffer = g]
    BY <1>6 DEF CopyFrame, Copied, InHand
  <2>2. g \in Frame /\ q \in Seq(Frame) /\ Len(q) < RingSize
    BY <1>1, <2>1, Sizes
  <2>3. v \in Frame \cup {None}
    BY <1>1
  <2> HIDE DEF v, q, g
  <2>4. tx' \in Transmitter /\ tx'.queue = q /\ tx'.buffer = g
    BY <2>1, <2>2, <2>3 DEF Transmitter
  <2> QED
    BY <1>5, <2>1, <2>2, <2>4
<1>7. CASE CopyCrossed
  <2>1. PICK buffer \in {loop.frame, Torn},
             sending \in IF tx.line = "log" THEN {tx.sending, None} ELSE {tx.sending},
             queue \in (IF tx.queue = <<>> THEN {} ELSE {Tail(tx.queue)})
                       \cup {[i \in 1 .. n |-> loop.frame] \o tx.queue :
                               n \in 0 .. RingSize - 1 - Len(tx.queue)} :
            tx' = [tx EXCEPT !.buffer = buffer, !.sending = sending, !.queue = queue]
    BY <1>7, Zenon DEF CopyCrossed
  <2>2. loop' = [loop EXCEPT !.at = "send", !.frame = None] /\ loop.frame \in Frame
    BY <1>1, <1>7 DEF CopyCrossed, InHand
  <2>3. buffer \in Frame /\ sending \in Frame \cup {None}
    <3>1. Torn \in Frame
      BY ResponseOK DEF Torn
    <3>2. sending = tx.sending \/ sending = None
      OBVIOUS
    <3> HIDE DEF Torn
    <3> QED
      BY <1>1, <2>2, <3>1, <3>2
  <2>4. queue \in Seq(Frame) /\ Len(queue) < RingSize
    <3>1. CASE tx.queue # <<>> /\ queue = Tail(tx.queue)
      BY <1>1, <3>1, Sizes
    <3>2. ASSUME NEW n \in 0 .. RingSize - 1 - Len(tx.queue),
                 queue = [i \in 1 .. n |-> loop.frame] \o tx.queue
          PROVE  queue \in Seq(Frame) /\ Len(queue) < RingSize
      <4> DEFINE again == [i \in 1 .. n |-> loop.frame]
      <4>1. again \in Seq(Frame) /\ Len(again) = n
        BY <2>2
      <4> HIDE DEF again
      <4>2. queue = again \o tx.queue
        BY <3>2 DEF again
      <4>3. queue \in Seq(Frame) /\ Len(queue) = n + Len(tx.queue)
        BY <1>1, <4>1, <4>2, ConcatProperties
      <4> QED
        BY <1>1, <4>3, Sizes
    <3> QED
      BY <3>1, <3>2
  <2>5. tx' \in Transmitter /\ tx'.queue = queue /\ tx'.buffer = buffer
    BY <2>1, <2>3, <2>4 DEF Transmitter
  <2> QED
    BY <1>5, <2>2, <2>3, <2>4, <2>5
<1>8. CASE SendBuffer
  <2>1. CASE tx.line = "idle"
    <3>1. /\ tx' = [tx EXCEPT !.buffer = None, !.line = "log", !.sending = tx.buffer]
          /\ loop' = [loop EXCEPT !.at = "mark"]
      BY <1>8, <2>1 DEF SendBuffer
    <3>2. tx' \in Transmitter /\ tx'.queue = tx.queue /\ tx'.buffer = None
      BY <1>1, <3>1 DEF Transmitter
    <3>3. loop' \in Loop /\ loop'.at = "mark"
      BY <3>1 DEF Loop
    <3> QED
      BY <3>2, <3>3, InHandElse
  <2>2. CASE tx.line # "idle"
    <3>1. tx' = [tx EXCEPT !.buffer = None] /\ loop' = Left(loop.next)
      BY <1>8, <2>2 DEF SendBuffer
    <3>2. tx' \in Transmitter /\ tx'.queue = tx.queue /\ tx'.buffer = None
      BY <1>1, <3>1 DEF Transmitter
    <3>3. loop' \in Loop /\ loop'.at \in {"idle", "pump"}
      BY <1>1, <3>1, LeftOK
    <3> QED
      BY <3>2, <3>3, InHandElse
  <2> QED
    BY <2>1, <2>2
<1>9. CASE MarkBusy
  <2>1. tx' = [tx EXCEPT !.log_busy = TRUE] /\ loop' = Left(loop.next) /\ tx.buffer = None
    BY <1>9 DEF MarkBusy, InHand
  <2>2. tx' \in Transmitter /\ tx'.queue = tx.queue /\ tx'.buffer = None
    BY <1>1, <2>1 DEF Transmitter
  <2>3. loop' \in Loop /\ loop'.at \in {"idle", "pump"}
    BY <1>1, <2>1, LeftOK
  <2> QED
    BY <2>2, <2>3, InHandElse
<1> QED
  BY <1>3, <1>4, <1>6, <1>7, <1>8, <1>9 DEF TryTxSteps

LEMMA TypeMainLoop ==
    ASSUME TypeOK, NextPacket \/ ReadRecord \/ ReadRecordFails \/ StoreRecord
    PROVE  TypeOK'
<1>0. /\ log \in [Tier -> Nat] /\ session \in Session
      /\ tx \in Transmitter /\ Len(tx.queue) < RingSize
      /\ loop \in Loop /\ irq \in 0 .. PumpBudget
      /\ panel \in Panel /\ host \in Host /\ spent \in Counts /\ InHand
  BY TypeParts
<1> USE <1>0, TypePartsNext
<1>1. tx.buffer = None
  BY DEF NextPacket, ReadRecord, ReadRecordFails, StoreRecord, InHand
<1>4. CASE NextPacket
  <2> DEFINE b == BeginPacket(session)
  <2>1. b \in Session
    BY BeginPacketOK
  <2>2. /\ session' = b /\ loop.budget > 0
        /\ loop' = [loop EXCEPT !.budget = @ - 1, !.at = IF b.active THEN "read" ELSE "pump",
                                !.tier_end = b.end_logical[b.cur_tier]]
        /\ UNCHANGED <<log, tx, irq, panel, host, spent>>
    BY <1>4 DEF NextPacket
  <2> HIDE DEF b
  <2>3. loop.budget - 1 \in 0 .. MainBudget
    <3>1. loop.budget \in 0 .. MainBudget /\ loop.budget > 0
      BY <2>2 DEF Loop
    <3>2. \A n \in 0 .. MainBudget : n > 0 => n - 1 \in 0 .. MainBudget
      BY Sizes
    <3> QED
      BY <3>1, <3>2, Zenon
  <2>5. b.end_logical[b.cur_tier] \in 0 .. Capacity
    BY <2>1 DEF Session
  <2>4. loop' \in Loop /\ loop'.at \in {"pump", "read"}
    BY <2>2, <2>3, <2>5 DEF Loop
  <2> QED
    BY <1>1, <2>1, <2>2, <2>4, InHandElse
<1>6. CASE ReadRecord
  <2>1. ReadLogical(session.cur_tier, session.next_logical) \in Nat
    BY ReadLogicalOK DEF Session
  <2>2. loop' \in Loop /\ loop'.at = "store" /\ tx' = tx
    BY <1>6, <2>1 DEF ReadRecord, Loop
  <2> QED
    BY <1>1, <1>6, <2>2, InHandElse DEF ReadRecord
<1>7. CASE ReadRecordFails
  <2>1. FinishPacket(session, TRUE, loop.entries) /\ loop.entries \in Seq(Record) /\ InPacket
    BY <1>7 DEF ReadRecordFails, Loop, InPacket
  <2>2. /\ session' \in Session /\ tx' \in Transmitter /\ Len(tx'.queue) < RingSize
        /\ loop' \in Loop /\ InHand'
    BY <2>1, FinishPacketOK
  <2>3. spent' \in Counts
    BY <1>7, ReadFailsOK DEF ReadRecordFails
  <2>4. host' \in Host /\ UNCHANGED <<log, irq, panel>>
    BY <1>7 DEF ReadRecordFails, Host
  <2> QED
    BY <2>2, <2>3, <2>4
<1>8. CASE StoreRecord
  <2> DEFINE entries == Append(loop.entries,
                               [label |-> session.next_logical, record |-> loop.record])
             s == [session EXCEPT !.next_logical = @ + 1]
  <2>1. entries \in Seq(Record)
    BY DEF Loop, Record, Session
  <2>2. s \in Session
    <3>1. session.next_logical + 1 \in Nat
      BY DEF Session
    <3> QED
      BY <3>1 DEF Session
  <2>3. /\ UNCHANGED <<log, irq, panel, host, spent>> /\ InPacket
        /\ \/ /\ session' = s /\ tx' = tx
              /\ loop' = [loop EXCEPT !.at = "read", !.entries = entries]
           \/ FinishPacket(s, FALSE, entries)
    BY <1>8 DEF StoreRecord, InPacket
  <2> HIDE DEF entries, s
  <2>4. CASE /\ session' = s /\ tx' = tx
             /\ loop' = [loop EXCEPT !.at = "read", !.entries = entries]
    <3>1. loop' \in Loop /\ loop'.at = "read"
      BY <2>1, <2>4 DEF Loop
    <3> QED
      BY <1>1, <2>2, <2>3, <2>4, <3>1, InHandElse
  <2>5. CASE FinishPacket(s, FALSE, entries)
    BY <2>1, <2>2, <2>3, <2>5, FinishPacketOK
  <2> QED
    BY <2>3, <2>4, <2>5
<1> QED
  BY <1>4, <1>6, <1>7, <1>8

LEMMA TypeSurroundings ==
    ASSUME TypeOK,
           \/ \E t \in Tier : PostEvent(t)
           \/ TxComplete \/ LineError \/ CanMirror \/ BridgeTx \/ EspOff \/ EspOn
    PROVE  TypeOK'
<1>0. /\ log \in [Tier -> Nat] /\ session \in Session
      /\ tx \in Transmitter /\ Len(tx.queue) < RingSize
      /\ loop \in Loop /\ irq \in 0 .. PumpBudget
      /\ panel \in Panel /\ host \in Host /\ spent \in Counts /\ InHand
  BY TypeParts
<1> USE <1>0, TypePartsNext
<1>1. ASSUME NEW t \in Tier, PostEvent(t)
      PROVE  TypeOK'
  <2>1. log' \in [Tier -> Nat] /\ spent' \in Counts
    BY <1>1 DEF PostEvent, Counts
  <2> QED
    BY <1>1, <2>1, InHandKept DEF PostEvent
<1>2. CASE TxComplete
  <2> DEFINE x == [tx EXCEPT !.line = "idle", !.sending = None]
  <2>1. /\ x \in Transmitter /\ Len(x.queue) < RingSize /\ x.queue = tx.queue
        /\ x.buffer = tx.buffer /\ x.log_busy = tx.log_busy
    BY DEF Transmitter
  <2>2. tx' = TxDone(x) /\ host' = Received(host, tx.sending) /\ UNCHANGED <<log, session, loop, irq, panel, spent>>
        /\ ~(InSend /\ tx.log_busy)
    BY <1>2 DEF TxComplete
  <2> HIDE DEF x
  <2>3. /\ tx' \in Transmitter /\ Len(tx'.queue) < RingSize
        /\ tx'.buffer = None <=> tx.buffer = None
    BY <2>1, <2>2, TxDoneOK
  <2>4. host' \in Host
    BY <2>2, ReceivedOK DEF Transmitter
  <2>5. tx'.queue = tx.queue \/ loop.at # "copy"
    <3>1. CASE tx.log_busy
      BY <2>2, <3>1 DEF InSend
    <3>2. CASE ~tx.log_busy
      <4>1. tx' = [x EXCEPT !.bridge_busy = FALSE]
        BY <2>1, <2>2, <3>2, TxDoneOK
      <4> QED
        BY <2>1, <4>1 DEF Transmitter
    <3> QED
      BY <3>1, <3>2
  <2> QED
    BY <2>2, <2>3, <2>4, <2>5, InHandKept
<1>3. CASE LineError
  <2>1. /\ tx' \in Transmitter /\ Len(tx'.queue) < RingSize /\ host' \in Host
        /\ tx'.buffer = None <=> tx.buffer = None
    BY <1>3, TxDoneOK, DisturbedOK DEF LineError
  <2>2. spent' \in Counts
    BY <1>3 DEF LineError, Counts
  <2>3. loop' \in Loop /\ InHand'
    <3>1. CASE tx.log_busy
      BY <1>3, <2>1, <3>1, InHandCrossed DEF LineError
    <3>2. CASE ~tx.log_busy
      <4>1. tx' = [tx EXCEPT !.bridge_busy = FALSE] /\ loop' = loop
        BY <1>3, <3>2, TxDoneOK DEF LineError
      <4>2. tx'.queue = tx.queue
        BY <4>1 DEF Transmitter
      <4> QED
        BY <2>1, <4>1, <4>2, InHandKept
    <3> QED
      BY <3>1, <3>2
  <2> QED
    BY <1>3, <2>1, <2>2, <2>3 DEF LineError
<1>4. CASE CanMirror
  <2>1. tx' \in Transmitter /\ tx'.queue = tx.queue /\ tx'.buffer = tx.buffer
    <3>1. tx' = [tx EXCEPT !.bridge = 1] /\ 1 \in 0 .. 1
      BY <1>4 DEF CanMirror
    <3> QED
      BY <3>1 DEF Transmitter
  <2> QED
    BY <1>4, <2>1, InHandKept DEF CanMirror
<1>5. CASE BridgeTx
  <2>1. tx' \in Transmitter /\ tx'.queue = tx.queue /\ tx'.buffer = tx.buffer
    <3>1. /\ tx' = [tx EXCEPT !.bridge = 0, !.bridge_busy = TRUE, !.line = "bridge"]
          /\ 0 \in 0 .. 1
      BY <1>5 DEF BridgeTx
    <3> QED
      BY <3>1 DEF Transmitter
  <2> QED
    BY <1>5, <2>1, InHandKept DEF BridgeTx
<1>6. CASE EspOff
  <2>1. tx' \in Transmitter /\ tx'.queue = tx.queue /\ tx'.buffer = tx.buffer
    <3>1. /\ tx' = [tx EXCEPT !.line = "idle", !.sending = None, !.bridge = 0,
                              !.bridge_busy = FALSE]
          /\ 0 \in 0 .. 1
      BY <1>6 DEF EspOff
    <3> QED
      BY <3>1 DEF Transmitter
  <2>2. host' \in Host
    BY <1>6, DisturbedOK DEF EspOff
  <2>3. spent' \in Counts
    BY <1>6 DEF EspOff, Counts
  <2>4. panel' \in Panel
    BY <1>6 DEF EspOff, Panel
  <2> QED
    BY <1>6, <2>1, <2>2, <2>3, <2>4, InHandKept DEF EspOff
<1>7. CASE EspOn
  <2>1. panel' \in Panel
    BY <1>7 DEF EspOn, Panel
  <2> QED
    BY <1>7, <2>1, InHandKept DEF EspOn
<1> QED
  BY <1>1, <1>2, <1>3, <1>4, <1>5, <1>6, <1>7

LEMMA TypeNext == TypeOK /\ [Next]_vars => TypeOK'
<1> SUFFICES ASSUME TypeOK, [Next]_vars PROVE TypeOK'
  OBVIOUS
<1>1. CASE UNCHANGED vars
  <2>1. /\ log' = log /\ session' = session /\ tx' = tx /\ loop' = loop /\ irq' = irq
        /\ panel' = panel /\ host' = host /\ spent' = spent
    BY <1>1 DEF vars
  <2> QED
    BY <2>1, TypeParts, TypePartsNext, InHandKept
<1> QED
  BY <1>1, TypeRequests, TypePump, TypeSend, TypeMainLoop, TypeSurroundings DEF Next, Interrupt, MainLoop

\* The session, the ring and what the host has stay well-formed, the ring
\* within its size, whatever comes in between what (log_stream.c,
\* log_transport.c).
THEOREM TypeCorrectness == Spec => []TypeOK
BY TypeInit, TypeNext, PTL DEF Spec
-----------------------------------------------------------------------------
(* The stream of frames between the dump and the host.                     *)

\* The frames between the dump and the host: the one being sent, the one the
\* main loop has copied and the ring.
Queued(x) == IF x.buffer = None THEN x.queue ELSE <<x.buffer>> \o x.queue

InFlight(x) ==
    (IF x.line = "log" /\ x.sending # None THEN <<x.sending>> ELSE <<>>) \o Queued(x)

\* The code knows what the UART sends.
Clean(x) ==
    /\ x.log_busy <=> x.line = "log"
    /\ x.bridge_busy <=> x.line = "bridge"
    /\ x.sending # None <=> x.line = "log"

\* All frames on their way are of the stream the host waits for.
Own(h, p) == h.stream # 0 /\ \A i \in 1 .. Len(p) : p[i].stream = h.stream

FlowOf(h, p) == IF Own(h, p) THEN h.heard \o p ELSE h.heard

\* The stream as far as it has been sent.
Flow == FlowOf(host, InFlight(tx))

\* Whatever happens.
WiredTx(x) == (x.bridge_busy => x.line = "bridge") /\ (x.line # "log" => x.sending = None)

Wired ==
    /\ WiredTx(tx)
    /\ host.stream = 0 => host.heard = <<>>
    /\ panel.next_stream > 0

\* The code took an error of the receiver for the end of a frame of the bridge.
Astray ==
    /\ tx.line = "bridge" /\ ~tx.log_busy /\ ~tx.bridge_busy
    /\ tx.sending = None /\ tx.queue = <<>>
    /\ ~session.active /\ irq = 0 /\ ~InPacket

\* The main loop has begun to send a frame and not marked it yet.
Unmarked(x) ==
    x.line = "log" /\ x.sending # None /\ ~x.log_busy /\ ~x.bridge_busy

\* The main loop hands a frame to a UART that is free.
Handing ==
    /\ irq = 0 /\ ~tx.log_busy /\ ~tx.bridge_busy
    /\ loop.at # "crossed"
    /\ loop.at \in {"copy", "send"} => tx.line = "idle" /\ tx.sending = None
    /\ loop.at = "mark" => Unmarked(tx)

\* While the host waits for the end of its stream.
Undisturbed ==
    /\ loop.at # "mark" => Clean(tx) \/ Astray
    /\ InSend => Handing
    /\ irq > 0 => ~InPacket /\ Len(tx.queue) + irq <= PumpBudget + 1
    /\ InPacket => session.active /\ Len(tx.queue) < RingSize - 1
    /\ session.active => session.stream = host.stream
    /\ Own(host, InFlight(tx)) \/ (~session.active /\ Len(InFlight(tx)) <= 1)

Transport == Wired /\ (host.quiet => Undisturbed)
-----------------------------------------------------------------------------
(* Frames on their way. *)

LEMMA InFlightOK ==
    ASSUME NEW x \in Transmitter
    PROVE  /\ InFlight(x) \in Seq(Frame)
           /\ x.queue \in Seq(Frame) /\ Len(x.queue) \in Nat /\ Queued(x) \in Seq(Frame)
           /\ Len(InFlight(x)) \in Nat
           /\ x.line # "log" \/ x.sending = None => InFlight(x) = Queued(x)
           /\ x.buffer = None => Queued(x) = x.queue
<1> DEFINE one == IF x.line = "log" /\ x.sending # None THEN <<x.sending>> ELSE <<>>
           q == Queued(x)
<1>1. x.queue \in Seq(Frame) /\ x.sending \in Frame \cup {None} /\ x.buffer \in Frame \cup {None}
  BY DEF Transmitter
<1>2. one \in Seq(Frame)
  <2>1. CASE x.line = "log" /\ x.sending # None
    BY <1>1, <2>1
  <2>2. CASE ~(x.line = "log" /\ x.sending # None)
    BY <2>2
  <2> QED
    BY <2>1, <2>2
<1>3. InFlight(x) = one \o q
  BY DEF InFlight
<1>4. x.line # "log" \/ x.sending = None => one = <<>>
  OBVIOUS
<1>5. q \in Seq(Frame) /\ (x.buffer = None => q = x.queue)
  <2>1. CASE x.buffer = None
    BY <1>1, <2>1 DEF Queued
  <2>2. CASE x.buffer # None
    <3>1. <<x.buffer>> \in Seq(Frame)
      BY <1>1, <2>2
    <3>2. q = <<x.buffer>> \o x.queue
      BY <2>2 DEF Queued
    <3> QED
      BY <1>1, <2>2, <3>1, <3>2, ConcatProperties
  <2> QED
    BY <2>1, <2>2
<1> HIDE DEF one, q
<1>6. InFlight(x) \in Seq(Frame)
  BY <1>2, <1>3, <1>5, ConcatProperties
<1>7. x.line # "log" \/ x.sending = None => InFlight(x) = q
  BY <1>3, <1>4, <1>5, ConcatEmptySeq
<1> QED
  BY <1>1, <1>5, <1>6, <1>7, LenProperties DEF q

\* What is being sent comes first.
LEMMA InFlightSending ==
    ASSUME NEW x \in Transmitter, x.line = "log", x.sending # None
    PROVE  x.sending \in Frame /\ InFlight(x) = <<x.sending>> \o Queued(x)
BY DEF InFlight, Transmitter

LEMMA FramesConcat == \A a, b, c \in Seq(Frame) : (a \o b) \o c = a \o (b \o c)
<1> SUFFICES ASSUME NEW S, NEW a \in Seq(S), NEW b \in Seq(S), NEW c \in Seq(S)
             PROVE  (a \o b) \o c = a \o (b \o c)
  OBVIOUS
<1> QED
  BY ConcatAssociative

LEMMA HeadAndTail ==
    ASSUME NEW S, NEW q \in Seq(S), q # <<>>
    PROVE  <<Head(q)>> \o Tail(q) = q
<1>1. Head(q) \in S /\ Tail(q) \in Seq(S) /\ Len(Tail(q)) = Len(q) - 1 /\ Len(q) \in Nat
      /\ \A i \in 1 .. Len(Tail(q)) : Tail(q)[i] = q[i + 1]
  BY HeadTailProperties, LenProperties
<1>2. Len(<<Head(q)>>) = 1 /\ <<Head(q)>> \in Seq(S) /\ <<Head(q)>>[1] = q[1]
  BY <1>1
<1> DEFINE r == <<Head(q)>> \o Tail(q)
<1>3. /\ r \in Seq(S) /\ Len(r) = 1 + (Len(q) - 1)
      /\ \A i \in 1 .. 1 + (Len(q) - 1) :
            r[i] = IF i <= 1 THEN <<Head(q)>>[i] ELSE Tail(q)[i - 1]
  BY <1>1, <1>2, ConcatProperties
<1> HIDE DEF r
<1>4. \A i \in 1 .. Len(r) : r[i] = q[i]
  <2> SUFFICES ASSUME NEW i \in 1 .. Len(r) PROVE r[i] = q[i]
    OBVIOUS
  <2>1. CASE i = 1
    BY <1>1, <1>2, <1>3, <2>1
  <2>2. CASE i # 1
    <3>1. i - 1 \in 1 .. Len(Tail(q)) /\ (i - 1) + 1 = i
      BY <1>1, <1>3, <2>2
    <3>2. Tail(q)[i - 1] = q[i]
      BY <1>1, <3>1
    <3> QED
      BY <1>1, <1>3, <2>2, <3>2
  <2> QED
    BY <2>1, <2>2
<1>5. r = q
  BY <1>1, <1>3, <1>4, SeqEqual
<1> QED
  BY <1>5 DEF r

\* A transmitter that is where the code believes it to be loses no frame.
LEMMA TryTxFlight ==
    ASSUME NEW x \in Transmitter, Clean(x), x.buffer = None
    PROVE  InFlight(TryTx(x)) = InFlight(x) /\ Clean(TryTx(x))
<1>1. x.queue \in Seq(Frame) /\ x.line \in {"idle", "log", "bridge"}
      /\ x.log_busy \in BOOLEAN /\ x.bridge_busy \in BOOLEAN
  BY DEF Transmitter
<1>2. CASE UartTaken(x) \/ x.queue = <<>>
  BY <1>2, TryTxIs
<1>3. CASE ~(UartTaken(x) \/ x.queue = <<>>)
  <2> DEFINE y == TryTx(x)
  <2>1. x.line = "idle"
    BY <1>1, <1>3 DEF Clean, UartTaken, BridgeIdle
  <2>2. /\ y \in Transmitter /\ Head(x.queue) \in Frame
        /\ y.queue = Tail(x.queue) /\ y.line = "log" /\ y.sending = Head(x.queue)
        /\ y.buffer = None /\ y.log_busy /\ y.bridge_busy = x.bridge_busy
    BY <1>3, <2>1, TryTxIs
  <2> HIDE DEF y
  <2>3. y.sending # None
    BY <2>2, NoneIsNoFrame
  <2>4. InFlight(y) = <<Head(x.queue)>> \o Tail(x.queue)
    BY <2>2, <2>3 DEF InFlight, Queued
  <2>5. InFlight(y) = x.queue
    BY <1>1, <1>3, <2>4, HeadAndTail
  <2>6. InFlight(x) = x.queue
    BY <2>1, InFlightOK
  <2>7. Clean(y)
    BY <2>1, <2>2, <2>3 DEF Clean
  <2> QED
    BY <2>5, <2>6, <2>7 DEF y
<1> QED
  BY <1>2, <1>3

LEMMA SendFlight ==
    ASSUME NEW x \in Transmitter, Len(x.queue) < RingSize - 1, x.buffer = None, NEW f \in Frame
    PROVE  /\ InFlight(SendFrame(x, f)) = InFlight(x) \o <<f>>
           /\ Len(SendFrame(x, f).queue) = Len(x.queue) + 1
           /\ Clean(x) => Clean(SendFrame(x, f))
<1> DEFINE y == SendFrame(x, f)
           one == IF x.line = "log" /\ x.sending # None THEN <<x.sending>> ELSE <<>>
<1>1. x.queue \in Seq(Frame) /\ Len(x.queue) \in Nat /\ x.sending \in Frame \cup {None}
  BY DEF Transmitter
<1>2. y = [x EXCEPT !.queue = Append(x.queue, f)]
  <2>1. Len(x.queue) # RingSize - 1
    BY <1>1, Sizes
  <2> QED
    BY <2>1 DEF SendFrame
<1>3. /\ y.queue = Append(x.queue, f) /\ y.line = x.line /\ y.sending = x.sending
      /\ y.buffer = None /\ y.log_busy = x.log_busy /\ y.bridge_busy = x.bridge_busy
  BY <1>2 DEF Transmitter
<1>4. one \in Seq(Frame)
  <2>1. CASE x.line = "log" /\ x.sending # None
    BY <1>1, <2>1
  <2>2. CASE ~(x.line = "log" /\ x.sending # None)
    BY <2>2
  <2> QED
    BY <2>1, <2>2
<1>5. InFlight(x) = one \o x.queue
  BY DEF InFlight, Queued
<1>6. InFlight(y) = one \o Append(x.queue, f)
  BY <1>3 DEF InFlight, Queued
<1> HIDE DEF y, one
<1>7. Append(x.queue, f) = x.queue \o <<f>> /\ <<f>> \in Seq(Frame)
  BY <1>1, AppendIsConcat
<1>8. InFlight(y) = InFlight(x) \o <<f>>
  <2>1. (one \o x.queue) \o <<f>> = one \o (x.queue \o <<f>>)
    BY <1>1, <1>4, <1>7, FramesConcat, Zenon
  <2> QED
    BY <1>5, <1>6, <1>7, <2>1
<1>9. Len(y.queue) = Len(x.queue) + 1
  BY <1>1, <1>3
<1>10. Clean(x) => Clean(y)
  BY <1>3 DEF Clean
<1> QED
  BY <1>8, <1>9, <1>10 DEF y

LEMMA SendFramesFlight ==
    ASSUME NEW x \in Transmitter, Len(x.queue) < RingSize - 1, x.buffer = None, NEW frames,
           frames = <<>> \/ \E f \in Frame : frames = <<f>>
    PROVE  /\ InFlight(Send(x, frames)) = InFlight(x) \o frames
           /\ Len(Send(x, frames).queue) <= Len(x.queue) + 1
           /\ Clean(x) => Clean(Send(x, frames))
<1>1. CASE frames = <<>>
  BY <1>1, InFlightOK, ConcatEmptySeq DEF Send
<1>2. CASE \E f \in Frame : frames = <<f>>
  <2>1. PICK f \in Frame : frames = <<f>>
    BY <1>2
  <2>2. Send(x, frames) = SendFrame(x, f)
    BY <2>1 DEF Send
  <2>3. Len(x.queue) \in Nat
    BY InFlightOK
  <2> QED
    BY <2>1, <2>2, <2>3, SendFlight
<1> QED
  BY <1>1, <1>2

\* The end of a frame.
LEMMA TxDoneFlight ==
    ASSUME NEW x \in Transmitter, Len(x.queue) < RingSize, Clean(x), x.line # "idle",
           x.buffer = None,
           NEW z \in Transmitter, z.line = "idle", z.sending = None, z.queue = x.queue,
           z.buffer = None, z.log_busy = x.log_busy, z.bridge_busy = x.bridge_busy,
           NEW y, y = TxDone(z)
    PROVE  /\ Clean(y) /\ Len(y.queue) <= Len(x.queue)
           /\ x.line = "log" => InFlight(x) = <<x.sending>> \o InFlight(y)
           /\ x.line = "bridge" => InFlight(x) = InFlight(y)
<1> DEFINE v == [z EXCEPT !.log_busy = FALSE]
<1>1. /\ x.queue \in Seq(Frame) /\ x.line \in {"idle", "log", "bridge"}
      /\ x.log_busy \in BOOLEAN /\ x.bridge_busy \in BOOLEAN /\ Len(x.queue) \in Nat
  BY DEF Transmitter
<1>2. z \in Transmitter /\ v \in Transmitter
  BY DEF Transmitter
<1>3. /\ v.buffer = None
      /\ v.line = "idle" /\ v.sending = None /\ v.queue = x.queue
      /\ v.log_busy = FALSE /\ v.bridge_busy = x.bridge_busy
  BY DEF Transmitter
<1>4. y = [(IF z.log_busy THEN TryTx([z EXCEPT !.log_busy = FALSE]) ELSE z)
              EXCEPT !.bridge_busy = FALSE]
  BY DEF TxDone
<1>5. CASE x.line = "log"
  <2>1. x.log_busy /\ ~x.bridge_busy /\ x.sending # None
    BY <1>1, <1>5 DEF Clean
  <2>2. y = [TryTx(v) EXCEPT !.bridge_busy = FALSE]
    BY <1>3, <1>4, <2>1
  <2>3. Clean(v)
    BY <1>3, <2>1 DEF Clean
  <2> HIDE DEF v
  <2>4. InFlight(TryTx(v)) = InFlight(v) /\ Clean(TryTx(v)) /\ TryTx(v) \in Transmitter
        /\ Len(TryTx(v).queue) <= Len(x.queue) /\ TryTx(v).buffer = None
    BY <1>2, <1>3, <2>3, TryTxFlight, TryTxOK
  <2>5. ~TryTx(v).bridge_busy
    <3>1. ~v.bridge_busy
      BY <1>3, <2>1
    <3>2. TryTx(v).bridge_busy = v.bridge_busy
      BY <1>2, TryTxIs
    <3> QED
      BY <3>1, <3>2
  <2>6. /\ y.queue = TryTx(v).queue /\ y.line = TryTx(v).line /\ y.sending = TryTx(v).sending
        /\ y.buffer = TryTx(v).buffer
        /\ y.log_busy = TryTx(v).log_busy /\ ~y.bridge_busy
    BY <2>2, <2>4 DEF Transmitter
  <2>7. InFlight(y) = InFlight(TryTx(v)) /\ Clean(y)
    BY <2>4, <2>5, <2>6 DEF InFlight, Queued, Clean
  <2>8. InFlight(v) = x.queue
    BY <1>2, <1>3, InFlightOK
  <2>9. InFlight(x) = <<x.sending>> \o x.queue
    BY <1>5, <2>1, InFlightSending DEF Queued
  <2> QED
    BY <1>5, <2>4, <2>6, <2>7, <2>8, <2>9
<1>6. CASE x.line = "bridge"
  <2>1. ~x.log_busy
    BY <1>1, <1>6 DEF Clean
  <2>2. y = [z EXCEPT !.bridge_busy = FALSE]
    BY <1>3, <1>4, <2>1
  <2>3. /\ y.queue = x.queue /\ y.line = "idle" /\ y.sending = None
        /\ y.buffer = None /\ ~y.log_busy /\ ~y.bridge_busy
    BY <1>2, <1>3, <2>1, <2>2 DEF Transmitter
  <2>4. Clean(y)
    BY <2>3 DEF Clean
  <2>5. InFlight(y) = <<>> \o x.queue /\ InFlight(x) = <<>> \o x.queue
    BY <1>6, <2>3 DEF InFlight, Queued
  <2> QED
    BY <1>1, <1>6, <2>3, <2>4, <2>5
<1> QED
  BY <1>1, <1>5, <1>6
-----------------------------------------------------------------------------
(* The stream as far as it has been sent. *)

\* A frame in front of others.
InFront(f, q) == <<f>> \o q

\* A frame that arrives only moves from the line to the host.
LEMMA FlowReceived ==
    ASSUME NEW h \in Host, NEW f \in Frame, NEW q \in Seq(Frame), NEW p, p = InFront(f, q),
           h.stream = 0 => h.heard = <<>>, Own(h, p) \/ Len(p) <= 1
    PROVE  /\ FlowOf(Received(h, f), q) = FlowOf(h, p)
           /\ Own(h, p) => Own(Received(h, f), q)
           /\ Len(q) < Len(p)
<1> DEFINE g == Received(h, f)
<1>1. /\ h.stream \in Nat /\ h.heard \in Seq(Frame) /\ Len(q) \in Nat
      /\ <<f>> \in Seq(Frame) /\ Len(<<f>>) = 1 /\ <<f>>[1] = f
  BY DEF Host
<1>2. /\ p \in Seq(Frame) /\ Len(p) = 1 + Len(q)
      /\ \A i \in 1 .. 1 + Len(q) : p[i] = IF i <= 1 THEN <<f>>[i] ELSE q[i - 1]
      /\ p = <<f>> \o q
  BY <1>1, ConcatProperties DEF InFront
<1>3. /\ g.stream = h.stream
      /\ g.heard = IF f.stream = h.stream /\ h.stream # 0 THEN Append(h.heard, f) ELSE h.heard
  BY NoneIsNoFrame DEF Received, Host
<1>4. CASE Own(h, p)
  <2>1. h.stream # 0 /\ f.stream = h.stream
    BY <1>1, <1>2, <1>4 DEF Own
  <2>2. \A i \in 1 .. Len(q) : q[i].stream = h.stream
    <3> SUFFICES ASSUME NEW i \in 1 .. Len(q) PROVE q[i].stream = h.stream
      OBVIOUS
    <3>1. i + 1 \in 1 .. 1 + Len(q) /\ ~(i + 1 <= 1) /\ (i + 1) - 1 = i
      BY <1>1
    <3>2. p[i + 1] = q[i]
      BY <1>2, <3>1
    <3> QED
      BY <1>2, <1>4, <3>1, <3>2 DEF Own
  <2>3. Own(g, q)
    BY <1>3, <2>1, <2>2 DEF Own
  <2>4. g.heard = h.heard \o <<f>>
    BY <1>1, <1>3, <2>1, AppendIsConcat
  <2>5. (h.heard \o <<f>>) \o q = h.heard \o p
    <3>1. (h.heard \o <<f>>) \o q = h.heard \o (<<f>> \o q)
      BY <1>1, FramesConcat, Zenon
    <3> QED
      BY <1>2, <3>1
  <2>6. FlowOf(g, q) = FlowOf(h, p)
    BY <1>4, <2>3, <2>4, <2>5 DEF FlowOf
  <2> QED
    BY <1>1, <1>2, <2>3, <2>6
<1>5. CASE ~Own(h, p)
  <2>1. q = <<>> /\ p = <<f>>
    <3>1. Len(q) = 0
      BY <1>1, <1>2, <1>5
    <3>2. q = <<>>
      BY <3>1, EmptySeq
    <3>3. <<f>> \o <<>> = <<f>>
      BY <1>1, ConcatEmptySeq
    <3> QED
      BY <1>2, <3>2, <3>3
  <2>2. ~(f.stream = h.stream /\ h.stream # 0)
    BY <1>5, <2>1 DEF Own
  <2>3. g.heard = h.heard
    BY <1>3, <2>2
  <2>4. FlowOf(g, q) = h.heard
    BY <1>1, <2>1, <2>3, ConcatEmptySeq DEF FlowOf
  <2>5. FlowOf(h, p) = h.heard
    BY <1>5 DEF FlowOf
  <2> QED
    BY <1>1, <1>2, <1>5, <2>4, <2>5
<1> QED
  BY <1>4, <1>5

LEMMA FlowAppend ==
    ASSUME NEW h \in Host, NEW p \in Seq(Frame), Own(h, p), NEW frames,
           frames = <<>> \/ \E f \in Frame : frames = <<f>> /\ f.stream = h.stream
    PROVE  Own(h, p \o frames) /\ FlowOf(h, p \o frames) = FlowOf(h, p) \o frames
<1>1. h.heard \in Seq(Frame) /\ Len(p) \in Nat
  BY DEF Host
<1>2. CASE frames = <<>>
  <2>1. p \o frames = p /\ (h.heard \o p) \o frames = h.heard \o p
    BY <1>1, <1>2, ConcatProperties, ConcatEmptySeq
  <2> QED
    BY <2>1 DEF FlowOf
<1>3. CASE \E f \in Frame : frames = <<f>> /\ f.stream = h.stream
  <2>1. PICK f \in Frame : frames = <<f>> /\ f.stream = h.stream
    BY <1>3
  <2>2. frames \in Seq(Frame) /\ Len(frames) = 1 /\ frames[1] = f
    BY <2>1
  <2>3. /\ Len(p \o frames) = Len(p) + 1
        /\ \A i \in 1 .. Len(p) + 1 : (p \o frames)[i] = IF i <= Len(p) THEN p[i]
                                                                   ELSE frames[i - Len(p)]
    BY <2>2, ConcatProperties
  <2>4. Own(h, p \o frames)
    <3> SUFFICES ASSUME NEW i \in 1 .. Len(p \o frames)
                 PROVE  (p \o frames)[i].stream = h.stream
      BY DEF Own
    <3>1. CASE i <= Len(p)
      BY <1>1, <2>3, <3>1 DEF Own
    <3>2. CASE ~(i <= Len(p))
      <4>1. i - Len(p) = 1
        BY <1>1, <2>3, <3>2
      <4> QED
        BY <2>1, <2>2, <2>3, <3>2, <4>1
    <3> QED
      BY <3>1, <3>2
  <2>5. h.heard \o (p \o frames) = (h.heard \o p) \o frames
    BY <1>1, <2>2, FramesConcat, Zenon
  <2> QED
    BY <2>4, <2>5 DEF FlowOf
<1> QED
  BY <1>2, <1>3

\* With nothing on its way the host has the whole stream.
LEMMA FlowEmpty ==
    ASSUME NEW h \in Host
    PROVE  FlowOf(h, <<>>) = h.heard
BY ConcatEmptySeq DEF FlowOf, Host

\* An answer that opens no stream is not part of one.
LEMMA FlowForeign ==
    ASSUME NEW h \in Host, NEW f \in Frame, f.stream = 0
    PROVE  FlowOf(h, <<f>>) = h.heard
BY DEF FlowOf, Own

LEMMA OwnOfSame ==
    ASSUME NEW h, NEW g, NEW p, h.stream = g.stream, h.heard = g.heard
    PROVE  (Own(h, p) <=> Own(g, p)) /\ FlowOf(h, p) = FlowOf(g, p)
BY DEF FlowOf, Own
-----------------------------------------------------------------------------
(* The stream of a session. *)

LEMMA BeginPacketKeeps ==
    ASSUME NEW s \in Session
    PROVE  /\ BeginPacket(s).stream = s.stream /\ BeginPacket(s).pkt_num = s.pkt_num
           /\ BeginPacket(s).first_packet = s.first_packet /\ BeginPacket(s).mode = s.mode
           /\ BeginPacket(s).end_logical = s.end_logical
           /\ BeginPacket(s).active => s.active
BY DEF BeginPacket, Session

LEMMA EndPacketIs ==
    ASSUME NEW s \in Session, NEW tier_end, NEW error, NEW entries \in Seq(Record),
           NEW p, p = EndPacket(s, tier_end, error, entries),
           NEW flags, flags = PacketFlags(s, tier_end, error)
    PROVE  /\ p.session.stream = s.stream
           /\ p.session.next_logical = s.next_logical /\ p.session.cur_tier = s.cur_tier
           /\ p.session.mode = s.mode /\ p.session.end_logical = s.end_logical
           /\ entries = <<>> =>
                /\ p.frames = <<>> /\ ~p.session.active
                /\ p.session.pkt_num = s.pkt_num /\ p.session.first_packet = s.first_packet
           /\ entries # <<>> =>
                /\ p.session.pkt_num = s.pkt_num + 1 /\ ~p.session.first_packet
                /\ p.session.active <=> s.active /\ "LAST" \notin flags
                /\ p.frames = <<[type |-> "data", stream |-> s.stream, pkt_num |-> s.pkt_num,
                                 tier |-> s.cur_tier, flags |-> flags, entries |-> entries]>>
<1> DEFINE t == [s EXCEPT !.first_packet = FALSE, !.pkt_num = @ + 1,
                          !.active = @ /\ "LAST" \notin flags]
           f == [type |-> "data", stream |-> s.stream, pkt_num |-> s.pkt_num,
                 tier |-> s.cur_tier, flags |-> flags, entries |-> entries]
<1>1. CASE entries = <<>>
  <2>1. p.frames = <<>> /\ p.session = [s EXCEPT !.active = FALSE]
    BY <1>1 DEF EndPacket
  <2> QED
    BY <1>1, <2>1 DEF Session
<1>2. CASE entries # <<>>
  <2>1. p.frames = <<f>> /\ p.session = t
    BY <1>2 DEF EndPacket
  <2>2. /\ t.stream = s.stream /\ t.next_logical = s.next_logical /\ t.cur_tier = s.cur_tier
        /\ t.mode = s.mode /\ t.end_logical = s.end_logical /\ t.pkt_num = s.pkt_num + 1
        /\ t.first_packet = FALSE /\ t.active = (s.active /\ "LAST" \notin flags)
    BY DEF Session
  <2> HIDE DEF t
  <2> QED
    BY <1>2, <2>1, <2>2
<1> QED
  BY <1>1, <1>2

LEMMA EndPacketStream ==
    ASSUME NEW s \in Session, NEW tier_end, NEW error, NEW entries \in Seq(Record)
    PROVE  /\ EndPacket(s, tier_end, error, entries).session.stream = s.stream
           /\ EndPacket(s, tier_end, error, entries).session.active => s.active
           /\ \/ EndPacket(s, tier_end, error, entries).frames = <<>>
              \/ \E f \in Frame : /\ EndPacket(s, tier_end, error, entries).frames = <<f>>
                                 /\ f.stream = s.stream
<1> DEFINE p == EndPacket(s, tier_end, error, entries)
           flags == PacketFlags(s, tier_end, error)
           f == [type |-> "data", stream |-> s.stream, pkt_num |-> s.pkt_num,
                 tier |-> s.cur_tier, flags |-> flags, entries |-> entries]
<1>1. p.frames = <<>> \/ \E g \in Frame : p.frames = <<g>>
  BY EndPacketOK
<1>2. p.session.stream = s.stream /\ (p.session.active => s.active)
      /\ (entries = <<>> => p.frames = <<>>) /\ (entries # <<>> => p.frames = <<f>>)
  BY EndPacketIs
<1>3. CASE entries # <<>>
  <2>1. p.frames = <<f>> /\ f.stream = s.stream
    BY <1>2, <1>3
  <2> HIDE DEF f
  <2>2. p.frames[1] = f /\ p.frames # <<>>
    BY <2>1
  <2>3. PICK g \in Frame : p.frames = <<g>>
    BY <1>1, <2>2
  <2>4. g = f
    BY <2>2, <2>3
  <2> QED
    BY <1>2, <2>1, <2>3, <2>4
<1>4. /\ p.session.stream = s.stream
      /\ p.session.active => s.active
      /\ p.frames = <<>> \/ \E g \in Frame : p.frames = <<g>> /\ g.stream = s.stream
  BY <1>2, <1>3
<1> QED
  BY <1>4

LEMMA WholePacketStream ==
    ASSUME log \in [Tier -> Nat], NEW s \in Session, s.active,
           NEW failing \in {NoFailure} \cup Wanted(s), NEW p, p = WholePacket(s, failing)
    PROVE  /\ p.session.stream = s.stream
           /\ p.frames = <<>> \/ \E f \in Frame : p.frames = <<f>> /\ f.stream = s.stream
<1>1. CASE ~BeginPacket(s).active
  <2>1. p.session = BeginPacket(s) /\ p.frames = <<>>
    BY <1>1 DEF WholePacket
  <2> QED
    BY <2>1, BeginPacketKeeps
<1>2. CASE BeginPacket(s).active
  <2> DEFINE b == BeginPacket(s)
             t(n) == [b EXCEPT !.next_logical = @ + n]
  <2>1. PICK n \in Nat, entries \in Seq(Record) :
           /\ t(n) \in Session
           /\ p = EndPacket(t(n), b.end_logical[b.cur_tier], failing # NoFailure, entries)
    BY <1>2, WholePacketIs
  <2>2. b \in Session /\ b.stream = s.stream
    BY BeginPacketOK, BeginPacketKeeps
  <2>3. t(n).stream = s.stream
    BY <2>2 DEF Session
  <2> DEFINE u == t(n)
             last == b.end_logical[b.cur_tier]
             error == failing # NoFailure
  <2>4. u \in Session /\ u.stream = s.stream /\ p = EndPacket(u, last, error, entries)
    BY <2>1, <2>3
  <2> HIDE DEF u, last, error
  <2>5. /\ p.session.stream = u.stream
        /\ p.frames = <<>> \/ \E f \in Frame : p.frames = <<f>> /\ f.stream = u.stream
    BY <2>4, EndPacketStream
  <2> QED
    BY <2>4, <2>5
<1> QED
  BY <1>1, <1>2

\* What START_DUMP makes of a session that rests.
Opened(s, mode, start) ==
    /\ s.active /\ s.stream = panel.next_stream /\ s.pkt_num = 0 /\ s.first_packet
    /\ s.mode = mode
    /\ \A t \in Tier : s.end_logical[t] = IF mode \in {t, "both"} THEN TotalRecords(t) ELSE 0
    /\ IF mode = "both" /\ start >= TotalRecords("critical")
       THEN s.cur_tier = "general" /\ s.next_logical = start - TotalRecords("critical")
       ELSE s.cur_tier = (IF mode = "both" THEN "critical" ELSE mode) /\ s.next_logical = start

Records(mode) ==
    IF mode = "both" THEN TotalRecords("critical") + TotalRecords("general")
                     ELSE TotalRecords(mode)

LEMMA StartDumpIs ==
    ASSUME TypeOK, NEW mode \in Tier \cup {"both"}, NEW start \in Nat,
           NEW d, d = StartDump(session, mode, start)
    PROVE  /\ session.active => d.session = session /\ d.rsp = Response("BUSY", 0, 0)
           /\ ~session.active =>
                \/ /\ ~d.session.active /\ d.session.stream = panel.next_stream
                   /\ d.rsp = Response("OUT_OF_RANGE", 0, 0)
                \/ /\ d.session = NoSession /\ start = Records(mode)
                   /\ d.rsp = Response("OK", panel.next_stream, 0)
                \/ /\ Opened(d.session, mode, start) /\ start < Records(mode)
                   /\ d.rsp = Response("OK", panel.next_stream, Records(mode) - start)
<1> DEFINE crit == TotalRecords("critical")
           gen == TotalRecords("general")
           in_critical == mode = "critical" \/ (mode = "both" /\ start < crit)
           records == CASE mode = "critical" -> crit
                        [] mode = "general" -> gen
                        [] mode = "both" -> crit + gen
           fresh == [NoSession EXCEPT !.stream = panel.next_stream, !.mode = mode,
                                      !.first_packet = TRUE]
           first == IF mode = "both" /\ ~in_critical THEN start - crit ELSE start
           ends == [t \in Tier |-> IF mode \in {t, "both"} THEN TotalRecords(t) ELSE 0]
           tier == IF in_critical THEN "critical" ELSE "general"
           opened == [fresh EXCEPT !.active = TRUE, !.cur_tier = tier, !.next_logical = first,
                                   !.end_logical = ends]
<1>1. /\ session \in Session /\ panel.next_stream \in Nat /\ log \in [Tier -> Nat]
      /\ session.active \in BOOLEAN
  BY TypeParts DEF Session, Panel
<1>2. crit \in Nat /\ gen \in Nat
  BY <1>1, TotalOK DEF Tier
<1>3. records = Records(mode) /\ records \in Nat
  BY <1>2 DEF Tier, Records
<1>4. d = CASE session.active -> [session |-> session, rsp |-> Response("BUSY", 0, 0)]
            [] ~session.active /\ start > records ->
                  [session |-> fresh, rsp |-> Response("OUT_OF_RANGE", 0, 0)]
            [] ~session.active /\ start = records ->
                  [session |-> NoSession, rsp |-> Response("OK", panel.next_stream, 0)]
            [] ~session.active /\ start < records ->
                  [session |-> opened, rsp |-> Response("OK", panel.next_stream, records - start)]
  BY DEF StartDump
<1>5. ~fresh.active /\ fresh.stream = panel.next_stream /\ fresh.pkt_num = 0 /\ fresh.mode = mode
      /\ fresh.first_packet
  BY DEF NoSession
<1>6. /\ opened.active /\ opened.stream = panel.next_stream /\ opened.pkt_num = 0
      /\ opened.mode = mode /\ opened.first_packet /\ opened.cur_tier = tier
      /\ opened.next_logical = first /\ opened.end_logical = ends
  <2> HIDE DEF tier, first, ends
  <2> QED
    BY DEF NoSession
<1>7. \A t \in Tier : ends[t] = IF mode \in {t, "both"} THEN TotalRecords(t) ELSE 0
  OBVIOUS
<1>8. IF mode = "both" /\ start >= crit
      THEN tier = "general" /\ first = start - crit
      ELSE tier = (IF mode = "both" THEN "critical" ELSE mode) /\ first = start
  BY <1>2 DEF Tier
<1> HIDE DEF fresh, opened, records, in_critical, first, ends, tier
<1>9. Opened(opened, mode, start)
  BY <1>6, <1>7, <1>8 DEF Opened
<1>10. CASE session.active
  BY <1>4, <1>10
<1>11. CASE ~session.active /\ start > records
  <2>1. d.session = fresh /\ d.rsp = Response("OUT_OF_RANGE", 0, 0)
    BY <1>3, <1>4, <1>11
  <2> QED
    BY <1>5, <1>11, <2>1
<1>12. CASE ~session.active /\ start = records
  <2>1. d.session = NoSession /\ d.rsp = Response("OK", panel.next_stream, 0)
    BY <1>3, <1>4, <1>12
  <2> QED
    BY <1>3, <1>12, <2>1
<1>13. CASE ~session.active /\ start < records
  <2>1. d.session = opened /\ d.rsp = Response("OK", panel.next_stream, records - start)
    BY <1>3, <1>4, <1>13
  <2> QED
    BY <1>3, <1>9, <1>13, <2>1
<1> QED
  BY <1>3, <1>10, <1>11, <1>12, <1>13
-----------------------------------------------------------------------------
(* Whatever happens. *)

LEMMA TryTxWired ==
    ASSUME NEW x \in Transmitter, WiredTx(x)
    PROVE  WiredTx(TryTx(x))
<1>1. x.line \in {"idle", "log", "bridge"} /\ x.bridge_busy \in BOOLEAN
  BY DEF Transmitter
<1>2. CASE UartTaken(x) \/ x.queue = <<>>
  BY <1>2, TryTxIs
<1>3. CASE ~(UartTaken(x) \/ x.queue = <<>>)
  <2>1. ~TryTx(x).bridge_busy
    BY <1>3, TryTxIs DEF UartTaken, BridgeIdle
  <2>2. TryTx(x).line # "log" => TryTx(x).sending = None
    <3>1. CASE x.line \in {"idle", "log"}
      BY <1>3, <3>1, TryTxIs
    <3>2. CASE x.line = "bridge"
      BY <1>3, <3>2, TryTxIs DEF WiredTx
    <3> QED
      BY <1>1, <3>1, <3>2
  <2> QED
    BY <2>1, <2>2 DEF WiredTx
<1> QED
  BY <1>2, <1>3

LEMMA SendWired ==
    ASSUME NEW x \in Transmitter, WiredTx(x), NEW f
    PROVE  WiredTx(SendFrame(x, f))
<1> DEFINE q == Append(IF Len(x.queue) = RingSize - 1 THEN Tail(x.queue) ELSE x.queue, f)
<1>1. SendFrame(x, f) = [x EXCEPT !.queue = q]
  BY DEF SendFrame
<1> HIDE DEF q
<1> QED
  BY <1>1 DEF WiredTx, Transmitter

LEMMA SendFramesWired ==
    ASSUME NEW x \in Transmitter, WiredTx(x), NEW frames
    PROVE  WiredTx(Send(x, frames))
BY SendWired DEF Send

LEMMA TxDoneWired ==
    ASSUME NEW x \in Transmitter, Len(x.queue) < RingSize, WiredTx(x)
    PROVE  WiredTx(TxDone(x))
<1> DEFINE y == [x EXCEPT !.log_busy = FALSE]
           z == IF x.log_busy THEN TryTx(y) ELSE x
<1>1. y \in Transmitter /\ Len(y.queue) < RingSize /\ WiredTx(y)
  BY DEF Transmitter, WiredTx
<1>2. z \in Transmitter /\ WiredTx(z)
  <2> HIDE DEF y
  <2> QED
    BY <1>1, TryTxOK, TryTxWired
<1>3. TxDone(x) = [z EXCEPT !.bridge_busy = FALSE]
  BY DEF TxDone
<1> HIDE DEF z
<1> QED
  BY <1>2, <1>3 DEF Transmitter, WiredTx

LEMMA WiredInit == Init => Wired
BY DEF Init, Wired, WiredTx

LEMMA WiredTxNext ==
    ASSUME TypeOK, WiredTx(tx), [Next]_vars
    PROVE  WiredTx(tx')
<1>0. tx \in Transmitter /\ Len(tx.queue) < RingSize
  BY TypeParts
<1>1. ASSUME NEW f \in Frame
      PROVE  WiredTx(TryTx(SendFrame(tx, f)))
  BY <1>0, SendOK, SendWired, TryTxWired
<1>2. ASSUME NEW frames, frames = <<>> \/ \E f \in Frame : frames = <<f>>
      PROVE  WiredTx(Send(tx, frames)) /\ WiredTx(TryTx(Send(tx, frames)))
  BY <1>0, <1>2, SendFramesOK, SendFramesWired, TryTxWired
<1>4. ASSUME NEW mode \in Tier \cup {"both"}, NEW start \in Starts, RequestStart(mode, start)
      PROVE  WiredTx(tx')
  <2>1. StartDump(session, mode, start).rsp \in Frame
    BY StartDumpOK, SurroundingsAssumption
  <2> QED
    BY <1>1, <1>4, <2>1 DEF RequestStart
<1>5. CASE RequestStop \/ RequestOther
  BY <1>1, <1>5, ResponseOK DEF RequestStop, RequestOther
<1>6. ASSUME NEW failing \in {NoFailure} \cup Wanted(session), Pump(failing)
      PROVE  WiredTx(tx')
  <2> DEFINE p == IF session.active THEN WholePacket(session, failing)
                  ELSE [session |-> session, frames |-> <<>>]
  <2>1. p.frames = <<>> \/ \E f \in Frame : p.frames = <<f>>
    BY WholePacketOK, TypeParts
  <2>2. tx' = TryTx(Send(tx, p.frames))
    BY <1>6 DEF Pump
  <2> HIDE DEF p
  <2> QED
    BY <1>2, <2>1, <2>2
<1>7. ASSUME NEW s \in Session, NEW error, NEW entries \in Seq(Record),
             FinishPacket(s, error, entries)
      PROVE  WiredTx(tx')
  <2> DEFINE p == EndPacket(s, loop.tier_end, error, entries)
  <2>1. p.frames = <<>> \/ \E f \in Frame : p.frames = <<f>>
    BY EndPacketOK
  <2>2. tx' = Send(tx, p.frames)
    BY <1>7 DEF FinishPacket
  <2> HIDE DEF p
  <2> QED
    BY <1>2, <2>1, <2>2
<1>8. CASE ReadRecordFails
  <2>1. FinishPacket(session, TRUE, loop.entries) /\ loop.entries \in Seq(Record)
    BY <1>8, TypeParts DEF ReadRecordFails, Loop
  <2> QED
    BY <1>7, <2>1, TypeParts
<1>9. CASE StoreRecord
  <2> DEFINE entries == Append(loop.entries,
                               [label |-> session.next_logical, record |-> loop.record])
             s == [session EXCEPT !.next_logical = @ + 1]
  <2>1. entries \in Seq(Record)
    BY TypeParts DEF Loop, Record, Session
  <2>2. session.next_logical + 1 \in Nat /\ session \in Session
    BY TypeParts DEF Session
  <2>3. s \in Session
    BY <2>2 DEF Session
  <2>4. tx' = tx \/ FinishPacket(s, FALSE, entries)
    BY <1>9 DEF StoreRecord
  <2> HIDE DEF entries, s
  <2> QED
    BY <1>7, <2>1, <2>3, <2>4
<1>10. CASE CopyFrame \/ CopyCrossed \/ SendBuffer \/ MarkBusy
  <2>1. CASE CopyFrame
    <3> DEFINE q == Tail(tx.queue)
               v == IF tx.line = "log" THEN None ELSE tx.sending
               g == Head(tx.queue)
    <3>1. tx' = [tx EXCEPT !.queue = q, !.sending = v, !.buffer = g]
      BY <2>1 DEF CopyFrame, Copied
    <3>2. tx.line # "log" => v = None
      BY DEF WiredTx
    <3> HIDE DEF q, v, g
    <3> QED
      BY <1>0, <3>1, <3>2 DEF WiredTx, Transmitter
  <2>2. CASE CopyCrossed
    <3>1. PICK buffer \in {loop.frame, Torn},
               sending \in IF tx.line = "log" THEN {tx.sending, None} ELSE {tx.sending},
               queue \in (IF tx.queue = <<>> THEN {} ELSE {Tail(tx.queue)})
                         \cup {[i \in 1 .. n |-> loop.frame] \o tx.queue :
                                 n \in 0 .. RingSize - 1 - Len(tx.queue)} :
              tx' = [tx EXCEPT !.buffer = buffer, !.sending = sending, !.queue = queue]
      BY <2>2, Zenon DEF CopyCrossed
    <3>2. tx.line # "log" => sending = tx.sending
      OBVIOUS
    <3>3. tx'.line = tx.line /\ tx'.sending = sending /\ tx'.bridge_busy = tx.bridge_busy
      BY <1>0, <3>1 DEF Transmitter
    <3> QED
      BY <3>2, <3>3 DEF WiredTx
  <2>3. CASE SendBuffer
    <3>1. CASE tx.line = "idle"
      <4>1. tx' = [tx EXCEPT !.buffer = None, !.line = "log", !.sending = tx.buffer]
        BY <2>3, <3>1 DEF SendBuffer
      <4> QED
        BY <1>0, <3>1, <4>1 DEF WiredTx, Transmitter
    <3>2. CASE tx.line # "idle"
      <4>1. tx' = [tx EXCEPT !.buffer = None]
        BY <2>3, <3>2 DEF SendBuffer
      <4> QED
        BY <1>0, <4>1 DEF WiredTx, Transmitter
    <3> QED
      BY <3>1, <3>2
  <2>4. CASE MarkBusy
    <3>1. tx' = [tx EXCEPT !.log_busy = TRUE]
      BY <2>4 DEF MarkBusy
    <3> QED
      BY <1>0, <3>1 DEF WiredTx, Transmitter
  <2> QED
    BY <1>10, <2>1, <2>2, <2>3, <2>4
<1>3. CASE LogTransport_Process \/ PumpEnds \/ LookAtRing
  BY <1>3 DEF LogTransport_Process, PumpEnds, LookAtRing
<1>11. CASE NextPacket \/ ReadRecord \/ (\E t \in Tier : PostEvent(t)) \/ EspOn
  BY <1>11 DEF NextPacket, ReadRecord, PostEvent, EspOn
<1>12. CASE CanMirror
  <2>1. tx' = [tx EXCEPT !.bridge = 1]
    BY <1>12 DEF CanMirror
  <2> QED
    BY <1>0, <2>1 DEF WiredTx, Transmitter
<1>13. CASE BridgeTx
  <2>1. /\ tx' = [tx EXCEPT !.bridge = 0, !.bridge_busy = TRUE, !.line = "bridge"]
        /\ tx.line = "idle"
    BY <1>13 DEF BridgeTx
  <2> QED
    BY <1>0, <2>1 DEF WiredTx, Transmitter
<1>14. CASE EspOff
  <2>1. tx' = [tx EXCEPT !.line = "idle", !.sending = None, !.bridge = 0, !.bridge_busy = FALSE]
    BY <1>14 DEF EspOff
  <2> QED
    BY <1>0, <2>1 DEF WiredTx, Transmitter
<1>15. CASE LineError
  BY <1>0, <1>15, TxDoneWired DEF LineError
<1>16. CASE TxComplete
  <2> DEFINE x == [tx EXCEPT !.line = "idle", !.sending = None]
  <2>1. x \in Transmitter /\ Len(x.queue) < RingSize
    BY <1>0 DEF Transmitter
  <2>2. tx' = TxDone(x)
    BY <1>16 DEF TxComplete
  <2>3. CASE x.bridge_busy
    <3>1. x.line = "idle" /\ ~BridgeIdle([x EXCEPT !.log_busy = FALSE])
      BY <1>0, <2>3 DEF Transmitter, BridgeIdle
    <3>2. TryTx([x EXCEPT !.log_busy = FALSE]) = [x EXCEPT !.log_busy = FALSE]
      BY <3>1 DEF TryTx, UartTaken
    <3>3. tx' = [(IF x.log_busy THEN [x EXCEPT !.log_busy = FALSE] ELSE x)
                    EXCEPT !.bridge_busy = FALSE]
      BY <2>2, <3>2 DEF TxDone
    <3>4. ~tx'.bridge_busy /\ tx'.sending = None
      <4>1. CASE x.log_busy
        BY <1>0, <3>3, <4>1 DEF Transmitter
      <4>2. CASE ~x.log_busy
        BY <1>0, <3>3, <4>2 DEF Transmitter
      <4> QED
        BY <4>1, <4>2
    <3> QED
      BY <3>4 DEF WiredTx
  <2>4. CASE ~x.bridge_busy
    <3>1. WiredTx(x)
      BY <1>0, <2>4 DEF WiredTx, Transmitter
    <3> HIDE DEF x
    <3> QED
      BY <2>1, <2>2, <3>1, TxDoneWired
  <2> QED
    BY <2>3, <2>4
<1>17. CASE UNCHANGED vars
  BY <1>17 DEF vars
<1> QED
  BY <1>3, <1>4, <1>5, <1>6, <1>8, <1>9, <1>10, <1>11, <1>12, <1>13, <1>14, <1>15, <1>16, <1>17
  DEF Next, Interrupt, MainLoop, TryTxSteps

\* What the main loop does while it hands a frame over concerns nothing else.
LEMMA TryTxStepsKeep ==
    ASSUME TryTxSteps
    PROVE  /\ log' = log /\ session' = session /\ irq' = irq /\ panel' = panel
           /\ host' = host /\ spent' = spent /\ InSend /\ irq = 0
<1>1. CASE CopyCrossed
  BY <1>1 DEF CopyCrossed, InSend
<1>2. CASE LookAtRing \/ CopyFrame \/ SendBuffer \/ MarkBusy
  BY <1>2 DEF LookAtRing, CopyFrame, SendBuffer, MarkBusy, InSend
<1> QED
  BY <1>1, <1>2 DEF TryTxSteps

\* What a step does to what the host has.
LEMMA HostSteps ==
    ASSUME TypeOK, [Next]_vars
    PROVE  \/ host'.stream = host.stream /\ host'.heard = host.heard
           \/ host'.heard = <<>> /\ \E mode \in Tier \cup {"both"}, start \in Starts :
                                        RequestStart(mode, start)
           \/ TxComplete /\ host' = Received(host, tx.sending)
<1>0. host \in Host
  BY TypeParts
<1>2. Disturbed(host).stream = host.stream /\ Disturbed(host).heard = host.heard
  BY <1>0 DEF Disturbed, Host
<1>3. ASSUME NEW mode \in Tier \cup {"both"}, NEW start \in Starts, RequestStart(mode, start)
      PROVE  \/ host'.stream = host.stream /\ host'.heard = host.heard
             \/ host'.heard = <<>>
  BY <1>2, <1>3 DEF RequestStart
<1>4. CASE RequestStop \/ RequestOther \/ LineError \/ EspOff
  BY <1>2, <1>4 DEF RequestStop, RequestOther, LineError, EspOff
<1>5. ASSUME NEW failing, Pump(failing)
      PROVE  host'.stream = host.stream /\ host'.heard = host.heard
  <2> DEFINE p == IF session.active THEN WholePacket(session, failing)
                  ELSE [session |-> session, frames |-> <<>>]
             a == host.failed \/ failing # NoFailure
             b == host.mixed \/ (InPacket /\ p.frames # <<>>)
  <2>1. host' = [host EXCEPT !.failed = a, !.mixed = b]
    BY <1>5 DEF Pump
  <2> HIDE DEF a, b
  <2> QED
    BY <1>0, <2>1 DEF Host
<1>6. CASE ReadRecordFails
  BY <1>0, <1>6 DEF ReadRecordFails, Host
<1>7. CASE TxComplete
  BY <1>7 DEF TxComplete
<1>8. CASE \/ LogTransport_Process \/ NextPacket \/ PumpEnds \/ ReadRecord \/ StoreRecord
           \/ (\E t \in Tier : PostEvent(t)) \/ CanMirror \/ BridgeTx \/ EspOn
           \/ UNCHANGED vars
  BY <1>8 DEF LogTransport_Process, NextPacket, PumpEnds, ReadRecord, StoreRecord, PostEvent,
              CanMirror, BridgeTx, EspOn, vars
<1>9. CASE TryTxSteps
  <2>1. host' = host
    BY <1>9, TryTxStepsKeep
  <2> QED
    BY <2>1
<1> QED
  BY <1>3, <1>4, <1>5, <1>6, <1>7, <1>8, <1>9 DEF Next, Interrupt, MainLoop

LEMMA PanelSteps ==
    ASSUME TypeOK, [Next]_vars
    PROVE  panel'.next_stream >= panel.next_stream /\ panel.next_stream \in Nat
<1>0. panel \in Panel /\ panel.next_stream \in Nat
  BY TypeParts DEF Panel
<1>1. CASE \E mode \in Tier \cup {"both"}, start \in Starts : RequestStart(mode, start)
  <2>1. panel' = panel \/ panel' = [panel EXCEPT !.next_stream = @ + 1]
    BY <1>1 DEF RequestStart
  <2>2. panel'.next_stream \in {panel.next_stream, panel.next_stream + 1}
    BY <1>0, <2>1 DEF Panel
  <2> QED
    BY <1>0, <2>2
<1>2. CASE \E failing \in {NoFailure} \cup Wanted(session) : Pump(failing)
  <2>1. panel' = panel \/ panel' = [panel EXCEPT !.linked = TRUE]
    BY <1>2 DEF Pump, LogHostLink
  <2>2. panel'.next_stream = panel.next_stream
    BY <1>0, <2>1 DEF Panel
  <2> QED
    BY <1>0, <2>2
<1>3. CASE EspOff \/ EspOn
  <2>1. \/ panel' = [panel EXCEPT !.esp = FALSE, !.linked = FALSE]
        \/ panel' = [panel EXCEPT !.esp = TRUE]
    BY <1>3 DEF EspOff, EspOn
  <2>2. panel'.next_stream = panel.next_stream
    BY <1>0, <2>1 DEF Panel
  <2> QED
    BY <1>0, <2>2
<1>4. CASE \/ RequestStop \/ RequestOther \/ TxComplete \/ LineError
           \/ LogTransport_Process \/ NextPacket \/ PumpEnds
           \/ ReadRecord \/ ReadRecordFails \/ StoreRecord
           \/ (\E t \in Tier : PostEvent(t)) \/ CanMirror \/ BridgeTx
           \/ UNCHANGED vars
  <2>1. panel' = panel
    BY <1>4 DEF RequestStop, RequestOther, TxComplete, LineError, LogTransport_Process,
                NextPacket, PumpEnds, ReadRecord, ReadRecordFails, StoreRecord, PostEvent,
                CanMirror, BridgeTx, vars
  <2> QED
    BY <1>0, <2>1
<1>5. CASE TryTxSteps
  <2>1. panel' = panel
    BY <1>5, TryTxStepsKeep
  <2> QED
    BY <1>0, <2>1
<1> QED
  BY <1>1, <1>2, <1>3, <1>4, <1>5 DEF Next, Interrupt, MainLoop

LEMMA WiredNext == TypeOK /\ Wired /\ [Next]_vars => Wired'
<1> SUFFICES ASSUME TypeOK, Wired, [Next]_vars PROVE Wired'
  OBVIOUS
<1>1. WiredTx(tx')
  BY WiredTxNext DEF Wired
<1>2. host'.stream = 0 => host'.heard = <<>>
  <2>1. CASE TxComplete /\ host' = Received(host, tx.sending)
    BY <2>1, TypeParts DEF Received, Wired, Host
  <2> QED
    BY <2>1, HostSteps DEF Wired
<1>3. panel'.next_stream > 0
  <2>1. panel'.next_stream >= panel.next_stream /\ panel.next_stream \in Nat
    BY PanelSteps
  <2>2. panel.next_stream > 0
    BY DEF Wired
  <2>3. panel'.next_stream \in Nat
    BY TypeNext, TypeParts DEF TypeOK
  <2> QED
    BY <2>1, <2>2, <2>3
<1> QED
  BY <1>1, <1>2, <1>3 DEF Wired
-----------------------------------------------------------------------------
(* While the host waits, no step loses, swaps or repeats a frame. *)

\* A step that leaves the session, the ring and the host alone.
LEMMA FlowUnchanged ==
    ASSUME UNCHANGED tx, UNCHANGED host
    PROVE  Flow' = Flow
BY DEF Flow

LEMMA NothingOutstanding ==
    ASSUME TypeOK, Wired, ~Outstanding
    PROVE  /\ ~session.active /\ tx.queue = <<>> /\ tx.line # "log" /\ ~tx.log_busy /\ ~InPacket
           /\ Clean(tx) /\ InFlight(tx) = <<>> /\ Flow = host.heard
           /\ ~InSend /\ tx.buffer = None /\ (CrossLoop => loop' = loop)
<1>1. /\ ~session.active /\ tx.queue = <<>> /\ tx.line # "log" /\ ~tx.log_busy /\ ~InPacket
      /\ ~Mistaken /\ ~InSend
  BY DEF Outstanding
<1>2. tx \in Transmitter /\ host \in Host /\ loop \in Loop /\ InHand
  BY TypeParts
<1>7. tx.buffer = None
  BY <1>1, <1>2 DEF InHand, InSend
<1>8. CrossLoop => loop' = loop
  BY <1>1 DEF CrossLoop, InSend
<1>3. tx.line \in {"idle", "log", "bridge"}
  BY <1>2 DEF Transmitter
<1>4. Clean(tx)
  BY <1>1, <1>3 DEF Clean, Mistaken, Wired, WiredTx
<1>5. InFlight(tx) = <<>>
  BY <1>1, <1>2, <1>7, InFlightOK
<1>6. Flow = host.heard
  BY <1>2, <1>5, FlowEmpty DEF Flow
<1> QED
  BY <1>1, <1>4, <1>5, <1>6, <1>7, <1>8

\* An answer to a host that has nothing to wait for.
LEMMA AnswerFlight ==
    ASSUME TypeOK, Wired, ~Outstanding, NEW f \in Frame, NEW x, x = TryTx(SendFrame(tx, f))
    PROVE  x \in Transmitter /\ Clean(x) /\ InFlight(x) = <<f>> /\ Len(x.queue) <= 1
<1>1. tx \in Transmitter /\ Len(tx.queue) < RingSize /\ tx.queue = <<>>
      /\ tx.buffer = None /\ Clean(tx) /\ InFlight(tx) = <<>>
  BY TypeParts, NothingOutstanding
<1>2. Len(tx.queue) = 0 /\ Len(tx.queue) < RingSize - 1
  BY <1>1, Sizes
<1> DEFINE y == SendFrame(tx, f)
<1>3. /\ y \in Transmitter /\ Len(y.queue) < RingSize /\ Clean(y) /\ y.buffer = None
      /\ InFlight(y) = <<>> \o <<f>> /\ Len(y.queue) = 1
  <2>1. y \in Transmitter /\ Len(y.queue) < RingSize /\ y.buffer = None
    BY <1>1, SendOK
  <2>2. /\ InFlight(y) = InFlight(tx) \o <<f>> /\ Len(y.queue) = Len(tx.queue) + 1
        /\ Clean(tx) => Clean(y)
    BY <1>1, <1>2, SendFlight
  <2> HIDE DEF y
  <2> QED
    BY <1>1, <1>2, <2>1, <2>2
<1> HIDE DEF y
<1>4. x = TryTx(y)
  BY DEF y
<1>5. <<>> \o <<f>> = <<f>>
  BY ConcatEmptySeq
<1> QED
  BY <1>3, <1>4, <1>5, TryTxOK, TryTxFlight

LEMMA UndisturbedStart ==
    ASSUME TypeOK, Wired, NEW mode \in Tier \cup {"both"}, NEW start \in Starts,
           RequestStart(mode, start), host'.quiet,
           NEW a, a = StartDump(session, mode, start)
    PROVE  /\ Undisturbed' /\ ~session.active /\ ~InPacket'
           /\ session' = a.session /\ host'.stream = a.rsp.stream /\ ~host'.failed
           /\ log' = log
           /\ Flow' = IF a.rsp.stream = 0 THEN <<>> ELSE <<a.rsp>>
<1>1. /\ session' = a.session /\ tx' = TryTx(SendFrame(tx, a.rsp)) /\ irq' = PumpBudget
      /\ log' = log /\ CrossLoop
      /\ IF a.rsp.status = "BUSY"
         THEN panel' = panel /\ host' = Disturbed(host)
         ELSE /\ panel' = [panel EXCEPT !.next_stream = @ + 1]
              /\ host' = [stream |-> a.rsp.stream, heard |-> <<>>, failed |-> FALSE,
                          quiet |-> ~Outstanding, mixed |-> InPacket \/ InSend]
  BY DEF RequestStart, Requested
<1>2. a.rsp \in Frame /\ a.session \in Session /\ start \in Nat
  BY StartDumpOK, SurroundingsAssumption
<1>3. ~Outstanding
  <2>1. CASE a.rsp.status = "BUSY"
    BY <1>1, <2>1, DisturbedOK, TypeParts
  <2>2. CASE a.rsp.status # "BUSY"
    <3> DEFINE q == ~Outstanding
               m == InPacket \/ InSend
    <3>1. host' = [stream |-> a.rsp.stream, heard |-> <<>>, failed |-> FALSE,
                   quiet |-> q, mixed |-> m]
      BY <1>1, <2>2
    <3> HIDE DEF q, m
    <3>2. host'.quiet = q
      BY <3>1
    <3> QED
      BY <3>2 DEF q
  <2> QED
    BY <2>1, <2>2
<1>4. ~session.active /\ ~InPacket /\ ~InPacket' /\ ~InSend'
  BY <1>1, <1>3, NothingOutstanding DEF InPacket, InSend
<1>5. \/ ~a.session.active /\ a.rsp.status # "BUSY" /\ a.rsp.stream = 0
      \/ a.rsp.status # "BUSY" /\ a.rsp.stream = panel.next_stream
         /\ (a.session.active => a.session.stream = panel.next_stream)
  <2>1. \/ ~a.session.active /\ a.rsp = Response("OUT_OF_RANGE", 0, 0)
        \/ a.session = NoSession /\ a.rsp = Response("OK", panel.next_stream, 0)
        \/ /\ Opened(a.session, mode, start)
           /\ a.rsp = Response("OK", panel.next_stream, Records(mode) - start)
    BY <1>2, <1>4, StartDumpIs
  <2>2. CASE ~a.session.active /\ a.rsp = Response("OUT_OF_RANGE", 0, 0)
    BY <2>2 DEF Response
  <2>3. CASE a.session = NoSession /\ a.rsp = Response("OK", panel.next_stream, 0)
    BY <2>3 DEF Response, NoSession
  <2>4. CASE /\ Opened(a.session, mode, start)
             /\ a.rsp = Response("OK", panel.next_stream, Records(mode) - start)
    BY <2>4 DEF Response, Opened
  <2> QED
    BY <2>1, <2>2, <2>3, <2>4
<1>6. /\ host'.stream = a.rsp.stream /\ host'.heard = <<>> /\ ~host'.failed
  BY <1>1, <1>5
<1>7. tx' \in Transmitter /\ Clean(tx') /\ InFlight(tx') = <<a.rsp>> /\ Len(tx'.queue) <= 1
  BY <1>1, <1>2, <1>3, AnswerFlight
<1>8. panel.next_stream # 0
  BY DEF Wired
<1>9. Own(host', InFlight(tx')) <=> a.rsp.stream # 0
  BY <1>6, <1>7 DEF Own
<1>10. a.session.active => a.session.stream = a.rsp.stream /\ a.rsp.stream # 0
  BY <1>5, <1>8
<1>11. Undisturbed'
  <2>1. Len(tx'.queue) + irq' <= PumpBudget + 1
    <3>1. Len(tx'.queue) \in Nat
      BY <1>7, InFlightOK
    <3> QED
      BY <1>1, <1>7, <3>1, Sizes
  <2>2. Own(host', InFlight(tx')) \/ (~session'.active /\ Len(InFlight(tx')) <= 1)
    BY <1>1, <1>7, <1>9, <1>10
  <2>3. session'.active => session'.stream = host'.stream
    BY <1>1, <1>6, <1>10
  <2> QED
    BY <1>4, <1>7, <2>1, <2>2, <2>3 DEF Undisturbed
<1>12. Flow' = IF a.rsp.stream = 0 THEN <<>> ELSE <<a.rsp>>
  <2>1. CASE a.rsp.stream = 0
    BY <1>6, <1>9, <2>1 DEF Flow, FlowOf
  <2>2. CASE a.rsp.stream # 0
    <3>1. Flow' = <<>> \o <<a.rsp>>
      BY <1>6, <1>7, <1>9, <2>2 DEF Flow, FlowOf
    <3>2. <<a.rsp>> \in Seq(Frame)
      BY <1>2
    <3> QED
      BY <2>2, <3>1, <3>2, ConcatEmptySeq
  <2> QED
    BY <2>1, <2>2
<1> QED
  BY <1>1, <1>4, <1>6, <1>11, <1>12

LEMMA UndisturbedRequests ==
    ASSUME TypeOK, Wired, RequestStop \/ RequestOther, host'.quiet
    PROVE  /\ Undisturbed' /\ ~session.active /\ ~session'.active /\ ~InPacket'
           /\ host.quiet /\ host'.stream = host.stream /\ host'.failed = host.failed
           /\ log' = log /\ Flow' = Flow
<1> DEFINE f == Response("OK", 0, 0)
<1>1. /\ tx' = TryTx(SendFrame(tx, f)) /\ irq' = PumpBudget /\ log' = log
      /\ CrossLoop /\ host' = Disturbed(host) /\ session' \in {session, NoSession}
  BY DEF RequestStop, RequestOther, Requested
<1>2. host \in Host /\ f \in Frame /\ f.stream = 0
  BY TypeParts, ResponseOK DEF Response
<1>3. ~Outstanding /\ host.quiet
  BY <1>1, <1>2, DisturbedOK
<1>4. /\ host'.stream = host.stream /\ host'.heard = host.heard /\ host'.failed = host.failed
      /\ host' \in Host
  BY <1>1, <1>2, DisturbedOK
<1>5. ~session.active /\ ~session'.active /\ ~InPacket' /\ ~InSend' /\ Flow = host.heard
  BY <1>1, <1>3, NothingOutstanding DEF NoSession, InPacket, InSend
<1> HIDE DEF f
<1>6. tx' \in Transmitter /\ Clean(tx') /\ InFlight(tx') = <<f>> /\ Len(tx'.queue) <= 1
  BY <1>1, <1>2, <1>3, AnswerFlight
<1>7. Flow' = host'.heard
  BY <1>2, <1>4, <1>6, FlowForeign DEF Flow
<1>8. Undisturbed'
  <2>1. Len(tx'.queue) + irq' <= PumpBudget + 1
    <3>1. Len(tx'.queue) \in Nat
      BY <1>6, InFlightOK
    <3> QED
      BY <1>1, <1>6, <3>1, Sizes
  <2>2. Len(InFlight(tx')) <= 1
    BY <1>6
  <2> QED
    BY <1>5, <1>6, <2>1, <2>2 DEF Undisturbed
<1> QED
  BY <1>1, <1>3, <1>4, <1>5, <1>7, <1>8

LEMMA UndisturbedPump ==
    ASSUME TypeOK, TypeOK', Wired, Undisturbed,
           NEW failing \in {NoFailure} \cup Wanted(session), Pump(failing),
           NEW p, p = IF session.active THEN WholePacket(session, failing)
                      ELSE [session |-> session, frames |-> <<>>]
    PROVE  /\ Undisturbed' /\ ~InPacket /\ ~InPacket'
           /\ session' = p.session /\ host'.stream = host.stream
           /\ host'.failed <=> (host.failed \/ failing # NoFailure)
           /\ Flow' = Flow \o p.frames
<1>1. /\ irq > 0 /\ session' = p.session /\ tx' = TryTx(Send(tx, p.frames))
      /\ irq' = Pumped(irq, p.session.active) /\ CrossLoop
      /\ host' = [host EXCEPT !.failed = @ \/ failing # NoFailure,
                              !.mixed = @ \/ (InPacket /\ p.frames # <<>>)]
  BY DEF Pump
<1>2. /\ log \in [Tier -> Nat] /\ session \in Session /\ tx \in Transmitter /\ host \in Host
      /\ irq \in 0 .. PumpBudget /\ tx' \in Transmitter /\ Len(tx.queue) < RingSize
      /\ Len(tx.queue) \in Nat /\ Len(tx'.queue) \in Nat
  BY TypeParts, InFlightOK DEF TypeOK, Transmitter
<1>3. /\ ~InPacket /\ Clean(tx) /\ Len(tx.queue) + irq <= PumpBudget + 1
      /\ session.active => session.stream = host.stream
      /\ Own(host, InFlight(tx)) \/ (~session.active /\ Len(InFlight(tx)) <= 1)
      /\ ~InSend
  BY <1>1 DEF Undisturbed, Astray, Handing, InSend
<1>4. ~InPacket' /\ ~InSend' /\ tx.buffer = None
  BY <1>1, <1>3, TypeParts DEF InPacket, InSend, InHand, CrossLoop
<1>5. host'.stream = host.stream /\ host'.heard = host.heard
      /\ (host'.failed <=> (host.failed \/ failing # NoFailure))
  BY <1>1, <1>2 DEF Host
<1>6. /\ p.session.stream = session.stream
      /\ p.session.active => session.active
      /\ p.frames = <<>> \/ \E f \in Frame : p.frames = <<f>> /\ f.stream = session.stream
      /\ ~session.active => p.frames = <<>>
  <2>1. CASE session.active
    BY <1>2, <2>1, WholePacketStream
  <2>2. CASE ~session.active
    BY <2>2
  <2> QED
    BY <2>1, <2>2
<1>7. Len(tx.queue) < RingSize - 1
  <2>1. Len(tx.queue) + irq <= PumpBudget + 1 /\ irq > 0 /\ irq \in Nat /\ Len(tx.queue) \in Nat
    BY <1>1, <1>2, <1>3
  <2> QED
    BY <2>1, Sizes
<1> DEFINE y == Send(tx, p.frames)
<1>8. /\ y \in Transmitter /\ Len(y.queue) < RingSize /\ Clean(y) /\ y.buffer = None
      /\ InFlight(y) = InFlight(tx) \o p.frames /\ Len(y.queue) <= Len(tx.queue) + 1
  BY <1>2, <1>3, <1>4, <1>6, <1>7, SendFramesOK, SendFramesFlight
<1> HIDE DEF y
<1>9. /\ Clean(tx') /\ InFlight(tx') = InFlight(tx) \o p.frames
      /\ Len(tx'.queue) <= Len(tx.queue) + 1
  <2>1. tx' = TryTx(y)
    BY <1>1 DEF y
  <2>2. Len(y.queue) \in Nat
    BY <1>8, InFlightOK
  <2>3. Len(tx'.queue) <= Len(y.queue)
    BY <1>8, <2>1, TryTxOK
  <2>4. InFlight(tx') = InFlight(y) /\ Clean(tx')
    BY <1>8, <2>1, TryTxFlight
  <2> QED
    BY <1>2, <1>8, <2>2, <2>3, <2>4
<1>10. Len(tx'.queue) + irq' <= PumpBudget + 1 \/ irq' = 0
  <2>1. irq' = irq - 1 \/ irq' = 0
    BY <1>1 DEF Pumped
  <2>2. /\ Len(tx.queue) + irq <= PumpBudget + 1 /\ irq \in Nat
        /\ Len(tx'.queue) <= Len(tx.queue) + 1
        /\ Len(tx.queue) \in Nat /\ Len(tx'.queue) \in Nat /\ PumpBudget \in Nat
    BY <1>1, <1>2, <1>3, <1>9, Sizes
  <2> QED
    BY <2>1, <2>2
<1>11. InFlight(tx) \in Seq(Frame)
  BY <1>2, InFlightOK
<1>12. CASE Own(host, InFlight(tx)) /\ session.active
  <2>1. /\ Own(host, InFlight(tx) \o p.frames)
        /\ FlowOf(host, InFlight(tx) \o p.frames) = FlowOf(host, InFlight(tx)) \o p.frames
    BY <1>2, <1>3, <1>6, <1>11, <1>12, FlowAppend
  <2>2. Own(host', InFlight(tx')) /\ Flow' = Flow \o p.frames
    BY <1>5, <1>9, <2>1, OwnOfSame DEF Flow
  <2>3. Undisturbed'
    BY <1>1, <1>3, <1>4, <1>5, <1>6, <1>9, <1>10, <2>2 DEF Undisturbed
  <2> QED
    BY <1>1, <1>3, <1>4, <1>5, <2>2, <2>3
<1>13. CASE ~session.active
  <2>1. p.frames = <<>> /\ ~session'.active
    BY <1>1, <1>6, <1>13
  <2>2. InFlight(tx') = InFlight(tx)
    BY <1>9, <1>11, <2>1, ConcatEmptySeq
  <2>3. Flow' = Flow
    BY <1>5, <2>2, OwnOfSame DEF Flow
  <2>4. Flow \in Seq(Frame)
    BY <1>2, <1>11, ConcatProperties DEF Flow, FlowOf, Host
  <2>5. Flow' = Flow \o p.frames
    BY <2>1, <2>3, <2>4, ConcatEmptySeq
  <2>6. Own(host', InFlight(tx')) \/ (~session'.active /\ Len(InFlight(tx')) <= 1)
    BY <1>3, <1>5, <2>1, <2>2, OwnOfSame
  <2>7. Undisturbed'
    BY <1>3, <1>4, <1>9, <1>10, <2>1, <2>6 DEF Undisturbed
  <2> QED
    BY <1>1, <1>3, <1>4, <1>5, <2>5, <2>7
<1> QED
  BY <1>3, <1>12, <1>13

\* A frame that the main loop hands over stays on its way.
LEMMA UndisturbedSend ==
    ASSUME TypeOK, TypeOK', Wired, Undisturbed, LogTransport_Process \/ PumpEnds \/ TryTxSteps
    PROVE  Undisturbed' /\ Flow' = Flow /\ ~InPacket /\ ~InPacket'
<1>1. /\ tx \in Transmitter /\ Len(tx.queue) < RingSize /\ loop \in Loop
      /\ tx.queue \in Seq(Frame) /\ InHand
      /\ tx' \in Transmitter /\ loop' \in Loop
      /\ loop.next \in {"idle", "pump"} /\ tx.line \in {"idle", "log", "bridge"}
      /\ tx.log_busy \in BOOLEAN /\ tx.bridge_busy \in BOOLEAN
      /\ tx.buffer \in Frame \cup {None}
  BY TypeParts DEF TypeOK, Transmitter, Loop, Record
<1>2. host' = host /\ session' = session /\ irq' = irq /\ irq = 0
  BY TryTxStepsKeep DEF LogTransport_Process, PumpEnds
<1>3. ~InPacket
  BY TryTxStepsKeep DEF LogTransport_Process, PumpEnds, InPacket, InSend
<1>4. ASSUME ~InPacket', InFlight(tx') = InFlight(tx),
             loop'.at # "mark" => Clean(tx') \/ Astray', InSend' => Handing'
      PROVE  Undisturbed' /\ Flow' = Flow
  <2>1. Flow' = Flow
    BY <1>2, <1>4 DEF Flow
  <2>2. Own(host', InFlight(tx')) \/ (~session'.active /\ Len(InFlight(tx')) <= 1)
    BY <1>2, <1>4 DEF Undisturbed
  <2> QED
    BY <1>2, <1>4, <2>1, <2>2 DEF Undisturbed
<1>5. CASE LogTransport_Process \/ PumpEnds
  <2>1. tx' = tx /\ loop.at \in {"idle", "pump"} /\ \E next \in {"idle", "pump"} : TestUart(next)
    BY <1>5 DEF LogTransport_Process, PumpEnds
  <2>2. loop'.at \in {"idle", "pump", "look"} /\ (loop'.at = "look" => ~UartTaken(tx))
    BY <2>1, TestUartOK
  <2>3. ~InPacket'
    BY <2>2 DEF InPacket
  <2>4. Clean(tx') \/ Astray'
    BY <1>2, <2>1, <2>3 DEF Undisturbed, Astray
  <2>5. InSend' => Handing'
    BY <1>2, <2>1, <2>2 DEF InSend, Handing, UartTaken, BridgeIdle
  <2> QED
    BY <1>3, <1>4, <2>1, <2>3, <2>4, <2>5
<1>6. CASE LookAtRing
  <2>1. tx' = tx /\ loop.at = "look" /\ (Clean(tx) \/ Astray)
        /\ ~tx.log_busy /\ ~tx.bridge_busy
    BY <1>6 DEF LookAtRing, Undisturbed, InSend, Handing
  <2>2. CASE tx.queue = <<>>
    <3>1. loop'.at \in {"idle", "pump"}
      BY <1>1, <1>6, <2>2, LeftOK DEF LookAtRing
    <3>2. ~InPacket' /\ ~InSend'
      BY <3>1 DEF InPacket, InSend
    <3>3. Clean(tx') \/ Astray'
      BY <1>2, <2>1, <3>2 DEF Astray
    <3> QED
      BY <1>3, <1>4, <2>1, <3>2, <3>3
  <2>3. CASE tx.queue # <<>>
    <3>1. loop' = [loop EXCEPT !.at = "copy", !.frame = Head(tx.queue)]
      BY <1>6, <2>3 DEF LookAtRing
    <3>2. loop'.at = "copy"
      BY <1>1, <3>1 DEF Loop
    <3>3. ~InPacket' /\ Clean(tx)
      BY <2>1, <2>3, <3>2 DEF InPacket, Astray
    <3>4. tx.line = "idle" /\ tx.sending = None
      BY <1>1, <2>1, <3>3 DEF Clean
    <3>5. Handing'
      BY <1>2, <2>1, <3>2, <3>4 DEF Handing
    <3> QED
      BY <1>3, <1>4, <2>1, <3>3, <3>5
  <2> QED
    BY <2>2, <2>3
<1>7. CASE CopyFrame
  <2> DEFINE v == IF tx.line = "log" THEN None ELSE tx.sending
             q == Tail(tx.queue)
             g == Head(tx.queue)
  <2>1. /\ loop.at = "copy" /\ tx.queue # <<>> /\ tx.buffer = None
        /\ tx.line = "idle" /\ tx.sending = None /\ ~tx.log_busy /\ ~tx.bridge_busy
        /\ loop' = [loop EXCEPT !.at = "send", !.frame = None]
        /\ tx' = [tx EXCEPT !.queue = q, !.sending = v, !.buffer = g]
    BY <1>1, <1>7 DEF CopyFrame, Copied, InHand, Undisturbed, InSend, Handing
  <2>2. g \in Frame /\ v = None /\ <<g>> \o q = tx.queue
    BY <1>1, <2>1, HeadAndTail
  <2> HIDE DEF v, q, g
  <2>3. /\ tx'.queue = q /\ tx'.buffer = g /\ tx'.line = "idle" /\ tx'.sending = None
        /\ ~tx'.log_busy /\ ~tx'.bridge_busy /\ loop'.at = "send"
    BY <1>1, <2>1, <2>2 DEF Transmitter, Loop
  <2>4. InFlight(tx') = InFlight(tx)
    <3>1. InFlight(tx) = tx.queue
      BY <1>1, <2>1, InFlightOK
    <3>2. InFlight(tx') = <<g>> \o q
      BY <1>1, <2>2, <2>3, NoneIsNoFrame, InFlightOK DEF Queued
    <3> QED
      BY <2>2, <3>1, <3>2
  <2>5. ~InPacket' /\ Clean(tx') /\ Handing'
    BY <1>2, <2>3 DEF InPacket, Clean, Handing
  <2> QED
    BY <1>3, <1>4, <2>4, <2>5
<1>8. CASE CopyCrossed
  BY <1>8 DEF CopyCrossed, Undisturbed, InSend, Handing
<1>9. CASE SendBuffer
  <2>1. /\ loop.at = "send" /\ tx.buffer # None
        /\ tx.line = "idle" /\ tx.sending = None /\ ~tx.log_busy /\ ~tx.bridge_busy
        /\ loop' = [loop EXCEPT !.at = "mark"]
        /\ tx' = [tx EXCEPT !.buffer = None, !.line = "log", !.sending = tx.buffer]
    BY <1>1, <1>9 DEF SendBuffer, InHand, Undisturbed, InSend, Handing
  <2>2. /\ tx'.queue = tx.queue /\ tx'.buffer = None /\ tx'.line = "log"
        /\ tx'.sending = tx.buffer /\ ~tx'.log_busy /\ ~tx'.bridge_busy /\ loop'.at = "mark"
    BY <1>1, <2>1 DEF Transmitter, Loop
  <2>3. InFlight(tx') = InFlight(tx)
    <3>1. InFlight(tx) = <<tx.buffer>> \o tx.queue
      BY <1>1, <2>1, InFlightOK DEF Queued
    <3>2. InFlight(tx') = <<tx.buffer>> \o tx.queue
      BY <1>1, <2>1, <2>2, InFlightSending DEF Queued
    <3> QED
      BY <3>1, <3>2
  <2>4. ~InPacket' /\ Handing'
    BY <1>2, <2>1, <2>2 DEF InPacket, Handing, Unmarked
  <2> QED
    BY <1>3, <1>4, <2>2, <2>3, <2>4
<1>10. CASE MarkBusy
  <2>1. /\ loop.at = "mark" /\ tx.line = "log" /\ tx.sending # None
        /\ ~tx.log_busy /\ ~tx.bridge_busy
        /\ loop' = Left(loop.next) /\ tx' = [tx EXCEPT !.log_busy = TRUE]
    BY <1>10 DEF MarkBusy, Undisturbed, InSend, Handing, Unmarked
  <2>2. loop'.at \in {"idle", "pump"}
    BY <1>1, <2>1, LeftOK
  <2>3. /\ tx'.queue = tx.queue /\ tx'.buffer = tx.buffer /\ tx'.line = "log"
        /\ tx'.sending = tx.sending /\ tx'.log_busy /\ ~tx'.bridge_busy
    BY <1>1, <2>1 DEF Transmitter
  <2>4. InFlight(tx') = InFlight(tx) /\ Clean(tx')
    BY <2>1, <2>3 DEF InFlight, Queued, Clean
  <2>5. ~InPacket' /\ ~InSend'
    BY <2>2 DEF InPacket, InSend
  <2> QED
    BY <1>3, <1>4, <2>4, <2>5
<1> QED
  BY <1>3, <1>5, <1>6, <1>7, <1>8, <1>9, <1>10 DEF TryTxSteps

LEMMA UndisturbedLoop ==
    ASSUME TypeOK, Wired, Undisturbed, NextPacket \/ ReadRecord
    PROVE  Undisturbed' /\ Flow' = Flow
<1>1. /\ tx \in Transmitter /\ Len(tx.queue) < RingSize /\ session \in Session
      /\ Len(tx.queue) \in Nat
  BY TypeParts, InFlightOK
<1>2. host' = host /\ irq' = irq /\ irq = 0 /\ irq' = 0
  BY DEF NextPacket, ReadRecord
<1>4. CASE NextPacket
  <2> DEFINE b == BeginPacket(session)
  <2>1. /\ session' = b /\ tx' = tx /\ session.active /\ MayPump(tx)
        /\ loop' = [loop EXCEPT !.budget = @ - 1, !.at = IF b.active THEN "read" ELSE "pump",
                                !.tier_end = b.end_logical[b.cur_tier]]
    BY <1>4 DEF NextPacket
  <2>2. b.stream = session.stream
    BY <1>1, BeginPacketKeeps
  <2> HIDE DEF b
  <2>7. loop.at = "pump"
    BY <1>4 DEF NextPacket
  <2>3. (InPacket' => session'.active /\ Len(tx'.queue) < RingSize - 1) /\ ~InSend'
    <3>1. loop'.at = IF b.active THEN "read" ELSE "pump"
      BY <2>1, TypeParts DEF Loop
    <3> QED
      BY <2>1, <3>1 DEF InPacket, InSend, MayPump
  <2>4. Clean(tx') /\ Own(host', InFlight(tx')) /\ session'.stream = host'.stream
    BY <1>2, <2>1, <2>2, <2>7 DEF Undisturbed, Astray
  <2>5. Undisturbed'
    BY <1>2, <2>3, <2>4 DEF Undisturbed
  <2>6. Flow' = Flow
    BY <1>2, <2>1, FlowUnchanged
  <2> QED
    BY <2>5, <2>6
<1>5. CASE ReadRecord
  <2>1. /\ session' = session /\ tx' = tx /\ loop.at = "read" /\ loop'.at = "store"
    BY <1>5, TypeParts DEF ReadRecord, Loop
  <2>2. InPacket /\ ~InSend'
    BY <2>1 DEF InPacket, InSend
  <2>3. Undisturbed'
    BY <1>2, <2>1, <2>2 DEF Undisturbed, Astray
  <2>4. Flow' = Flow
    BY <1>2, <2>1, FlowUnchanged
  <2> QED
    BY <2>3, <2>4
<1> QED
  BY <1>4, <1>5

LEMMA UndisturbedFinish ==
    ASSUME TypeOK, Undisturbed, InPacket, irq = 0, irq' = 0,
           NEW s \in Session, s.stream = session.stream, NEW error, NEW entries \in Seq(Record),
           FinishPacket(s, error, entries),
           host'.stream = host.stream, host'.heard = host.heard,
           NEW p, p = EndPacket(s, loop.tier_end, error, entries)
    PROVE  Undisturbed' /\ ~InPacket' /\ session' = p.session /\ Flow' = Flow \o p.frames
<1>1. /\ tx \in Transmitter /\ Len(tx.queue) < RingSize /\ session \in Session
      /\ host \in Host /\ InFlight(tx) \in Seq(Frame) /\ loop \in Loop
  BY TypeParts, InFlightOK
<1>2. /\ session.active /\ Clean(tx) /\ Own(host, InFlight(tx))
      /\ session.stream = host.stream /\ Len(tx.queue) < RingSize - 1 /\ tx.buffer = None
  BY TypeParts DEF Undisturbed, Astray, InPacket, InHand
<1>3. /\ session' = p.session /\ tx' = Send(tx, p.frames)
      /\ loop' = [loop EXCEPT !.at = "pump", !.entries = <<>>, !.record = 0]
  BY DEF FinishPacket
<1>4. ~InPacket' /\ ~InSend' /\ loop'.at # "mark"
  BY <1>1, <1>3 DEF InPacket, InSend, Loop
<1>5. /\ p.session.stream = s.stream
      /\ p.frames = <<>> \/ \E f \in Frame : p.frames = <<f>> /\ f.stream = s.stream
  BY EndPacketStream
<1>6. Clean(tx') /\ InFlight(tx') = InFlight(tx) \o p.frames
  BY <1>1, <1>2, <1>3, <1>5, SendFramesFlight
<1>7. /\ Own(host, InFlight(tx) \o p.frames)
      /\ FlowOf(host, InFlight(tx) \o p.frames) = FlowOf(host, InFlight(tx)) \o p.frames
  BY <1>1, <1>2, <1>5, FlowAppend
<1>8. Own(host', InFlight(tx')) /\ Flow' = Flow \o p.frames
  BY <1>6, <1>7, OwnOfSame DEF Flow
<1>9. Undisturbed'
  BY <1>2, <1>3, <1>4, <1>5, <1>6, <1>8 DEF Undisturbed
<1> QED
  BY <1>3, <1>4, <1>8, <1>9

\* The record is stored and the packet is not complete.
LEMMA UndisturbedStore ==
    ASSUME TypeOK, Undisturbed, InPacket, irq = 0, irq' = 0, loop'.at = "read",
           session'.stream = session.stream, session'.active <=> session.active,
           UNCHANGED <<tx, host>>
    PROVE  Undisturbed' /\ InPacket' /\ Flow' = Flow
<1>1. tx' = tx /\ host' = host /\ session.active /\ loop.at # "mark"
  BY DEF Undisturbed, InPacket
<1>2. InPacket' /\ ~InSend'
  BY DEF InPacket, InSend
<1>3. Undisturbed'
  BY <1>1, <1>2 DEF Undisturbed, Astray
<1> QED
  BY <1>1, <1>2, <1>3, FlowUnchanged

LEMMA UndisturbedSurroundings ==
    ASSUME TypeOK, TypeOK', Wired, host.quiet => Undisturbed, host'.quiet,
           \/ (\E t \in Tier : PostEvent(t)) \/ TxComplete \/ LineError
           \/ CanMirror \/ BridgeTx \/ EspOff \/ EspOn \/ UNCHANGED vars
    PROVE  /\ host.quiet /\ Undisturbed' /\ Flow' = Flow
           /\ UNCHANGED <<session, loop>>
           /\ host'.stream = host.stream /\ (host'.failed <=> host.failed)
<1>1. /\ tx \in Transmitter /\ Len(tx.queue) < RingSize /\ session \in Session
      /\ host \in Host /\ InFlight(tx) \in Seq(Frame) /\ Len(tx.queue) \in Nat
      /\ tx' \in Transmitter /\ InFlight(tx') \in Seq(Frame) /\ Len(tx'.queue) \in Nat
  BY TypeParts, InFlightOK DEF TypeOK, Transmitter
<1>2. session' = session /\ loop' = loop /\ irq' = irq
  <2>1. CASE LineError
    <3>1. ~Outstanding
      BY <1>1, <2>1, DisturbedOK DEF LineError
    <3> QED
      BY <2>1, <3>1, NothingOutstanding DEF LineError
  <2>2. CASE \/ (\E t \in Tier : PostEvent(t)) \/ TxComplete
             \/ CanMirror \/ BridgeTx \/ EspOff \/ EspOn \/ UNCHANGED vars
    BY <2>2 DEF PostEvent, TxComplete, CanMirror, BridgeTx, EspOff, EspOn, vars
  <2> QED
    BY <2>1, <2>2
<1>3. (InPacket' <=> InPacket) /\ (InSend' <=> InSend)
  BY <1>2 DEF InPacket, InSend
<1>4. CASE (\E t \in Tier : PostEvent(t)) \/ EspOn \/ UNCHANGED vars
  <2>1. tx' = tx /\ host' = host
    BY <1>4 DEF PostEvent, EspOn, vars
  <2>2. Undisturbed'
    BY <1>2, <1>3, <2>1 DEF Undisturbed, Astray, Handing
  <2> QED
    BY <1>2, <2>1, <2>2, FlowUnchanged
<1>5. CASE CanMirror
  <2>1. host' = host /\ tx' = [tx EXCEPT !.bridge = 1] /\ ~InSend'
    BY <1>3, <1>5 DEF CanMirror, InSend
  <2>2. /\ tx'.queue = tx.queue /\ tx'.line = tx.line /\ tx'.sending = tx.sending
        /\ tx'.log_busy = tx.log_busy /\ tx'.bridge_busy = tx.bridge_busy
        /\ tx'.buffer = tx.buffer
    BY <1>1, <2>1 DEF Transmitter
  <2>3. InFlight(tx') = InFlight(tx) /\ (Clean(tx) <=> Clean(tx'))
    BY <2>2 DEF InFlight, Queued, Clean
  <2>4. Astray => Astray'
    BY <1>2, <1>3, <2>2 DEF Astray
  <2>5. Undisturbed'
    BY <1>2, <1>3, <2>1, <2>2, <2>3, <2>4 DEF Undisturbed
  <2>6. Flow' = Flow
    BY <2>1, <2>3 DEF Flow
  <2> QED
    BY <1>2, <2>1, <2>5, <2>6
<1>6. CASE BridgeTx
  <2>1. /\ host' = host /\ tx.line = "idle" /\ ~tx.bridge_busy /\ loop.at = "idle" /\ ~InSend'
        /\ tx' = [tx EXCEPT !.bridge = 0, !.bridge_busy = TRUE, !.line = "bridge"]
    BY <1>3, <1>6 DEF BridgeTx, InSend
  <2>2. /\ tx'.queue = tx.queue /\ tx'.line = "bridge" /\ tx'.sending = tx.sending
        /\ tx'.log_busy = tx.log_busy /\ tx'.bridge_busy = TRUE /\ tx'.buffer = tx.buffer
    BY <1>1, <2>1 DEF Transmitter
  <2>3. Clean(tx)
    BY <2>1 DEF Undisturbed, Astray
  <2>4. InFlight(tx') = InFlight(tx) /\ Clean(tx')
    BY <2>1, <2>2, <2>3 DEF InFlight, Queued, Clean
  <2>5. Undisturbed'
    BY <1>2, <1>3, <2>1, <2>2, <2>4 DEF Undisturbed
  <2>6. Flow' = Flow
    BY <2>1, <2>4 DEF Flow
  <2> QED
    BY <1>2, <2>1, <2>5, <2>6
<1>7. CASE LineError \/ EspOff
  <2>1. host' = Disturbed(host)
    BY <1>7 DEF LineError, EspOff
  <2>2. /\ host.quiet /\ ~Outstanding /\ host'.stream = host.stream
        /\ host'.heard = host.heard /\ (host'.failed <=> host.failed)
    BY <1>1, <2>1, DisturbedOK
  <2>3. /\ ~session.active /\ tx.queue = <<>> /\ tx.line # "log" /\ ~tx.log_busy /\ ~InPacket
        /\ Clean(tx) /\ InFlight(tx) = <<>> /\ Flow = host.heard
        /\ ~InSend /\ tx.buffer = None
    BY <2>2, NothingOutstanding
  <2>4. /\ tx'.queue = <<>> /\ ~tx'.log_busy /\ ~tx'.bridge_busy /\ tx'.sending = None
        /\ tx'.buffer = None
        /\ tx'.line = "idle" \/ (LineError /\ tx'.line = "bridge")
    <3>1. CASE LineError
      <4>1. tx' = [tx EXCEPT !.bridge_busy = FALSE]
        BY <1>1, <2>3, <3>1, TxDoneOK DEF LineError
      <4>2. tx.line \in {"idle", "bridge"} /\ tx.sending = None
        BY <1>1, <2>3 DEF Transmitter, Clean
      <4> QED
        BY <1>1, <2>3, <3>1, <4>1, <4>2 DEF Transmitter
    <3>2. CASE EspOff
      <4>1. tx' = [tx EXCEPT !.line = "idle", !.sending = None, !.bridge = 0,
                             !.bridge_busy = FALSE]
        BY <3>2 DEF EspOff
      <4> QED
        BY <1>1, <2>3, <4>1 DEF Transmitter
    <3> QED
      BY <1>7, <3>1, <3>2
  <2>5. InFlight(tx') = <<>>
    BY <1>1, <2>4, InFlightOK
  <2>6. irq' = 0
    BY <1>2, <1>7 DEF LineError, EspOff
  <2>7. Clean(tx') \/ Astray'
    <3>1. CASE tx'.line = "idle"
      BY <2>4, <3>1 DEF Clean
    <3>2. CASE tx'.line = "bridge"
      BY <1>2, <1>3, <2>3, <2>4, <2>6, <3>2 DEF Astray
    <3> QED
      BY <2>4, <3>1, <3>2
  <2>8. Undisturbed'
    <3>1. Len(InFlight(tx')) <= 1
      BY <2>5
    <3> QED
      BY <1>2, <1>3, <2>3, <2>6, <2>7, <3>1 DEF Undisturbed
  <2>9. Flow' = host'.heard
    <3>1. host' \in Host
      BY TypeParts DEF TypeOK, Host
    <3> QED
      BY <2>5, <3>1, FlowEmpty DEF Flow
  <2> QED
    BY <1>2, <2>2, <2>3, <2>8, <2>9
<1>8. CASE TxComplete
  <2>1. /\ irq = 0 /\ tx.line # "idle" /\ host' = Received(host, tx.sending)
        /\ tx' = TxDone([tx EXCEPT !.line = "idle", !.sending = None])
    BY <1>8 DEF TxComplete
  <2>2. /\ host'.quiet = host.quiet /\ host'.stream = host.stream
        /\ (host'.failed <=> host.failed)
    BY <1>1, <2>1 DEF Received, Host
  <2>3. Undisturbed
    BY <2>2
  <2>8. /\ loop.at # "mark" /\ ~(InSend /\ tx.log_busy) /\ tx.buffer = None /\ (InSend => Astray)
    <3>1. loop.at # "mark" /\ ~(InSend /\ tx.log_busy)
      BY <1>8 DEF TxComplete
    <3>2. ASSUME InSend PROVE loop.at = "look" /\ Astray
      <4>1. Handing /\ (Clean(tx) \/ Astray) /\ tx.line \in {"log", "bridge"}
        BY <1>1, <2>1, <2>3, <3>1, <3>2 DEF Undisturbed, Transmitter
      <4>2. ~Clean(tx)
        BY <4>1 DEF Handing, Clean
      <4> QED
        BY <3>1, <3>2, <4>1, <4>2 DEF Handing, InSend, Astray
    <3>3. loop.at # "send"
      BY <3>2 DEF InSend
    <3> QED
      BY <3>1, <3>2, <3>3, TypeParts DEF InHand
  <2>9. PICK z : /\ z \in Transmitter /\ z.line = "idle" /\ z.sending = None
                 /\ z.queue = tx.queue /\ z.buffer = None /\ z.log_busy = tx.log_busy
                 /\ z.bridge_busy = tx.bridge_busy /\ tx' = TxDone(z)
    <3> DEFINE z == [tx EXCEPT !.line = "idle", !.sending = None]
    <3>1. /\ z \in Transmitter /\ z.line = "idle" /\ z.sending = None
          /\ z.queue = tx.queue /\ z.buffer = None /\ z.log_busy = tx.log_busy
          /\ z.bridge_busy = tx.bridge_busy
      BY <1>1, <2>8 DEF Transmitter
    <3>2. tx' = TxDone(z)
      BY <2>1
    <3> HIDE DEF z
    <3> QED
      BY <3>1, <3>2
  <2>4. CASE Clean(tx) /\ tx.line = "log"
    <3>1. /\ Clean(tx') /\ Len(tx'.queue) <= Len(tx.queue)
          /\ InFlight(tx) = <<tx.sending>> \o InFlight(tx')
      BY <1>1, <2>1, <2>4, <2>8, <2>9, TxDoneFlight
    <3>2. tx.sending \in Frame
      BY <1>1, <2>4, InFlightSending DEF Clean
    <3>3. /\ FlowOf(host', InFlight(tx')) = FlowOf(host, InFlight(tx))
          /\ Own(host, InFlight(tx)) => Own(host', InFlight(tx'))
          /\ Len(InFlight(tx')) < Len(InFlight(tx))
      <4> DEFINE f == tx.sending
                 p == InFlight(tx)
                 q == InFlight(tx')
      <4>1. /\ host \in Host /\ f \in Frame /\ q \in Seq(Frame) /\ p = InFront(f, q)
            /\ host' = Received(host, f)
        BY <1>1, <2>1, <3>1, <3>2 DEF InFront
      <4>2. host.stream = 0 => host.heard = <<>>
        BY DEF Wired
      <4>3. Own(host, p) \/ Len(p) <= 1
        BY <2>3 DEF Undisturbed
      <4> HIDE DEF f, p, q
      <4>4. /\ FlowOf(host', q) = FlowOf(host, p)
            /\ Own(host, p) => Own(host', q)
            /\ Len(q) < Len(p)
        BY <4>1, <4>2, <4>3, FlowReceived
      <4> QED
        BY <4>4 DEF p, q
    <3>4. Len(InFlight(tx')) \in Nat /\ Len(InFlight(tx)) \in Nat
      BY <1>1, InFlightOK
    <3>5. Own(host', InFlight(tx')) \/ (~session'.active /\ Len(InFlight(tx')) <= 1)
      BY <1>2, <2>3, <3>3, <3>4 DEF Undisturbed
    <3>7. ~InSend'
      BY <1>3, <2>4, <2>8 DEF Astray
    <3>8. loop' = loop /\ irq' = 0 /\ (InPacket' => InPacket)
          /\ (InPacket => session.active /\ Len(tx'.queue) < RingSize - 1)
      <4>1. InPacket => session.active /\ Len(tx.queue) < RingSize - 1
        BY <2>3 DEF Undisturbed
      <4>2. Len(tx'.queue) <= Len(tx.queue) /\ Len(tx.queue) \in Nat /\ Len(tx'.queue) \in Nat
        BY <1>1, <3>1
      <4>3. InPacket => Len(tx'.queue) < RingSize - 1
        BY <4>1, <4>2, Sizes
      <4> QED
        BY <1>2, <1>3, <2>1, <4>1, <4>3
    <3>6. Undisturbed'
      BY <1>2, <2>2, <2>3, <3>1, <3>5, <3>7, <3>8 DEF Undisturbed
    <3> QED
      BY <1>2, <2>2, <3>3, <3>6 DEF Flow
  <2>5. CASE Clean(tx) /\ tx.line = "bridge"
    <3>1. /\ Clean(tx') /\ Len(tx'.queue) <= Len(tx.queue) /\ InFlight(tx) = InFlight(tx')
      BY <1>1, <2>1, <2>5, <2>8, <2>9, TxDoneFlight
    <3>2. host' = host
      BY <2>1, <2>5 DEF Received, Clean
    <3>4. ~InSend'
      <4>1. ~Astray
        BY <2>5 DEF Astray, Clean
      <4> QED
        BY <1>3, <2>8, <4>1
    <3>8. loop' = loop /\ irq' = 0 /\ (InPacket' => InPacket)
          /\ (InPacket => session.active /\ Len(tx'.queue) < RingSize - 1)
      <4>1. InPacket => session.active /\ Len(tx.queue) < RingSize - 1
        BY <2>3 DEF Undisturbed
      <4>2. Len(tx'.queue) <= Len(tx.queue) /\ Len(tx.queue) \in Nat /\ Len(tx'.queue) \in Nat
        BY <1>1, <3>1
      <4>3. InPacket => Len(tx'.queue) < RingSize - 1
        BY <4>1, <4>2, Sizes
      <4> QED
        BY <1>2, <1>3, <2>1, <4>1, <4>3
    <3>3. Undisturbed'
      BY <1>2, <2>3, <3>1, <3>2, <3>4, <3>8 DEF Undisturbed
    <3> QED
      BY <1>2, <2>2, <3>1, <3>2, <3>3 DEF Flow
  <2>6. CASE Astray
    <3> DEFINE x == [tx EXCEPT !.line = "idle", !.sending = None]
    <3>1. ~x.log_busy /\ ~x.bridge_busy /\ x.line = "idle" /\ x.sending = None /\ x.queue = <<>>
          /\ x \in Transmitter /\ x.buffer = None
      BY <1>1, <2>6, <2>8 DEF Astray, Transmitter
    <3>2. tx' = [x EXCEPT !.bridge_busy = FALSE]
      <4>1. tx' = TxDone(x)
        BY <2>1
      <4> HIDE DEF x
      <4> QED
        BY <3>1, <4>1 DEF TxDone
    <3> HIDE DEF x
    <3>3. /\ ~tx'.log_busy /\ ~tx'.bridge_busy /\ tx'.line = "idle" /\ tx'.sending = None
          /\ tx'.queue = <<>> /\ tx'.buffer = None
      BY <3>1, <3>2 DEF Transmitter
    <3>4. Clean(tx') /\ InFlight(tx') = <<>> /\ InFlight(tx) = <<>>
      BY <1>1, <2>6, <2>8, <3>3, InFlightOK DEF Clean, Astray
    <3>7. InSend' => Handing'
      <4>1. InSend => Handing /\ loop.at # "mark"
        BY <2>3, <2>8 DEF Undisturbed
      <4> QED
        BY <1>2, <1>3, <2>1, <3>3, <4>1 DEF Handing
    <3>5. host' = host /\ ~session.active /\ ~InPacket
      BY <2>1, <2>6 DEF Received, Astray
    <3>6. Undisturbed'
      <4>1. Len(InFlight(tx')) <= 1
        BY <3>4
      <4> QED
        BY <1>2, <1>3, <2>1, <3>4, <3>5, <3>7, <4>1 DEF Undisturbed
    <3> QED
      BY <1>2, <2>2, <3>4, <3>5, <3>6 DEF Flow
  <2>7. tx.line \in {"log", "bridge"}
    BY <1>1, <2>1 DEF Transmitter
  <2> QED
    BY <2>3, <2>4, <2>5, <2>6, <2>7, <2>8 DEF Undisturbed
<1> QED
  BY <1>4, <1>5, <1>6, <1>7, <1>8
-----------------------------------------------------------------------------
(* What a step is to the stream of a host that waits. *)

\* START_DUMP: the stream begins with the answer, or there is none.
NewStream(a) ==
    /\ ~session.active /\ ~InPacket' /\ log' = log
    /\ session' = a.session /\ host'.stream = a.rsp.stream /\ ~host'.failed
    /\ Flow' = IF a.rsp.stream = 0 THEN <<>> ELSE <<a.rsp>>

\* The host asks for something else when there is nothing to wait for.
OffStream ==
    /\ ~session.active /\ ~session'.active /\ ~InPacket' /\ Flow' = Flow
    /\ host'.failed <=> host.failed

\* The stream is not touched.
SameStream ==
    /\ session' = session /\ Flow' = Flow
    /\ InPacket' <=> InPacket
    /\ InPacket => loop' = loop
    /\ host'.failed <=> host.failed

\* The interrupt sends a packet.
WholeStep(failing) ==
    /\ session.active /\ ~InPacket /\ ~InPacket'
    /\ session' = WholePacket(session, failing).session
    /\ Flow' = Flow \o WholePacket(session, failing).frames
    /\ host'.failed <=> (host.failed \/ failing # NoFailure)

\* The main loop begins a packet,
BeginStep ==
    /\ session.active /\ ~InPacket /\ session' = BeginPacket(session) /\ Flow' = Flow
    /\ loop.at = "pump" /\ loop'.at = IF session'.active THEN "read" ELSE "pump"
    /\ loop'.tier_end = session'.end_logical[session'.cur_tier]
    /\ loop'.entries = loop.entries
    /\ log' = log /\ (host'.failed <=> host.failed)

\* reads a record,
ReadStep ==
    /\ loop.at = "read" /\ loop'.at = "store" /\ session' = session /\ Flow' = Flow /\ log' = log
    /\ session.next_logical < TotalRecords(session.cur_tier)
    /\ loop'.record = ReadLogical(session.cur_tier, session.next_logical)
    /\ loop'.entries = loop.entries /\ loop'.tier_end = loop.tier_end
    /\ host'.failed <=> host.failed

Stored == [session EXCEPT !.next_logical = @ + 1]

StoredEntry == [label |-> session.next_logical, record |-> loop.record]

\* puts it into the packet,
StoreStep ==
    /\ loop.at = "store" /\ loop'.at = "read" /\ session' = Stored /\ Flow' = Flow /\ log' = log
    /\ loop'.entries = Append(loop.entries, StoredEntry) /\ loop'.tier_end = loop.tier_end
    /\ Len(Append(loop.entries, StoredEntry)) < PerPacket
    /\ Stored.next_logical < loop.tier_end
    /\ host'.failed <=> host.failed

\* and sends it.
EndStep(s, error, entries) ==
    /\ InPacket /\ ~InPacket' /\ log' = log
    /\ session' = EndPacket(s, loop.tier_end, error, entries).session
    /\ Flow' = Flow \o EndPacket(s, loop.tier_end, error, entries).frames

CompleteStep ==
    /\ EndStep(Stored, FALSE, Append(loop.entries, StoredEntry))
    /\ loop.at = "store" /\ (host'.failed <=> host.failed)
    /\ ~(Len(Append(loop.entries, StoredEntry)) < PerPacket /\ Stored.next_logical < loop.tier_end)

FailStep == EndStep(session, TRUE, loop.entries) /\ loop.at = "read" /\ host'.failed

LEMMA StoredOK ==
    ASSUME TypeOK
    PROVE  /\ Stored \in Session /\ Stored.stream = session.stream
           /\ Stored.active <=> session.active
           /\ Stored.next_logical = session.next_logical + 1
           /\ Stored.cur_tier = session.cur_tier /\ Stored.mode = session.mode
           /\ Stored.end_logical = session.end_logical /\ Stored.pkt_num = session.pkt_num
           /\ Stored.first_packet <=> session.first_packet
           /\ StoredEntry \in Record
           /\ loop.entries \in Seq(Record) /\ Append(loop.entries, StoredEntry) \in Seq(Record)
<1>1. session \in Session /\ loop \in Loop /\ session.next_logical \in Nat
      /\ session.next_logical + 1 \in Nat
  BY TypeParts DEF Session
<1>2. Stored \in Session
  BY <1>1 DEF Stored, Session
<1>3. loop.entries \in Seq(Record) /\ StoredEntry \in Record
  BY <1>1 DEF Loop, StoredEntry, Record
<1>4. /\ Stored.stream = session.stream /\ (Stored.active <=> session.active)
      /\ Stored.next_logical = session.next_logical + 1
      /\ Stored.cur_tier = session.cur_tier /\ Stored.mode = session.mode
      /\ Stored.end_logical = session.end_logical /\ Stored.pkt_num = session.pkt_num
      /\ (Stored.first_packet <=> session.first_packet)
  BY <1>1 DEF Stored, Session
<1>5. Append(loop.entries, StoredEntry) \in Seq(Record)
  <2> HIDE DEF StoredEntry
  <2> QED
    BY <1>3
<1> QED
  BY <1>2, <1>3, <1>4, <1>5

LEMMA StreamSteps ==
    ASSUME TypeOK, TypeOK', Transport, [Next]_vars, host'.quiet
    PROVE  /\ Undisturbed'
           /\ \/ \E mode \in Tier \cup {"both"}, start \in Starts :
                        NewStream(StartDump(session, mode, start))
              \/ /\ host.quiet /\ Undisturbed
                 /\ \/ OffStream \/ SameStream
                    \/ \E failing \in {NoFailure} \cup Wanted(session) : WholeStep(failing)
                    \/ BeginStep \/ ReadStep \/ StoreStep \/ CompleteStep \/ FailStep
<1>0. Wired /\ (host.quiet => Undisturbed) /\ host \in Host /\ loop \in Loop /\ session \in Session
  BY TypeParts DEF Transport
<1>1. ASSUME NEW mode \in Tier \cup {"both"}, NEW start \in Starts, RequestStart(mode, start)
      PROVE  Undisturbed' /\ NewStream(StartDump(session, mode, start))
  BY <1>0, <1>1, UndisturbedStart DEF NewStream
<1>2. CASE RequestStop \/ RequestOther
  <2>1. Undisturbed' /\ host.quiet /\ OffStream
    BY <1>0, <1>2, UndisturbedRequests DEF OffStream
  <2> QED
    BY <1>0, <2>1
<1>3. ASSUME NEW failing \in {NoFailure} \cup Wanted(session), Pump(failing)
      PROVE  /\ Undisturbed' /\ host.quiet /\ Undisturbed
             /\ SameStream \/ WholeStep(failing)
  <2> DEFINE p == IF session.active THEN WholePacket(session, failing)
                  ELSE [session |-> session, frames |-> <<>>]
  <2>1. host'.quiet = host.quiet
    <3> DEFINE x == host.failed \/ failing # NoFailure
               y == host.mixed \/ (InPacket /\ p.frames # <<>>)
    <3>1. host' = [host EXCEPT !.failed = x, !.mixed = y]
      BY <1>3 DEF Pump
    <3> HIDE DEF x, y
    <3> QED
      BY <1>0, <3>1 DEF Host
  <2>2. Undisturbed
    BY <1>0, <2>1
  <2>3. /\ Undisturbed' /\ ~InPacket /\ ~InPacket' /\ session' = p.session
        /\ host'.failed <=> (host.failed \/ failing # NoFailure)
        /\ Flow' = Flow \o p.frames
    BY <1>0, <1>3, <2>2, UndisturbedPump
  <2>4. CASE session.active
    BY <2>1, <2>2, <2>3, <2>4 DEF WholeStep
  <2>5. CASE ~session.active
    <3>1. p = [session |-> session, frames |-> <<>>] /\ failing = NoFailure
      BY <1>3, <2>5 DEF Pump
    <3>2. Flow \in Seq(Frame)
      BY <1>0, TypeParts, InFlightOK, ConcatProperties DEF Flow, FlowOf, Host
    <3>3. Flow' = Flow /\ session' = session
      BY <2>3, <3>1, <3>2, ConcatEmptySeq
    <3> QED
      BY <2>1, <2>2, <2>3, <3>1, <3>3 DEF SameStream
  <2> QED
    BY <2>4, <2>5
<1>8. CASE LogTransport_Process \/ PumpEnds \/ TryTxSteps
  <2>1. host' = host /\ host.quiet /\ Undisturbed /\ session' = session
    BY <1>0, <1>8, TryTxStepsKeep DEF LogTransport_Process, PumpEnds
  <2>2. Undisturbed' /\ Flow' = Flow /\ ~InPacket /\ ~InPacket'
    BY <1>0, <1>8, <2>1, UndisturbedSend
  <2> QED
    BY <2>1, <2>2 DEF SameStream
<1>4. CASE NextPacket \/ ReadRecord
  <2>1. host' = host /\ host.quiet /\ Undisturbed
    BY <1>0, <1>4 DEF NextPacket, ReadRecord
  <2>2. Undisturbed' /\ Flow' = Flow
    BY <1>0, <1>4, <2>1, UndisturbedLoop
  <2>4. CASE NextPacket
    <3> DEFINE b == BeginPacket(session)
    <3>1. /\ session.active /\ session' = b /\ log' = log /\ loop.at = "pump"
          /\ loop' = [loop EXCEPT !.budget = @ - 1, !.at = IF b.active THEN "read" ELSE "pump",
                                  !.tier_end = b.end_logical[b.cur_tier]]
      BY <2>4 DEF NextPacket
    <3> HIDE DEF b
    <3>2. /\ loop'.at = (IF b.active THEN "read" ELSE "pump") /\ loop'.entries = loop.entries
          /\ loop'.tier_end = b.end_logical[b.cur_tier]
      BY <1>0, <3>1 DEF Loop
    <3>3. ~InPacket
      BY <3>1 DEF InPacket
    <3>4. BeginStep
      BY <2>1, <2>2, <3>1, <3>2, <3>3 DEF BeginStep, b
    <3> QED
      BY <2>1, <2>2, <3>4
  <2>5. CASE ReadRecord
    <3>1. /\ loop.at = "read" /\ session.next_logical < TotalRecords(session.cur_tier)
          /\ session' = session /\ log' = log
          /\ loop' = [loop EXCEPT !.at = "store",
                                  !.record = ReadLogical(session.cur_tier, session.next_logical)]
      BY <2>5 DEF ReadRecord
    <3>2. /\ loop'.at = "store" /\ loop'.entries = loop.entries /\ loop'.tier_end = loop.tier_end
          /\ loop'.record = ReadLogical(session.cur_tier, session.next_logical)
      BY <1>0, <3>1 DEF Loop
    <3>3. ReadStep
      BY <2>1, <2>2, <3>1, <3>2 DEF ReadStep
    <3> QED
      BY <2>1, <2>2, <3>3
  <2> QED
    BY <1>4, <2>4, <2>5
<1>5. CASE ReadRecordFails
  <2>1. /\ FinishPacket(session, TRUE, loop.entries) /\ irq = 0 /\ irq' = irq /\ log' = log
        /\ loop.at = "read" /\ host' = [host EXCEPT !.failed = TRUE]
    BY <1>5 DEF ReadRecordFails
  <2>2. /\ host'.quiet = host.quiet /\ host'.stream = host.stream /\ host'.heard = host.heard
        /\ host'.failed
    BY <1>0, <2>1 DEF Host
  <2>3. InPacket /\ Undisturbed /\ host.quiet
    BY <1>0, <2>1, <2>2 DEF InPacket
  <2>4. loop.entries \in Seq(Record)
    BY StoredOK
  <2> DEFINE p == EndPacket(session, loop.tier_end, TRUE, loop.entries)
  <2>5. Undisturbed' /\ ~InPacket' /\ session' = p.session /\ Flow' = Flow \o p.frames
    BY <1>0, <2>1, <2>2, <2>3, <2>4, UndisturbedFinish
  <2>6. FailStep
    BY <2>1, <2>2, <2>3, <2>5 DEF FailStep, EndStep
  <2> QED
    BY <2>3, <2>5, <2>6
<1>6. CASE StoreRecord
  <2> DEFINE entries == Append(loop.entries, StoredEntry)
  <2>1. /\ irq = 0 /\ irq' = irq /\ log' = log /\ host' = host /\ loop.at = "store"
        /\ IF Len(entries) < PerPacket /\ Stored.next_logical < loop.tier_end
           THEN /\ session' = Stored
                /\ loop' = [loop EXCEPT !.at = "read", !.entries = entries]
                /\ tx' = tx
           ELSE FinishPacket(Stored, FALSE, entries)
    BY <1>6 DEF StoreRecord, Stored, StoredEntry
  <2>2. InPacket /\ Undisturbed /\ host.quiet
    BY <1>0, <2>1 DEF InPacket
  <2>3. /\ Stored \in Session /\ Stored.stream = session.stream /\ entries \in Seq(Record)
        /\ Stored.active <=> session.active
    BY StoredOK
  <2> HIDE DEF entries
  <2>4. CASE Len(entries) < PerPacket /\ Stored.next_logical < loop.tier_end
    <3>1. loop'.at = "read" /\ loop'.entries = entries /\ loop'.tier_end = loop.tier_end
      BY <1>0, <2>1, <2>4 DEF Loop
    <3>2. Undisturbed' /\ Flow' = Flow
      BY <2>1, <2>2, <2>3, <2>4, <3>1, UndisturbedStore
    <3>3. StoreStep
      BY <2>1, <2>4, <3>1, <3>2 DEF StoreStep, entries
    <3> QED
      BY <2>2, <3>2, <3>3
  <2>5. CASE ~(Len(entries) < PerPacket /\ Stored.next_logical < loop.tier_end)
    <3> DEFINE p == EndPacket(Stored, loop.tier_end, FALSE, entries)
    <3>1. Undisturbed' /\ ~InPacket' /\ session' = p.session /\ Flow' = Flow \o p.frames
      BY <2>1, <2>2, <2>3, <2>5, UndisturbedFinish
    <3>2. CompleteStep
      BY <2>1, <2>2, <2>5, <3>1 DEF CompleteStep, EndStep, entries
    <3> QED
      BY <2>2, <3>1, <3>2
  <2> QED
    BY <2>4, <2>5
<1>7. CASE \/ (\E t \in Tier : PostEvent(t)) \/ TxComplete \/ LineError
           \/ CanMirror \/ BridgeTx \/ EspOff \/ EspOn \/ UNCHANGED vars
  <2>1. /\ host.quiet /\ Undisturbed' /\ Flow' = Flow
        /\ UNCHANGED <<session, loop>> /\ (host'.failed <=> host.failed)
    BY <1>0, <1>7, UndisturbedSurroundings
  <2>2. SameStream
    BY <2>1 DEF SameStream, InPacket
  <2> QED
    BY <1>0, <2>1, <2>2
<1> QED
  BY <1>1, <1>2, <1>3, <1>4, <1>5, <1>6, <1>7, <1>8 DEF Next, Interrupt, MainLoop

LEMMA TransportInit == Init => Transport
BY WiredInit DEF Init, Transport

LEMMA TransportNext ==
    ASSUME TypeOK, TypeOK', Transport, [Next]_vars
    PROVE  Transport'
BY StreamSteps, WiredNext DEF Transport
-----------------------------------------------------------------------------
(* The numbers of the packets. *)

Numbered(F) ==
    \A i \in 1 .. Len(F) :
        IF i = 1 THEN F[i].type = "rsp"
        ELSE /\ F[i].type = "data" /\ F[i].pkt_num = i - 2
             /\ "FIRST" \in F[i].flags <=> i = 2
             /\ "LAST" \in F[i].flags => i = Len(F)

\* The session knows how much of its stream there is.
OpenNumbered(F, s) ==
    /\ Len(F) = s.pkt_num + 1 /\ (s.first_packet <=> s.pkt_num = 0)
    /\ \A i \in 2 .. Len(F) : "LAST" \notin F[i].flags

NumberedFlow ==
    host.quiet => Numbered(Flow) /\ (session.active => OpenNumbered(Flow, session))

LEMMA FlagsAre ==
    ASSUME NEW s, NEW tier_end, NEW error \in BOOLEAN,
           NEW flags, flags = PacketFlags(s, tier_end, error)
    PROVE  /\ "FIRST" \in flags <=> s.first_packet
           /\ "LAST" \in flags <=> error \/ (s.next_logical >= tier_end /\ ~GeneralFollows(s))
           /\ "TIER_CHANGE" \in flags <=>
                ~error /\ GeneralFollows(s) /\ s.next_logical >= s.end_logical["critical"]
BY DEF PacketFlags

LEMMA FlowOK ==
    ASSUME TypeOK
    PROVE  Flow \in Seq(Frame) /\ Len(Flow) \in Nat
<1>1. host.heard \in Seq(Frame) /\ InFlight(tx) \in Seq(Frame)
  BY TypeParts, InFlightOK DEF Host
<1>2. host.heard \o InFlight(tx) \in Seq(Frame)
  BY <1>1, ConcatProperties
<1> QED
  BY <1>1, <1>2, LenProperties DEF Flow, FlowOf

\* One frame more.
LEMMA FlowWithFrame ==
    ASSUME NEW F \in Seq(Frame), NEW f \in Frame, NEW G, G = F \o <<f>>
    PROVE  /\ G \in Seq(Frame) /\ Len(G) = Len(F) + 1 /\ Len(F) \in Nat
           /\ G[Len(F) + 1] = f
           /\ \A i \in 1 .. Len(F) : G[i] = F[i]
<1>1. <<f>> \in Seq(Frame) /\ Len(<<f>>) = 1 /\ <<f>>[1] = f /\ Len(F) \in Nat
  OBVIOUS
<1>2. /\ G \in Seq(Frame) /\ Len(G) = Len(F) + 1
      /\ \A i \in 1 .. Len(F) + 1 : G[i] = IF i <= Len(F) THEN F[i] ELSE <<f>>[i - Len(F)]
  BY <1>1, ConcatProperties
<1>3. G[Len(F) + 1] = f
  <2>1. Len(F) + 1 \in 1 .. Len(F) + 1 /\ ~(Len(F) + 1 <= Len(F)) /\ (Len(F) + 1) - Len(F) = 1
    BY <1>1
  <2> QED
    BY <1>1, <1>2, <2>1
<1> QED
  BY <1>1, <1>2, <1>3

LEMMA NumberedPacket ==
    ASSUME NEW F \in Seq(Frame), NEW s \in Session, Numbered(F), OpenNumbered(F, s),
           NEW tier_end, NEW error \in BOOLEAN, NEW entries \in Seq(Record),
           NEW p, p = EndPacket(s, tier_end, error, entries)
    PROVE  /\ Numbered(F \o p.frames)
           /\ p.session.active => OpenNumbered(F \o p.frames, p.session)
<1> DEFINE flags == PacketFlags(s, tier_end, error)
           f == [type |-> "data", stream |-> s.stream, pkt_num |-> s.pkt_num,
                 tier |-> s.cur_tier, flags |-> flags, entries |-> entries]
           G == F \o p.frames
<1>1. CASE entries = <<>>
  <2>1. p.frames = <<>> /\ ~p.session.active
    <3>1. p.frames = <<>> /\ p.session = [s EXCEPT !.active = FALSE]
      BY <1>1 DEF EndPacket
    <3> QED
      BY <3>1 DEF Session
  <2>2. G = F
    BY <2>1, ConcatEmptySeq
  <2> QED
    BY <2>1, <2>2
<1>2. CASE entries # <<>>
  <2>1. /\ p.session.pkt_num = s.pkt_num + 1 /\ ~p.session.first_packet
        /\ p.session.active <=> s.active /\ "LAST" \notin flags
        /\ p.frames = <<f>>
    BY <1>2, EndPacketIs
  <2>2. /\ f.type = "data" /\ f.pkt_num = s.pkt_num /\ f.flags = flags
        /\ s.pkt_num \in Nat
    BY DEF Session
  <2>3. "FIRST" \in flags <=> s.first_packet
    BY FlagsAre
  <2>4. flags \in SUBSET Flag
    BY PacketFlagsOK
  <2>5. f \in Frame
    BY <2>4 DEF Frame, Session, Flag, Record
  <2> HIDE DEF f, flags
  <2>6. /\ G \in Seq(Frame) /\ Len(G) = Len(F) + 1 /\ Len(F) \in Nat
        /\ G[Len(F) + 1] = f
        /\ \A i \in 1 .. Len(F) : G[i] = F[i]
    BY <2>1, <2>5, FlowWithFrame
  <2> HIDE DEF G
  <2>7. /\ Len(F) = s.pkt_num + 1 /\ (s.first_packet <=> s.pkt_num = 0)
        /\ \A i \in 2 .. Len(F) : "LAST" \notin F[i].flags
    BY DEF OpenNumbered
  <2>8. Numbered(G)
    <3> SUFFICES ASSUME NEW i \in 1 .. Len(G)
                 PROVE  IF i = 1 THEN G[i].type = "rsp"
                        ELSE /\ G[i].type = "data" /\ G[i].pkt_num = i - 2
                             /\ "FIRST" \in G[i].flags <=> i = 2
                             /\ "LAST" \in G[i].flags => i = Len(G)
      BY DEF Numbered
    <3>1. CASE i \in 1 .. Len(F)
      <4>1. G[i] = F[i]
        BY <2>6, <3>1
      <4>2. i # 1 => i \in 2 .. Len(F)
        BY <2>6, <3>1
      <4> QED
        BY <2>7, <3>1, <4>1, <4>2 DEF Numbered
    <3>2. CASE i = Len(F) + 1
      <4>1. G[i] = f /\ i # 1 /\ i - 2 = s.pkt_num /\ (i = 2 <=> s.pkt_num = 0) /\ i = Len(G)
        BY <2>2, <2>6, <2>7, <3>2
      <4> QED
        BY <2>2, <2>3, <2>7, <4>1
    <3> QED
      BY <2>6, <3>1, <3>2
  <2>9. ASSUME p.session.active
        PROVE  OpenNumbered(G, p.session)
    <3>1. \A i \in 2 .. Len(G) : "LAST" \notin G[i].flags
      <4> SUFFICES ASSUME NEW i \in 2 .. Len(G) PROVE "LAST" \notin G[i].flags
        OBVIOUS
      <4>1. CASE i <= Len(F)
        BY <2>6, <2>7, <4>1
      <4>2. CASE i = Len(F) + 1
        BY <2>1, <2>2, <2>6, <2>9, <4>2
      <4> QED
        BY <2>6, <4>1, <4>2
    <3>2. Len(G) = p.session.pkt_num + 1 /\ (p.session.first_packet <=> p.session.pkt_num = 0)
      BY <2>1, <2>2, <2>6, <2>7
    <3> QED
      BY <3>1, <3>2 DEF OpenNumbered
  <2> QED
    BY <2>8, <2>9 DEF G
<1> QED
  BY <1>1, <1>2

\* Only the number of the packet and the mark of the first matter.
LEMMA OpenNumberedSame ==
    ASSUME NEW F, NEW s, NEW t, OpenNumbered(F, s), t.pkt_num = s.pkt_num,
           t.first_packet <=> s.first_packet
    PROVE  OpenNumbered(F, t)
BY DEF OpenNumbered

LEMMA NumberedWhole ==
    ASSUME log \in [Tier -> Nat], NEW F \in Seq(Frame), NEW s \in Session, s.active,
           Numbered(F), OpenNumbered(F, s),
           NEW failing \in {NoFailure} \cup Wanted(s), NEW p, p = WholePacket(s, failing)
    PROVE  /\ Numbered(F \o p.frames)
           /\ p.session.active => OpenNumbered(F \o p.frames, p.session)
<1> DEFINE b == BeginPacket(s)
           t(n) == [b EXCEPT !.next_logical = @ + n]
<1>1. b \in Session /\ b.pkt_num = s.pkt_num /\ (b.first_packet <=> s.first_packet)
  BY BeginPacketOK, BeginPacketKeeps
<1>2. CASE ~b.active
  <2>1. p.session = b /\ p.frames = <<>>
    BY <1>2 DEF WholePacket
  <2>2. F \o p.frames = F
    BY <2>1, ConcatEmptySeq
  <2> QED
    BY <1>2, <2>1, <2>2
<1>3. CASE b.active
  <2>1. PICK n \in Nat, entries \in Seq(Record) :
           /\ t(n) \in Session
           /\ p = EndPacket(t(n), b.end_logical[b.cur_tier], failing # NoFailure, entries)
    BY <1>3, WholePacketIs
  <2> DEFINE u == t(n)
             last == b.end_logical[b.cur_tier]
             error == failing # NoFailure
  <2>2. u.pkt_num = s.pkt_num /\ (u.first_packet <=> s.first_packet)
    BY <1>1 DEF Session
  <2>3. u \in Session /\ p = EndPacket(u, last, error, entries) /\ error \in BOOLEAN
    BY <2>1
  <2> HIDE DEF u, last, error
  <2>4. OpenNumbered(F, u)
    BY <2>2, OpenNumberedSame
  <2> QED
    BY <2>3, <2>4, NumberedPacket
<1> QED
  BY <1>2, <1>3

LEMMA NumberedNext ==
    ASSUME TypeOK, TypeOK', Transport, NumberedFlow, [Next]_vars
    PROVE  NumberedFlow'
<1> SUFFICES ASSUME host'.quiet
             PROVE  Numbered(Flow') /\ (session'.active => OpenNumbered(Flow', session'))
  BY DEF NumberedFlow
<1>0. /\ Flow \in Seq(Frame) /\ session \in Session /\ log \in [Tier -> Nat]
  BY FlowOK, TypeParts
<1>1. ASSUME NEW mode \in Tier \cup {"both"}, NEW start \in Starts,
             NewStream(StartDump(session, mode, start))
      PROVE  Numbered(Flow') /\ (session'.active => OpenNumbered(Flow', session'))
  <2> DEFINE a == StartDump(session, mode, start)
  <2>1. /\ ~session.active /\ session' = a.session
        /\ Flow' = IF a.rsp.stream = 0 THEN <<>> ELSE <<a.rsp>>
    BY <1>1 DEF NewStream
  <2>2. \/ ~a.session.active /\ a.rsp = Response("OUT_OF_RANGE", 0, 0)
        \/ a.session = NoSession /\ a.rsp = Response("OK", panel.next_stream, 0)
        \/ /\ Opened(a.session, mode, start)
           /\ a.rsp = Response("OK", panel.next_stream, Records(mode) - start)
    BY <2>1, StartDumpIs, SurroundingsAssumption
  <2> HIDE DEF a
  <2>3. a.rsp.type = "rsp"
    BY <2>2 DEF Response
  <2>4. Numbered(Flow')
    BY <2>1, <2>3 DEF Numbered
  <2>5. ASSUME a.session.active
        PROVE  OpenNumbered(Flow', session')
    <3>1. Opened(a.session, mode, start) /\ a.rsp.stream = panel.next_stream
      BY <2>2, <2>5 DEF NoSession, Response
    <3>2. Flow' = <<a.rsp>> /\ Len(Flow') = 1
      BY <2>1, <3>1 DEF Transport, Wired
    <3>3. \A i \in 2 .. Len(Flow') : FALSE
      BY <3>2
    <3> QED
      BY <2>1, <3>1, <3>2, <3>3 DEF Opened, OpenNumbered
  <2> QED
    BY <2>1, <2>4, <2>5
<1>2. CASE host.quiet /\ (OffStream \/ SameStream)
  BY <1>2 DEF OffStream, SameStream, NumberedFlow
<1>3. ASSUME host.quiet, NEW failing \in {NoFailure} \cup Wanted(session), WholeStep(failing)
      PROVE  Numbered(Flow') /\ (session'.active => OpenNumbered(Flow', session'))
  <2> DEFINE p == WholePacket(session, failing)
  <2>1. session.active /\ session' = p.session /\ Flow' = Flow \o p.frames
    BY <1>3 DEF WholeStep
  <2>2. Numbered(Flow) /\ OpenNumbered(Flow, session)
    BY <1>3, <2>1 DEF NumberedFlow
  <2>3. /\ Numbered(Flow \o p.frames)
        /\ p.session.active => OpenNumbered(Flow \o p.frames, p.session)
    BY <1>0, <2>1, <2>2, NumberedWhole
  <2> QED
    BY <2>1, <2>3
<1>4. CASE host.quiet /\ (BeginStep \/ ReadStep \/ StoreStep)
  <2>1. /\ Flow' = Flow /\ session'.pkt_num = session.pkt_num
        /\ session'.first_packet <=> session.first_packet
        /\ session'.active => session.active
    BY <1>0, <1>4, BeginPacketKeeps, StoredOK DEF BeginStep, ReadStep, StoreStep
  <2> QED
    BY <1>4, <2>1, OpenNumberedSame DEF NumberedFlow
<1>5. ASSUME host.quiet, Undisturbed, NEW s \in Session, NEW error \in BOOLEAN,
             NEW entries \in Seq(Record), EndStep(s, error, entries),
             s.pkt_num = session.pkt_num, s.first_packet <=> session.first_packet
      PROVE  Numbered(Flow') /\ (session'.active => OpenNumbered(Flow', session'))
  <2> DEFINE p == EndPacket(s, loop.tier_end, error, entries)
  <2>1. InPacket /\ session' = p.session /\ Flow' = Flow \o p.frames
    BY <1>5 DEF EndStep
  <2>2. session.active
    BY <1>5, <2>1 DEF Undisturbed
  <2>3. Numbered(Flow) /\ OpenNumbered(Flow, s)
    BY <1>5, <2>2, OpenNumberedSame DEF NumberedFlow
  <2>4. /\ Numbered(Flow \o p.frames)
        /\ p.session.active => OpenNumbered(Flow \o p.frames, p.session)
    BY <1>0, <1>5, <2>3, NumberedPacket
  <2> QED
    BY <2>1, <2>4
<1>6. CASE host.quiet /\ Undisturbed /\ CompleteStep
  BY <1>5, <1>6, StoredOK DEF CompleteStep
<1>7. CASE host.quiet /\ Undisturbed /\ FailStep
  BY <1>0, <1>5, <1>7, StoredOK DEF FailStep
<1> QED
  BY <1>1, <1>2, <1>3, <1>4, <1>6, <1>7, StreamSteps

LEMMA NumberedInit == Init => NumberedFlow
BY DEF Init, NumberedFlow

\* What has arrived is the beginning of what has been sent.
LEMMA HeardIsSent ==
    ASSUME TypeOK
    PROVE  /\ host.heard \in Seq(Frame) /\ Len(host.heard) \in Nat
           /\ Len(host.heard) <= Len(Flow)
           /\ \A i \in 1 .. Len(host.heard) : host.heard[i] = Flow[i]
<1>1. host.heard \in Seq(Frame) /\ InFlight(tx) \in Seq(Frame)
      /\ Len(host.heard) \in Nat /\ Len(InFlight(tx)) \in Nat
  BY TypeParts, InFlightOK DEF Host
<1> DEFINE h == host.heard
           p == InFlight(tx)
<1>2. /\ Len(h \o p) = Len(h) + Len(p)
      /\ \A i \in 1 .. Len(h) + Len(p) : (h \o p)[i] = IF i <= Len(h) THEN h[i] ELSE p[i - Len(h)]
  BY <1>1, ConcatProperties
<1>3. Flow = h \/ Flow = h \o p
  BY DEF Flow, FlowOf
<1> HIDE DEF h, p
<1>4. CASE Flow = h
  BY <1>1, <1>4 DEF h
<1>5. CASE Flow = h \o p
  <2>1. \A i \in 1 .. Len(h) : (h \o p)[i] = h[i]
    BY <1>1, <1>2 DEF h, p
  <2> QED
    BY <1>1, <1>2, <1>5, <2>1 DEF h, p
<1> QED
  BY <1>3, <1>4, <1>5

\* The answer first, then the packets numbered without a gap, the first of
\* them marked and nothing behind the last: so it is for every host that waits
\* for the end of its stream, whatever the log, the bridge and the main loop do
\* (log_stream.c, log_transport.c).
THEOREM NumberedWithoutGapAlways == Spec => []NumberedWithoutGap
<1>1. Init => TypeOK /\ Transport /\ NumberedFlow
  BY TypeInit, TransportInit, NumberedInit
<1>2. TypeOK /\ Transport /\ NumberedFlow /\ [Next]_vars => (TypeOK /\ Transport /\ NumberedFlow)'
  BY TypeNext, TransportNext, NumberedNext
<1>3. TypeOK /\ NumberedFlow => NumberedWithoutGap
  <2> SUFFICES ASSUME TypeOK, NumberedFlow, host.quiet, NEW i \in DOMAIN host.heard
               PROVE  IF i = 1 THEN host.heard[i].type = "rsp"
                      ELSE /\ host.heard[i].type = "data" /\ host.heard[i].pkt_num = i - 2
                           /\ "FIRST" \in host.heard[i].flags <=> i = 2
                           /\ "LAST" \in host.heard[i].flags => i = Len(host.heard)
    BY DEF NumberedWithoutGap, InSequence
  <2>1. /\ i \in 1 .. Len(host.heard) /\ Len(host.heard) \in Nat /\ Len(Flow) \in Nat
        /\ Len(host.heard) <= Len(Flow) /\ host.heard[i] = Flow[i]
    BY HeardIsSent, FlowOK, LenProperties
  <2>2. i \in 1 .. Len(Flow) /\ (i = Len(Flow) => i = Len(host.heard))
    BY <2>1
  <2> QED
    BY <2>1, <2>2 DEF NumberedFlow, Numbered
<1> QED
  BY <1>1, <1>2, <1>3, PTL DEF Spec
-----------------------------------------------------------------------------
(* The records. *)

\* How many records of a tier a log holds, and the number of the record under
\* a logical index of it.
Held(lg, t) == Lesser(lg[t], Capacity)
Number(lg, t, logical) == lg[t] - Held(lg, t) + logical + 1

LEMMA NumberOK ==
    ASSUME NEW lg \in [Tier -> Nat], NEW t \in Tier, NEW l \in Nat
    PROVE  /\ lg[t] \in Nat /\ Held(lg, t) \in Nat /\ Held(lg, t) <= lg[t]
           /\ Number(lg, t, l) \in Nat /\ Number(lg, t, l) > 0
           /\ Number(lg, t, l + 1) = Number(lg, t, l) + 1
<1>1. lg[t] \in Nat /\ Held(lg, t) \in Nat /\ Held(lg, t) <= lg[t]
  BY Sizes DEF Held, Lesser
<1> QED
  BY <1>1 DEF Number

LEMMA NumberGrows ==
    ASSUME NEW lg \in [Tier -> Nat], NEW new \in [Tier -> Nat], NEW t \in Tier, NEW l \in Nat,
           new[t] >= lg[t]
    PROVE  Held(new, t) >= Held(lg, t) /\ Number(new, t, l) >= Number(lg, t, l)
<1>1. /\ lg[t] \in Nat /\ new[t] \in Nat
  OBVIOUS
<1>2. /\ Held(lg, t) \in Nat /\ Held(new, t) \in Nat
      /\ Held(new, t) >= Held(lg, t)
      /\ new[t] - Held(new, t) >= lg[t] - Held(lg, t)
  BY <1>1, Sizes DEF Held, Lesser
<1> QED
  BY <1>1, <1>2 DEF Number

LEMMA ReadLogicalIs ==
    ASSUME NEW t \in Tier, NEW l \in Nat
    PROVE  ReadLogical(t, l) \in {EmptyRecord, Number(log, t, l)}
BY DEF ReadLogical, Number, Held, TotalRecords

LEMMA LogGrows ==
    ASSUME TypeOK, TypeOK', [Next]_vars, NEW t \in Tier
    PROVE  log'[t] >= log[t] /\ log[t] \in Nat /\ log'[t] \in Nat
<1>0. log \in [Tier -> Nat] /\ log' \in [Tier -> Nat]
  BY TypeParts DEF TypeOK
<1>1. CASE log' = log
  BY <1>0, <1>1
<1>2. ASSUME NEW u \in Tier, NEW n \in Nat, n >= log[u], log' = [log EXCEPT ![u] = n]
      PROVE  log'[t] >= log[t]
  BY <1>0, <1>2
<1>3. CASE \E failing \in {NoFailure} \cup Wanted(session) : Pump(failing)
  <2> DEFINE n == IF panel.linked THEN log["critical"] ELSE log["critical"] + 1
  <2>1. log' = log \/ log' = [log EXCEPT !["critical"] = n]
    BY <1>3 DEF Pump, LogHostLink
  <2>2. log["critical"] \in Nat /\ "critical" \in Tier
    BY <1>0 DEF Tier
  <2>3. n \in Nat /\ n >= log["critical"]
    BY <2>2
  <2> HIDE DEF n
  <2> QED
    BY <1>0, <1>1, <1>2, <2>1, <2>2, <2>3
<1>4. CASE \E u \in Tier : PostEvent(u)
  <2>1. PICK u \in Tier : log' = [log EXCEPT ![u] = @ + 1]
    BY <1>4 DEF PostEvent
  <2>2. log[u] + 1 \in Nat /\ log[u] + 1 >= log[u]
    BY <1>0
  <2> QED
    BY <1>0, <1>2, <2>1, <2>2
<1>5. CASE \/ (\E mode \in Tier \cup {"both"}, start \in Starts : RequestStart(mode, start))
           \/ RequestStop \/ RequestOther \/ TxComplete \/ LineError
           \/ LogTransport_Process \/ NextPacket \/ PumpEnds
           \/ ReadRecord \/ ReadRecordFails \/ StoreRecord
           \/ CanMirror \/ BridgeTx \/ EspOff \/ EspOn \/ UNCHANGED vars
  <2>1. log' = log
    BY <1>5 DEF RequestStart, RequestStop, RequestOther, TxComplete, LineError,
                LogTransport_Process, NextPacket, PumpEnds, ReadRecord, ReadRecordFails,
                StoreRecord, CanMirror, BridgeTx, EspOff, EspOn, vars
  <2> QED
    BY <1>1, <2>1
<1>6. CASE TryTxSteps
  BY <1>1, <1>6, TryTxStepsKeep
<1> QED
  BY <1>0, <1>3, <1>4, <1>5, <1>6 DEF Next, Interrupt, MainLoop

LEMMA LeftEmpty ==
    ASSUME NEW next
    PROVE  /\ Left(next).entries = <<>>
           /\ TestUart(next) => loop' = Left(next) \/ loop'.entries = <<>>
BY DEF Left, TestUart, Resting

\* Outside a packet the main loop has gathered nothing.
GathersInPacket == ~InPacket => loop.entries = <<>>

LEMMA GathersNext ==
    ASSUME TypeOK, GathersInPacket, [Next]_vars
    PROVE  GathersInPacket'
<1>0. loop \in Loop
  BY TypeParts
<1>1. ASSUME NEW s, NEW error, NEW entries, FinishPacket(s, error, entries)
      PROVE  loop'.entries = <<>>
  <2>1. loop' = [loop EXCEPT !.at = "pump", !.entries = <<>>, !.record = 0]
    BY <1>1 DEF FinishPacket
  <2> QED
    BY <1>0, <2>1 DEF Loop
<1>2. CASE loop' = loop
  BY <1>2 DEF GathersInPacket, InPacket
<1>9. ASSUME CrossLoop
      PROVE  GathersInPacket'
  <2>1. CASE loop.at = "copy"
    <3>1. loop' = [loop EXCEPT !.at = "crossed"]
      BY <1>9, <2>1 DEF CrossLoop
    <3>2. loop'.entries = loop.entries
      BY <1>0, <3>1 DEF Loop
    <3> QED
      BY <2>1, <3>2 DEF GathersInPacket, InPacket
  <2>2. CASE loop.at # "copy"
    BY <1>2, <1>9, <2>2 DEF CrossLoop
  <2> QED
    BY <2>1, <2>2
<1>10. ASSUME NEW next \in {"idle", "pump"}, loop' = Left(next) \/ TestUart(next)
       PROVE  GathersInPacket'
  <2>1. loop'.entries = <<>>
    BY <1>10, LeftEmpty DEF TestUart
  <2> QED
    BY <2>1 DEF GathersInPacket
<1>3. CASE LogTransport_Process \/ PumpEnds
  BY <1>3, <1>10 DEF LogTransport_Process, PumpEnds
<1>11. CASE TryTxSteps
  <2>1. loop.next \in {"idle", "pump"} /\ loop.at \notin {"read", "store"}
    BY <1>0, <1>11, TryTxStepsKeep DEF Loop, InSend
  <2>2. CASE loop'.entries = loop.entries
    BY <2>1, <2>2 DEF GathersInPacket, InPacket
  <2>3. CASE CopyFrame \/ CopyCrossed
    <3>1. loop' = [loop EXCEPT !.at = "send", !.frame = None]
      BY <2>3 DEF CopyFrame, CopyCrossed
    <3> QED
      BY <1>0, <2>2, <3>1 DEF Loop
  <2>4. CASE LookAtRing
    <3> DEFINE g == Head(tx.queue)
    <3>1. loop' = Left(loop.next) \/ loop' = [loop EXCEPT !.at = "copy", !.frame = g]
      BY <2>4 DEF LookAtRing
    <3> HIDE DEF g
    <3>2. CASE loop' = [loop EXCEPT !.at = "copy", !.frame = g]
      BY <1>0, <2>2, <3>2 DEF Loop
    <3> QED
      BY <1>10, <2>1, <3>1, <3>2
  <2>5. CASE SendBuffer
    <3>1. loop' = Left(loop.next) \/ loop' = [loop EXCEPT !.at = "mark"]
      BY <2>5 DEF SendBuffer
    <3>2. CASE loop' = [loop EXCEPT !.at = "mark"]
      BY <1>0, <2>2, <3>2 DEF Loop
    <3> QED
      BY <1>10, <2>1, <3>1, <3>2
  <2>6. CASE MarkBusy
    BY <1>10, <2>1, <2>6 DEF MarkBusy
  <2> QED
    BY <1>11, <2>3, <2>4, <2>5, <2>6 DEF TryTxSteps
<1>4. CASE NextPacket
  <2>1. /\ loop.at = "pump"
        /\ \E b, a, e : loop' = [loop EXCEPT !.budget = b, !.at = a, !.tier_end = e]
    BY <1>4 DEF NextPacket
  <2>2. loop'.entries = loop.entries
    BY <1>0, <2>1 DEF Loop
  <2> QED
    BY <2>1, <2>2 DEF GathersInPacket, InPacket
<1>5. CASE ReadRecord
  <2>1. \E r : loop' = [loop EXCEPT !.at = "store", !.record = r]
    BY <1>5 DEF ReadRecord
  <2>2. loop'.at = "store"
    BY <1>0, <2>1 DEF Loop
  <2> QED
    BY <2>2 DEF GathersInPacket, InPacket
<1>6. CASE ReadRecordFails
  BY <1>1, <1>6 DEF ReadRecordFails, GathersInPacket
<1>7. CASE StoreRecord
  <2>1. CASE \E entries : loop' = [loop EXCEPT !.at = "read", !.entries = entries]
    <3>1. loop'.at = "read"
      BY <1>0, <2>1 DEF Loop
    <3> QED
      BY <3>1 DEF GathersInPacket, InPacket
  <2>2. CASE \E s, error, entries : FinishPacket(s, error, entries)
    BY <1>1, <2>2 DEF GathersInPacket
  <2> QED
    BY <1>7, <2>1, <2>2 DEF StoreRecord
<1>8. CASE \/ (\E mode \in Tier \cup {"both"}, start \in Starts : RequestStart(mode, start))
           \/ (\E failing \in {NoFailure} \cup Wanted(session) : Pump(failing))
           \/ RequestStop \/ RequestOther \/ LineError
  <2>1. CrossLoop \/ loop' = loop
    BY <1>8 DEF RequestStart, RequestStop, RequestOther, LineError, Pump
  <2> QED
    BY <1>2, <1>9, <2>1
<1>12. CASE \/ (\E t \in Tier : PostEvent(t)) \/ TxComplete
            \/ CanMirror \/ BridgeTx \/ EspOff \/ EspOn \/ UNCHANGED vars
  <2>1. loop' = loop
    BY <1>12 DEF TxComplete, PostEvent, CanMirror, BridgeTx, EspOff, EspOn, vars
  <2> QED
    BY <1>2, <2>1
<1> QED
  BY <1>3, <1>4, <1>5, <1>6, <1>7, <1>8, <1>11, <1>12 DEF Next, Interrupt, MainLoop
=============================================================================
