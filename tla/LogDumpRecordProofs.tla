-------------------------- MODULE LogDumpRecordProofs --------------------------
(***************************************************************************)
(* The records of a stream: they come in the order of the log, and a host  *)
(* that waits for the end gets as many as it was promised.  A host that    *)
(* does not wait may miss frames, and still gets the others in order.      *)
(***************************************************************************)
EXTENDS LogDumpProofs

Follows(p, e) ==
    /\ e.label = p.label + 1
    /\ EmptyRecord \notin {e.record, p.record} => e.record > p.record

Final(f) == f.entries[Len(f.entries)]

Chain(E) == \A k \in 2 .. Len(E) : Follows(E[k - 1], E[k])

\* What may begin the packet behind g.
Link(g, t, e) ==
    IF g.tier = t
    THEN Follows(Final(g), e) /\ "TIER_CHANGE" \notin g.flags
    ELSE g.tier = "critical" /\ t = "general" /\ e.label = 0 /\ "TIER_CHANGE" \in g.flags

InOrder(F) ==
    /\ \A i \in 2 .. Len(F) : F[i].type = "data" /\ F[i].entries # <<>> /\ Chain(F[i].entries)
    /\ \A i \in 3 .. Len(F) : Link(F[i - 1], F[i].tier, F[i].entries[1])

\* No later read under the index of e can be of an older record.
Known(lg, t, e) == e.record <= Number(lg, t, e.label)

\* The session goes on where the packet g ended.
Ready(lg, g, s) ==
    IF g.tier = s.cur_tier
    THEN /\ Final(g).label + 1 = s.next_logical /\ Known(lg, g.tier, Final(g))
         /\ "TIER_CHANGE" \notin g.flags
    ELSE /\ g.tier = "critical" /\ s.cur_tier = "general" /\ s.next_logical = 0
         /\ "TIER_CHANGE" \in g.flags

\* The stream F is open at the next record of s, E the packet being gathered.
OpenAt(lg, F, s, E) ==
    /\ \A t \in Tier : s.end_logical[t] <= Held(lg, t)
    /\ Chain(E)
    /\ E # <<>> => E[Len(E)].label + 1 = s.next_logical /\ Known(lg, s.cur_tier, E[Len(E)])
    /\ Len(F) > 1 => IF E # <<>> THEN Link(F[Len(F)], s.cur_tier, E[1])
                                 ELSE Ready(lg, F[Len(F)], s)

\* The session at its next read, and what it has read for the packet.
Position ==
    IF loop.at = "read" THEN session
    ELSE IF loop.at = "store" THEN Stored ELSE BeginPacket(session)

Gathered ==
    IF loop.at = "read" THEN loop.entries
    ELSE IF loop.at = "store" THEN Append(loop.entries, StoredEntry) ELSE <<>>

\* The packet of the main loop has room for the record at hand.
PacketHasRoom ==
    /\ loop.tier_end = session.end_logical[session.cur_tier]
    /\ session.next_logical < loop.tier_end
    /\ Len(loop.entries) < PerPacket

OrderedFlow ==
    host.quiet =>
        /\ InOrder(Flow)
        /\ session.active => Position.active /\ OpenAt(log, Flow, Position, Gathered)
        /\ session.active /\ InPacket => PacketHasRoom
-----------------------------------------------------------------------------
LEMMA InOrderIsTyped ==
    ASSUME NEW F \in Seq(Frame), InOrder(F), NEW i \in 2 .. Len(F)
    PROVE  /\ F[i].entries \in Seq(Record) /\ F[i].tier \in Tier /\ F[i].entries # <<>>
           /\ Len(F[i].entries) \in Nat /\ Len(F[i].entries) > 0 /\ Final(F[i]) \in Record
<1>1. F[i] \in Frame /\ F[i].type = "data" /\ F[i].entries # <<>>
  BY DEF InOrder
<1>2. F[i].entries \in Seq(Record) /\ F[i].tier \in Tier
  BY <1>1 DEF Frame, Record
<1>3. Len(F[i].entries) \in Nat /\ Len(F[i].entries) > 0
  BY <1>1, <1>2
<1>4. Final(F[i]) \in Record
  BY <1>2, <1>3 DEF Final
<1> QED
  BY <1>1, <1>2, <1>3, <1>4

\* A log that grows leaves the stream open.
LEMMA OpenGrows ==
    ASSUME NEW lg \in [Tier -> Nat], NEW new \in [Tier -> Nat], \A t \in Tier : new[t] >= lg[t],
           NEW F \in Seq(Frame), InOrder(F), NEW s \in Session, NEW E \in Seq(Record),
           OpenAt(lg, F, s, E)
    PROVE  OpenAt(new, F, s, E)
<1>0. s.cur_tier \in Tier /\ s.end_logical \in [Tier -> 0 .. Capacity] /\ Len(E) \in Nat
  BY DEF Session
<1>1. ASSUME NEW t \in Tier, NEW e \in Record, Known(lg, t, e)
      PROVE  Known(new, t, e)
  <2>1. e.label \in Nat /\ e.record \in Nat
    BY DEF Record
  <2>2. /\ Number(lg, t, e.label) \in Nat /\ Number(new, t, e.label) \in Nat
        /\ Number(new, t, e.label) >= Number(lg, t, e.label)
    BY <2>1, NumberOK, NumberGrows
  <2> QED
    BY <1>1, <2>1, <2>2 DEF Known
<1>2. \A t \in Tier : s.end_logical[t] <= Held(new, t)
  <2> SUFFICES ASSUME NEW t \in Tier PROVE s.end_logical[t] <= Held(new, t)
    OBVIOUS
  <2>1. Held(new, t) >= Held(lg, t) /\ Held(new, t) \in Nat /\ Held(lg, t) \in Nat
    <3>1. 0 \in Nat
      OBVIOUS
    <3> QED
      BY <3>1, NumberOK, NumberGrows
  <2>2. s.end_logical[t] \in Nat /\ s.end_logical[t] <= Held(lg, t)
    BY <1>0, Sizes DEF OpenAt
  <2> QED
    BY <2>1, <2>2
<1>3. E # <<>> => E[Len(E)] \in Record
  BY <1>0
<1>4. E # <<>> => Known(new, s.cur_tier, E[Len(E)])
  BY <1>0, <1>1, <1>3 DEF OpenAt
<1>5. ASSUME Len(F) > 1, E = <<>>
      PROVE  Ready(new, F[Len(F)], s)
  <2>1. Len(F) \in 2 .. Len(F)
    BY <1>5
  <2>2. Final(F[Len(F)]) \in Record /\ F[Len(F)].tier \in Tier
    BY <2>1, InOrderIsTyped
  <2>3. Ready(lg, F[Len(F)], s)
    BY <1>5 DEF OpenAt
  <2> QED
    BY <1>1, <2>2, <2>3 DEF Ready
<1> QED
  BY <1>2, <1>4, <1>5 DEF OpenAt

\* A read yields the record behind those read before.
LEMMA EntryFollows ==
    ASSUME log \in [Tier -> Nat], NEW t \in Tier, NEW l \in Nat,
           NEW e, e = [label |-> l, record |-> ReadLogical(t, l)]
    PROVE  /\ e \in Record /\ Known(log, t, e)
           /\ \A p \in Record : p.label + 1 = l /\ Known(log, t, p) => Follows(p, e)
<1>1. e.label = l /\ e.record = ReadLogical(t, l)
  OBVIOUS
<1>2. e.record \in {EmptyRecord, Number(log, t, l)} /\ e.record \in Nat
  BY <1>1, ReadLogicalIs, ReadLogicalOK
<1>3. e \in Record
  BY <1>2 DEF Record
<1>4. Number(log, t, l) \in Nat /\ Number(log, t, l) > 0
  BY NumberOK
<1>5. Known(log, t, e)
  BY <1>1, <1>2, <1>4 DEF Known, EmptyRecord
<1>6. ASSUME NEW p \in Record, p.label + 1 = l, Known(log, t, p)
      PROVE  Follows(p, e)
  <2>1. p.label \in Nat /\ p.record \in Nat
    BY DEF Record
  <2>2. Number(log, t, p.label) \in Nat /\ Number(log, t, l) = Number(log, t, p.label) + 1
    BY <1>6, <2>1, NumberOK
  <2>3. p.record <= Number(log, t, p.label)
    BY <1>6 DEF Known
  <2>4. EmptyRecord # e.record => e.record > p.record
    BY <1>2, <2>1, <2>2, <2>3
  <2> QED
    BY <1>1, <1>6, <2>4 DEF Follows
<1> QED
  BY <1>3, <1>5, <1>6

\* One record more.
LEMMA OneMore ==
    ASSUME log \in [Tier -> Nat], NEW F \in Seq(Frame), InOrder(F),
           NEW s \in Session, NEW E \in Seq(Record), OpenAt(log, F, s, E),
           NEW e, e = [label |-> s.next_logical,
                       record |-> ReadLogical(s.cur_tier, s.next_logical)],
           NEW c \in Session, c.next_logical = s.next_logical + 1, c.cur_tier = s.cur_tier,
           c.end_logical = s.end_logical
    PROVE  OpenAt(log, F, c, Append(E, e))
<1>1. s.cur_tier \in Tier /\ s.next_logical \in Nat /\ Len(E) \in Nat
  BY DEF Session
<1>2. /\ e \in Record /\ Known(log, s.cur_tier, e) /\ e.label = s.next_logical
      /\ \A p \in Record : p.label + 1 = s.next_logical /\ Known(log, s.cur_tier, p) => Follows(p, e)
  BY <1>1, EntryFollows
<1> DEFINE D == Append(E, e)
<1>3. /\ D \in Seq(Record) /\ Len(D) = Len(E) + 1 /\ D # <<>> /\ D[Len(D)] = e
      /\ \A k \in 1 .. Len(E) : D[k] = E[k]
  <2>1. /\ D \in Seq(Record) /\ Len(D) = Len(E) + 1 /\ D[Len(E) + 1] = e
        /\ \A k \in 1 .. Len(E) : D[k] = E[k]
    BY <1>1, <1>2, AppendProperties
  <2> HIDE DEF D
  <2> QED
    BY <1>1, <2>1, EmptySeq
<1> HIDE DEF D
<1>4. Chain(D)
  <2> SUFFICES ASSUME NEW k \in 2 .. Len(D) PROVE Follows(D[k - 1], D[k])
    BY DEF Chain
  <2>1. CASE k \in 2 .. Len(E)
    <3>1. D[k] = E[k] /\ D[k - 1] = E[k - 1]
      BY <1>1, <1>3, <2>1, SMTT(20)
    <3> QED
      BY <2>1, <3>1 DEF OpenAt, Chain
  <2>2. CASE k = Len(E) + 1
    <3>1. E # <<>> /\ D[k] = e /\ D[k - 1] = E[Len(E)] /\ E[Len(E)] \in Record
      <4>1. k = Len(D) /\ k - 1 = Len(E) /\ Len(E) \in 1 .. Len(E)
        BY <1>1, <1>3, <2>2
      <4> QED
        BY <1>1, <1>3, <4>1
    <3>2. E[Len(E)].label + 1 = s.next_logical /\ Known(log, s.cur_tier, E[Len(E)])
      BY <3>1 DEF OpenAt
    <3> QED
      BY <1>2, <3>1, <3>2
  <2> QED
    BY <1>1, <1>3, <2>1, <2>2
<1>5. ASSUME Len(F) > 1
      PROVE  Link(F[Len(F)], c.cur_tier, D[1])
  <2>1. CASE E # <<>>
    <3>1. D[1] = E[1]
      BY <1>1, <1>3, <2>1
    <3> QED
      BY <1>5, <2>1, <3>1 DEF OpenAt
  <2>2. CASE E = <<>>
    <3>1. D[1] = e
      BY <1>1, <1>3, <2>2
    <3>2. Ready(log, F[Len(F)], s)
      BY <1>5, <2>2 DEF OpenAt
    <3>3. Len(F) \in 2 .. Len(F)
      BY <1>5
    <3>4. Final(F[Len(F)]) \in Record
      BY <3>3, InOrderIsTyped
    <3> QED
      BY <1>2, <3>1, <3>2, <3>4 DEF Ready, Link
  <2> QED
    BY <2>1, <2>2
<1>6. \A t \in Tier : c.end_logical[t] <= Held(log, t)
  BY DEF OpenAt
<1> QED
  BY <1>2, <1>3, <1>4, <1>5, <1>6 DEF OpenAt, D
\* A whole packet of records.
LEMMA ManyMore ==
    ASSUME log \in [Tier -> Nat], NEW F \in Seq(Frame), InOrder(F),
           NEW s \in Session, OpenAt(log, F, s, <<>>), NEW n \in Nat \ {0},
           NEW E \in Seq(Record), E = [k \in 1 .. n |-> Entry(s, s.next_logical + k - 1)],
           NEW c \in Session, c.next_logical = s.next_logical + n, c.cur_tier = s.cur_tier,
           c.end_logical = s.end_logical
    PROVE  OpenAt(log, F, c, E)
<1>1. s.cur_tier \in Tier /\ s.next_logical \in Nat
  BY DEF Session
<1> DEFINE e(k) == [label |-> s.next_logical + k - 1,
                    record |-> ReadLogical(s.cur_tier, s.next_logical + k - 1)]
<1>2. Len(E) = n /\ \A k \in 1 .. n : E[k] = e(k)
  BY DEF Entry
<1>3. ASSUME NEW k \in 1 .. n
      PROVE  /\ e(k) \in Record /\ Known(log, s.cur_tier, e(k))
             /\ e(k).label = s.next_logical + k - 1
             /\ \A p \in Record : p.label + 1 = s.next_logical + k - 1 /\ Known(log, s.cur_tier, p)
                                    => Follows(p, e(k))
  <2>1. s.next_logical + k - 1 \in Nat
    BY <1>1
  <2> QED
    BY <1>1, <2>1, EntryFollows
<1> HIDE DEF e
<1>4. Chain(E)
  <2> SUFFICES ASSUME NEW k \in 2 .. n PROVE Follows(E[k - 1], E[k])
    BY <1>2 DEF Chain
  <2>1. k \in 1 .. n /\ k - 1 \in 1 .. n /\ E[k - 1] = e(k - 1) /\ E[k] = e(k)
    BY <1>2
  <2>2. e(k - 1).label + 1 = s.next_logical + k - 1
    <3>1. e(k - 1).label = s.next_logical + (k - 1) - 1
      BY <1>3, <2>1
    <3>2. \A x \in Nat : x + (k - 1) - 1 + 1 = x + k - 1
      OBVIOUS
    <3> QED
      BY <1>1, <3>1, <3>2
  <2> QED
    BY <1>3, <2>1, <2>2
<1>5. E # <<>> /\ 1 \in 1 .. n /\ n \in 1 .. n /\ E[Len(E)] = e(n) /\ E[1] = e(1)
  <2>1. 1 \in 1 .. n /\ n \in 1 .. n
    OBVIOUS
  <2>2. E # <<>>
    BY <1>2, EmptySeq
  <2> QED
    BY <1>2, <2>1, <2>2
<1>6. E[Len(E)].label + 1 = c.next_logical /\ Known(log, c.cur_tier, E[Len(E)])
  <2>1. e(n).label = s.next_logical + n - 1 /\ Known(log, s.cur_tier, e(n))
    BY <1>3, <1>5
  <2> QED
    BY <1>1, <1>5, <2>1
<1>7. ASSUME Len(F) > 1
      PROVE  Link(F[Len(F)], c.cur_tier, E[1])
  <2>1. Ready(log, F[Len(F)], s)
    BY <1>7 DEF OpenAt
  <2>2. Len(F) \in 2 .. Len(F)
    BY <1>7
  <2>3. Final(F[Len(F)]) \in Record
    BY <2>2, InOrderIsTyped
  <2>4. /\ e(1).label = s.next_logical
        /\ \A p \in Record : p.label + 1 = s.next_logical /\ Known(log, s.cur_tier, p)
                                => Follows(p, e(1))
    <3>1. s.next_logical + 1 - 1 = s.next_logical
      BY <1>1
    <3> QED
      BY <1>3, <1>5, <3>1
  <2> QED
    BY <1>5, <2>1, <2>3, <2>4 DEF Ready, Link
<1>8. \A t \in Tier : c.end_logical[t] <= Held(log, t)
  BY DEF OpenAt
<1> QED
  BY <1>4, <1>5, <1>6, <1>7, <1>8 DEF OpenAt

\* The packet is sent; the session rests or goes on behind it.
LEMMA ClosePacket ==
    ASSUME log \in [Tier -> Nat], NEW F \in Seq(Frame), InOrder(F),
           NEW s \in Session, s.active, NEW E \in Seq(Record), OpenAt(log, F, s, E),
           NEW error \in BOOLEAN, NEW last, last = s.end_logical[s.cur_tier],
           NEW p, p = EndPacket(s, last, error, E)
    PROVE  /\ InOrder(F \o p.frames)
           /\ p.session.active => /\ BeginPacket(p.session).active
                                  /\ OpenAt(log, F \o p.frames, BeginPacket(p.session), <<>>)
<1> DEFINE flags == PacketFlags(s, last, error)
           f == [type |-> "data", stream |-> s.stream, pkt_num |-> s.pkt_num,
                 tier |-> s.cur_tier, flags |-> flags, entries |-> E]
           G == F \o p.frames
           r == p.session
           b == BeginPacket(r)
<1>1. CASE E = <<>>
  <2>1. p.frames = <<>> /\ ~p.session.active
    <3>1. p.frames = <<>> /\ p.session = [s EXCEPT !.active = FALSE]
      BY <1>1 DEF EndPacket
    <3> QED
      BY <3>1 DEF Session
  <2>2. G = F
    BY <2>1, ConcatEmptySeq
  <2> QED
    BY <2>1, <2>2
<1>2. CASE E # <<>>
  <2>1. /\ r.next_logical = s.next_logical /\ r.cur_tier = s.cur_tier /\ r.mode = s.mode
        /\ r.end_logical = s.end_logical /\ r \in Session
        /\ r.active <=> s.active /\ "LAST" \notin flags
        /\ p.frames = <<f>>
    BY <1>2, EndPacketIs, EndPacketOK
  <2>2. /\ f.type = "data" /\ f.entries = E /\ f.tier = s.cur_tier /\ f.flags = flags
    OBVIOUS
  <2>3. f \in Frame
    <3>1. flags \in SUBSET Flag
      BY PacketFlagsOK
    <3> HIDE DEF flags
    <3> QED
      BY <3>1 DEF Frame, Session, Flag, Record
  <2>4. /\ "LAST" \in flags <=> error \/ (s.next_logical >= last /\ ~GeneralFollows(s))
        /\ "TIER_CHANGE" \in flags <=>
                ~error /\ GeneralFollows(s) /\ s.next_logical >= s.end_logical["critical"]
    BY FlagsAre
  <2> HIDE DEF f, flags
  <2>5. /\ G \in Seq(Frame) /\ Len(G) = Len(F) + 1 /\ Len(F) \in Nat
        /\ G[Len(F) + 1] = f
        /\ \A i \in 1 .. Len(F) : G[i] = F[i]
    BY <2>1, <2>3, FlowWithFrame
  <2> HIDE DEF G, r
  <2>6. InOrder(G)
    <3>1. ASSUME NEW i \in 2 .. Len(G)
          PROVE  G[i].type = "data" /\ G[i].entries # <<>> /\ Chain(G[i].entries)
      <4>1. CASE i \in 2 .. Len(F)
        BY <2>5, <4>1 DEF InOrder
      <4>2. CASE i = Len(F) + 1
        BY <1>2, <2>2, <2>5, <4>2 DEF OpenAt
      <4> QED
        BY <2>5, <4>1, <4>2
    <3>2. ASSUME NEW i \in 3 .. Len(G)
          PROVE  Link(G[i - 1], G[i].tier, G[i].entries[1])
      <4>1. CASE i \in 3 .. Len(F)
        <5>1. G[i] = F[i] /\ G[i - 1] = F[i - 1]
          BY <2>5, <4>1
        <5> QED
          BY <4>1, <5>1 DEF InOrder
      <4>2. CASE i = Len(F) + 1
        <5>1. G[i] = f /\ i - 1 = Len(F) /\ G[i - 1] = F[Len(F)] /\ Len(F) > 1
          BY <2>5, <4>2
        <5> QED
          BY <1>2, <2>2, <5>1 DEF OpenAt
      <4> QED
        BY <2>5, <4>1, <4>2
    <3> QED
      BY <3>1, <3>2 DEF InOrder
  <2>7. ASSUME r.active
        PROVE  b.active /\ OpenAt(log, G, b, <<>>)
    <3>1. ~error /\ ~(s.next_logical >= last /\ ~GeneralFollows(s))
      BY <2>1, <2>4, <2>7
    <3>2. /\ Len(G) > 1 => Len(G) = Len(F) + 1 /\ G[Len(G)] = f
          /\ Chain(<<>>)
          /\ Final(f) = E[Len(E)]
      BY <2>2, <2>5 DEF Final, Chain
    <3>3. /\ E[Len(E)].label + 1 = s.next_logical /\ Known(log, s.cur_tier, E[Len(E)])
          /\ \A t \in Tier : s.end_logical[t] <= Held(log, t)
      BY <1>2 DEF OpenAt
    <3>4. GeneralFollows(r) <=> GeneralFollows(s)
      BY <2>1 DEF GeneralFollows
    <3>5. s.next_logical \in Nat /\ last \in Nat /\ s.cur_tier \in Tier
      BY Sizes DEF Session
    <3>6. CASE s.next_logical < last
      <4>1. b = r
        BY <2>1, <3>6 DEF BeginPacket
      <4>2. "TIER_CHANGE" \notin flags
        <5>1. GeneralFollows(s) => s.cur_tier = "critical"
          BY DEF GeneralFollows
        <5> QED
          BY <2>4, <3>5, <3>6, <5>1
      <4>3. Ready(log, f, b)
        BY <2>1, <2>2, <3>2, <3>3, <4>1, <4>2 DEF Ready
      <4>4. \A t \in Tier : b.end_logical[t] <= Held(log, t)
        BY <2>1, <3>3, <4>1
      <4> QED
        BY <2>7, <3>2, <4>1, <4>3, <4>4 DEF OpenAt
    <3>7. CASE ~(s.next_logical < last)
      <4>1. GeneralFollows(s) /\ s.cur_tier = "critical"
        BY <3>1, <3>5, <3>7 DEF GeneralFollows
      <4>2. b = [r EXCEPT !.cur_tier = "general", !.next_logical = 0]
        BY <2>1, <3>4, <3>7, <4>1 DEF BeginPacket
      <4>3. /\ b.cur_tier = "general" /\ b.next_logical = 0 /\ b.active = r.active
            /\ b.end_logical = s.end_logical
        BY <2>1, <4>2 DEF Session
      <4> HIDE DEF b
      <4>4. "TIER_CHANGE" \in flags
        BY <2>4, <3>1, <3>5, <3>7, <4>1
      <4>5. Ready(log, f, b)
        BY <2>2, <4>1, <4>3, <4>4 DEF Ready
      <4>6. \A t \in Tier : b.end_logical[t] <= Held(log, t)
        BY <3>3, <4>3
      <4> QED
        BY <2>7, <3>2, <4>3, <4>5, <4>6 DEF OpenAt
    <3> QED
      BY <3>6, <3>7
  <2> QED
    BY <2>6, <2>7 DEF G, r
<1> QED
  BY <1>1, <1>2

\* A stream that begins.
LEMMA OpenedOrdered ==
    ASSUME TypeOK, NEW mode \in Tier \cup {"both"}, NEW start \in Nat, start < Records(mode),
           NEW s \in Session, Opened(s, mode, start), NEW F, Len(F) = 1
    PROVE  /\ BeginPacket(s) = s /\ s.next_logical < s.end_logical[s.cur_tier]
           /\ OpenAt(log, F, s, <<>>)
<1>1. log \in [Tier -> Nat] /\ TotalRecords("critical") \in Nat /\ TotalRecords("general") \in Nat
  BY TypeParts, TotalOK DEF Tier
<1>2. \A t \in Tier : s.end_logical[t] = IF mode \in {t, "both"} THEN TotalRecords(t) ELSE 0
  BY DEF Opened
<1>3. \A t \in Tier : TotalRecords(t) = Held(log, t) /\ TotalRecords(t) \in Nat
  BY <1>1, TotalOK DEF TotalRecords, Held
<1>4. \A t \in Tier : s.end_logical[t] <= Held(log, t)
  BY <1>2, <1>3
<1>5. s.next_logical < s.end_logical[s.cur_tier]
  <2>1. CASE mode = "both" /\ start >= TotalRecords("critical")
    <3>1. s.cur_tier = "general" /\ s.next_logical = start - TotalRecords("critical")
      BY <2>1 DEF Opened
    <3>2. s.end_logical["general"] = TotalRecords("general")
      BY <1>2, <2>1 DEF Tier
    <3> QED
      BY <1>1, <2>1, <3>1, <3>2 DEF Records
  <2>2. CASE mode = "both" /\ start < TotalRecords("critical")
    <3>1. s.cur_tier = "critical" /\ s.next_logical = start
      BY <1>1, <2>2 DEF Opened
    <3>2. s.end_logical["critical"] = TotalRecords("critical")
      BY <1>2, <2>2 DEF Tier
    <3> QED
      BY <2>2, <3>1, <3>2
  <2>3. CASE mode # "both"
    <3>1. s.cur_tier = mode /\ s.next_logical = start /\ mode \in Tier
      BY <2>3 DEF Opened
    <3> QED
      BY <1>2, <2>3, <3>1 DEF Records
  <2> QED
    BY <1>1, <2>1, <2>2, <2>3
<1>6. OpenAt(log, F, s, <<>>)
  <2>1. Chain(<<>>)
    BY DEF Chain
  <2> QED
    BY <1>4, <2>1 DEF OpenAt
<1> QED
  BY <1>5, <1>6 DEF BeginPacket

LEMMA InOrderOfOne ==
    ASSUME NEW F, Len(F) \in {0, 1}
    PROVE  InOrder(F)
<1>1. \A n \in {0, 1} : 2 .. n = {} /\ 3 .. n = {}
  OBVIOUS
<1>2. 2 .. Len(F) = {} /\ 3 .. Len(F) = {}
  BY <1>1, Zenon
<1> QED
  BY <1>2, Zenon DEF InOrder

\* Outside a packet the session stands where the next packet begins.
LEMMA OutsidePacket ==
    ASSUME TypeOK, ~InPacket
    PROVE  Position = BeginPacket(session) /\ Gathered = <<>>
BY DEF InPacket, Position, Gathered

LEMMA OrderedInit == Init => OrderedFlow
BY DEF Init, OrderedFlow

LEMMA PositionOK ==
    ASSUME TypeOK
    PROVE  Position \in Session /\ Gathered \in Seq(Record)
<1>1. session \in Session
  BY TypeParts
<1> QED
  BY <1>1, BeginPacketOK, StoredOK DEF Position, Gathered

LEMMA OrderedWhole ==
    ASSUME log \in [Tier -> Nat], NEW F \in Seq(Frame), NEW s \in Session, s.active, InOrder(F),
           BeginPacket(s).active, OpenAt(log, F, BeginPacket(s), <<>>),
           NEW failing \in {NoFailure} \cup Wanted(s), NEW p, p = WholePacket(s, failing)
    PROVE  /\ InOrder(F \o p.frames)
           /\ p.session.active => /\ BeginPacket(p.session).active
                                  /\ OpenAt(log, F \o p.frames, BeginPacket(p.session), <<>>)
<1> DEFINE b == BeginPacket(s)
           last == b.end_logical[b.cur_tier]
           error == failing # NoFailure
           t(n) == [b EXCEPT !.next_logical = @ + n]
<1>1. PICK n \in Nat, E \in Seq(Record) :
         /\ E = [k \in 1 .. n |-> Entry(b, b.next_logical + k - 1)]
         /\ Len(E) = n /\ t(n) \in Session
         /\ p = EndPacket(t(n), last, error, E)
  BY WholePacketIs
<1> DEFINE c == t(n)
<1>2. b \in Session
  BY BeginPacketOK
<1>3. /\ c.next_logical = b.next_logical + n /\ c.cur_tier = b.cur_tier /\ c.active
      /\ c.end_logical = b.end_logical /\ c \in Session
  BY <1>1, <1>2 DEF Session
<1>4. error \in BOOLEAN /\ p = EndPacket(c, last, error, E) /\ last = c.end_logical[c.cur_tier]
  BY <1>1, <1>3
<1>5. OpenAt(log, F, b, <<>>) /\ b.active
  OBVIOUS
<1> HIDE DEF b, c, last, error
<1>6. CASE n = 0
  <2>1. E = <<>>
    BY <1>1, <1>6, EmptySeq
  <2>2. p.frames = <<>> /\ ~p.session.active
    <3>1. p.frames = <<>> /\ p.session = [c EXCEPT !.active = FALSE]
      BY <1>4, <2>1 DEF EndPacket
    <3> QED
      BY <1>3, <3>1 DEF Session
  <2>3. F \o p.frames = F
    BY <2>2, ConcatEmptySeq
  <2> QED
    BY <2>2, <2>3
<1>7. CASE n # 0
  <2>1. OpenAt(log, F, c, E)
    BY <1>1, <1>2, <1>3, <1>5, <1>7, ManyMore DEF b
  <2> QED
    BY <1>3, <1>4, <2>1, ClosePacket
<1> QED
  BY <1>6, <1>7

LEMMA OrderedNext ==
    ASSUME TypeOK, TypeOK', Transport, GathersInPacket, OrderedFlow, [Next]_vars
    PROVE  OrderedFlow'
<1> SUFFICES ASSUME host'.quiet
             PROVE  /\ InOrder(Flow')
                    /\ session'.active => Position'.active /\ OpenAt(log', Flow', Position', Gathered')
                    /\ session'.active /\ InPacket' => PacketHasRoom'
  BY DEF OrderedFlow
<1> DEFINE Goal == /\ InOrder(Flow')
                   /\ session'.active => Position'.active /\ OpenAt(log', Flow', Position', Gathered')
                   /\ session'.active /\ InPacket' => PacketHasRoom'
<1>0. /\ Flow \in Seq(Frame) /\ session \in Session /\ log \in [Tier -> Nat]
      /\ session' \in Session /\ log' \in [Tier -> Nat]
      /\ Position \in Session /\ Gathered \in Seq(Record) /\ loop \in Loop
      /\ loop.entries \in Seq(Record)
  BY FlowOK, TypeParts, PositionOK DEF TypeOK, Session, Loop, Record
<1>1. Flow' \in Seq(Frame)
  <2>1. tx' \in Transmitter /\ host'.heard \in Seq(Frame)
    BY DEF TypeOK, Transmitter
  <2>2. InFlight(tx') \in Seq(Frame)
    BY <2>1, InFlightOK
  <2>3. host'.heard \o InFlight(tx') \in Seq(Frame)
    BY <2>1, <2>2, ConcatProperties
  <2> QED
    BY <2>1, <2>3 DEF Flow, FlowOf
<1>2. \A t \in Tier : log'[t] >= log[t]
  BY LogGrows
\* It is enough to have the stream open at the log of the step before.
<1>3. ASSUME ~InPacket', InOrder(Flow'),
             session'.active => /\ BeginPacket(session').active
                                /\ OpenAt(log, Flow', BeginPacket(session'), <<>>)
      PROVE  Goal
  <2>1. Position' = BeginPacket(session') /\ Gathered' = <<>>
    BY <1>3 DEF InPacket, Position, Gathered
  <2>2. ASSUME session'.active
        PROVE  OpenAt(log', Flow', BeginPacket(session'), <<>>)
    <3>1. BeginPacket(session') \in Session /\ <<>> \in Seq(Record)
      BY <1>0, BeginPacketOK
    <3> QED
      BY <1>0, <1>1, <1>2, <1>3, <2>2, <3>1, OpenGrows
  <2> QED
    BY <1>3, <2>1, <2>2
<1>4. ASSUME NEW mode \in Tier \cup {"both"}, NEW start \in Starts,
             NewStream(StartDump(session, mode, start))
      PROVE  Goal
  <2> DEFINE a == StartDump(session, mode, start)
  <2>1. /\ ~session.active /\ ~InPacket' /\ session' = a.session
        /\ Flow' = IF a.rsp.stream = 0 THEN <<>> ELSE <<a.rsp>>
    BY <1>4 DEF NewStream
  <2>2. \/ ~a.session.active
        \/ /\ Opened(a.session, mode, start) /\ start < Records(mode)
           /\ a.rsp = Response("OK", panel.next_stream, Records(mode) - start)
    BY <2>1, StartDumpIs, SurroundingsAssumption DEF NoSession
  <2> HIDE DEF a
  <2>3. InOrder(Flow')
    <3>1. Len(Flow') \in {0, 1}
      <4>1. Flow' = <<>> \/ Flow' = <<a.rsp>>
        BY <2>1
      <4>2. Len(<<>>) = 0 /\ Len(<<a.rsp>>) = 1
        OBVIOUS
      <4> QED
        BY <4>1, <4>2, Zenon
    <3> QED
      BY <3>1, InOrderOfOne
  <2>4. ASSUME a.session.active
        PROVE  BeginPacket(session').active /\ OpenAt(log, Flow', BeginPacket(session'), <<>>)
    <3>1. /\ Opened(a.session, mode, start) /\ start < Records(mode)
          /\ a.rsp.stream = panel.next_stream
      BY <2>2, <2>4 DEF Response
    <3>2. Len(Flow') = 1 /\ start \in Nat
      BY <2>1, <3>1, SurroundingsAssumption DEF Transport, Wired
    <3> QED
      BY <1>0, <2>1, <2>4, <3>1, <3>2, OpenedOrdered
  <2> QED
    BY <1>3, <2>1, <2>3, <2>4
<1>5. ASSUME host.quiet, SameStream
      PROVE  Goal
  <2>1. /\ session' = session /\ Flow' = Flow /\ (InPacket' <=> InPacket)
        /\ InPacket => loop' = loop
    BY <1>5 DEF SameStream
  <2>2. CASE InPacket
    <3>1. Position' = Position /\ Gathered' = Gathered /\ (PacketHasRoom' <=> PacketHasRoom)
      BY <2>1, <2>2 DEF Position, Gathered, PacketHasRoom, Stored, StoredEntry
    <3>2. session.active => OpenAt(log', Flow, Position, Gathered)
      BY <1>0, <1>2, <1>5, OpenGrows DEF OrderedFlow
    <3> QED
      BY <1>5, <2>1, <2>2, <3>1, <3>2 DEF OrderedFlow
  <2>3. CASE ~InPacket
    BY <1>3, <1>5, <2>1, <2>3, OutsidePacket DEF OrderedFlow
  <2> QED
    BY <2>2, <2>3
<1>6. ASSUME host.quiet, OffStream
      PROVE  Goal
  BY <1>3, <1>6 DEF OffStream, OrderedFlow
<1>7. ASSUME host.quiet, NEW failing \in {NoFailure} \cup Wanted(session), WholeStep(failing)
      PROVE  Goal
  <2> DEFINE p == WholePacket(session, failing)
  <2>1. /\ session.active /\ ~InPacket /\ ~InPacket' /\ session' = p.session
        /\ Flow' = Flow \o p.frames
    BY <1>7 DEF WholeStep
  <2>2. /\ InOrder(Flow) /\ BeginPacket(session).active
        /\ OpenAt(log, Flow, BeginPacket(session), <<>>)
    BY <1>7, <2>1, OutsidePacket DEF OrderedFlow
  <2>3. /\ InOrder(Flow \o p.frames)
        /\ p.session.active => /\ BeginPacket(p.session).active
                               /\ OpenAt(log, Flow \o p.frames, BeginPacket(p.session), <<>>)
    BY <1>0, <2>1, <2>2, OrderedWhole
  <2> HIDE DEF p
  <2> QED
    BY <1>3, <2>1, <2>3
<1>8. ASSUME host.quiet, BeginStep
      PROVE  Goal
  <2>1. /\ session.active /\ ~InPacket /\ session' = BeginPacket(session) /\ Flow' = Flow
        /\ loop'.at = (IF session'.active THEN "read" ELSE "pump")
        /\ loop'.tier_end = session'.end_logical[session'.cur_tier]
        /\ loop'.entries = loop.entries /\ log' = log
    BY <1>8 DEF BeginStep
  <2>2. /\ InOrder(Flow) /\ BeginPacket(session).active
        /\ OpenAt(log, Flow, BeginPacket(session), <<>>)
    BY <1>8, <2>1, OutsidePacket DEF OrderedFlow
  <2>3. loop'.at = "read" /\ loop'.entries = <<>>
    BY <2>1, <2>2 DEF GathersInPacket
  <2>4. Position' = BeginPacket(session) /\ Gathered' = <<>>
    BY <2>1, <2>3 DEF Position, Gathered
  <2>5. session'.next_logical < session'.end_logical[session'.cur_tier]
    BY <1>0, <2>1, <2>2, BeginPacketOK
  <2>6. PacketHasRoom'
    BY <2>1, <2>3, <2>5, Sizes DEF PacketHasRoom
  <2> QED
    BY <2>1, <2>2, <2>4, <2>6
<1>9. ASSUME host.quiet, Undisturbed, ReadStep
      PROVE  Goal
  <2>1. /\ loop.at = "read" /\ loop'.at = "store" /\ session' = session /\ Flow' = Flow
        /\ log' = log /\ loop'.record = ReadLogical(session.cur_tier, session.next_logical)
        /\ loop'.entries = loop.entries /\ loop'.tier_end = loop.tier_end
    BY <1>9 DEF ReadStep
  <2>2. session.active /\ InPacket
    BY <1>9, <2>1 DEF Undisturbed, InPacket
  <2>3. InOrder(Flow) /\ OpenAt(log, Flow, session, loop.entries) /\ PacketHasRoom
    BY <1>9, <2>1, <2>2 DEF OrderedFlow, Position, Gathered
  <2> DEFINE e == [label |-> session.next_logical,
                   record |-> ReadLogical(session.cur_tier, session.next_logical)]
  <2>4. /\ Stored \in Session /\ Stored.next_logical = session.next_logical + 1
        /\ Stored.cur_tier = session.cur_tier /\ Stored.end_logical = session.end_logical
        /\ Stored.active <=> session.active
    BY StoredOK
  <2>5. OpenAt(log, Flow, Stored, Append(loop.entries, e))
    BY <1>0, <2>3, <2>4, OneMore
  <2>6. Position' = Stored /\ Gathered' = Append(loop.entries, e)
    BY <2>1 DEF Position, Gathered, Stored, StoredEntry
  <2>7. PacketHasRoom'
    BY <2>1, <2>3 DEF PacketHasRoom
  <2> QED
    BY <2>1, <2>2, <2>3, <2>4, <2>5, <2>6, <2>7
<1>10. ASSUME host.quiet, Undisturbed, StoreStep
       PROVE  Goal
  <2>1. /\ loop.at = "store" /\ loop'.at = "read" /\ session' = Stored /\ Flow' = Flow
        /\ log' = log /\ loop'.entries = Append(loop.entries, StoredEntry)
        /\ loop'.tier_end = loop.tier_end
        /\ Len(Append(loop.entries, StoredEntry)) < PerPacket
        /\ Stored.next_logical < loop.tier_end
    BY <1>10 DEF StoreStep
  <2>2. session.active /\ InPacket
    BY <1>10, <2>1 DEF Undisturbed, InPacket
  <2>3. /\ InOrder(Flow) /\ PacketHasRoom /\ Stored.active
        /\ OpenAt(log, Flow, Stored, Append(loop.entries, StoredEntry))
    BY <1>10, <2>1, <2>2 DEF OrderedFlow, Position, Gathered
  <2>4. Position' = Stored /\ Gathered' = Append(loop.entries, StoredEntry)
    BY <2>1 DEF Position, Gathered
  <2>5. Stored.cur_tier = session.cur_tier /\ Stored.end_logical = session.end_logical
    BY StoredOK
  <2>6. PacketHasRoom'
    BY <2>1, <2>3, <2>5 DEF PacketHasRoom
  <2> QED
    BY <2>1, <2>3, <2>4, <2>6
<1>11. ASSUME host.quiet, Undisturbed, CompleteStep \/ FailStep
       PROVE  Goal
  <2>1. PICK error \in BOOLEAN :
           /\ EndStep(Position, error, Gathered) /\ session.active
           /\ loop.at \in {"read", "store"}
    <3>1. CASE CompleteStep
      <4>1. loop.at = "store" /\ InPacket /\ EndStep(Stored, FALSE, Append(loop.entries, StoredEntry))
        BY <3>1 DEF CompleteStep, EndStep
      <4> QED
        BY <1>11, <4>1 DEF Position, Gathered, Undisturbed
    <3>2. CASE FailStep
      <4>1. loop.at = "read" /\ InPacket /\ EndStep(session, TRUE, loop.entries)
        BY <3>2 DEF FailStep, EndStep
      <4> QED
        BY <1>11, <4>1 DEF Position, Gathered, Undisturbed
    <3> QED
      BY <1>11, <3>1, <3>2
  <2> DEFINE p == EndPacket(Position, loop.tier_end, error, Gathered)
  <2>2. InPacket /\ ~InPacket' /\ session' = p.session /\ Flow' = Flow \o p.frames
    BY <2>1 DEF EndStep
  <2>3. /\ InOrder(Flow) /\ Position.active /\ OpenAt(log, Flow, Position, Gathered)
        /\ PacketHasRoom
    BY <1>11, <2>1, <2>2 DEF OrderedFlow
  <2>4. loop.tier_end = Position.end_logical[Position.cur_tier]
    BY <2>1, <2>3, StoredOK DEF PacketHasRoom, Position
  <2>5. /\ InOrder(Flow \o p.frames)
        /\ p.session.active => /\ BeginPacket(p.session).active
                               /\ OpenAt(log, Flow \o p.frames, BeginPacket(p.session), <<>>)
    BY <1>0, <2>1, <2>3, <2>4, ClosePacket
  <2> HIDE DEF p
  <2> QED
    BY <1>3, <2>2, <2>5
<1> QED
  BY <1>4, <1>5, <1>6, <1>7, <1>8, <1>9, <1>10, <1>11, StreamSteps

\* The records of a stream come in the order of their indices and never run
\* back, the general tier behind the critical one and announced, although the
\* log moves on while it is dumped (log_stream.c, event_log_reader.c).
THEOREM RecordsInOrderAlways == Spec => []RecordsInOrder
<1> DEFINE Inv == TypeOK /\ Transport /\ GathersInPacket /\ OrderedFlow
<1>1. Init => Inv
  BY TypeInit, TransportInit, OrderedInit DEF Init, Resting, GathersInPacket
<1>2. Inv /\ [Next]_vars => Inv'
  BY TypeNext, TransportNext, GathersNext, OrderedNext
<1>3. Inv => RecordsInOrder
  <2> SUFFICES ASSUME TypeOK, OrderedFlow, host.quiet,
                      NEW i \in DOMAIN Packets, NEW k \in DOMAIN Packets[i].entries,
                      i > 1 \/ k > 1
               PROVE  LET e == Packets[i].entries[k]
                          p == IF k > 1 THEN Packets[i].entries[k - 1]
                               ELSE Packets[i - 1].entries[Len(Packets[i - 1].entries)]
                          same_tier == k > 1 \/ Packets[i - 1].tier = Packets[i].tier
                      IN  IF same_tier
                          THEN /\ e.label = p.label + 1
                               /\ EmptyRecord \notin {e.record, p.record} => e.record > p.record
                               /\ k = 1 => "TIER_CHANGE" \notin Packets[i - 1].flags
                          ELSE /\ Packets[i - 1].tier = "critical" /\ Packets[i].tier = "general"
                               /\ e.label = 0 /\ "TIER_CHANGE" \in Packets[i - 1].flags
    BY DEF RecordsInOrder
  <2>1. /\ host.heard \in Seq(Frame) /\ Len(host.heard) \in Nat /\ Len(Flow) \in Nat
        /\ Len(host.heard) <= Len(Flow) /\ Flow \in Seq(Frame)
        /\ \A j \in 1 .. Len(host.heard) : host.heard[j] = Flow[j]
    BY HeardIsSent, FlowOK
  <2>2. /\ i \in 1 .. Len(host.heard) - 1
        /\ \A j \in 1 .. Len(host.heard) - 1 : Packets[j] = host.heard[j + 1]
    BY <2>1, SubSeqProperties DEF Packets
  <2>3. \A j \in 1 .. Len(host.heard) - 1 : j + 1 \in 2 .. Len(Flow) /\ Packets[j] = Flow[j + 1]
    BY <2>1, <2>2
  <2>4. InOrder(Flow)
    BY DEF OrderedFlow
  <2>5. /\ Packets[i] = Flow[i + 1] /\ Packets[i].entries \in Seq(Record)
        /\ Chain(Packets[i].entries)
    BY <2>1, <2>2, <2>3, <2>4, InOrderIsTyped DEF InOrder
  <2>6. k \in 1 .. Len(Packets[i].entries)
    BY <2>5
  <2>7. CASE k > 1
    <3>1. Follows(Packets[i].entries[k - 1], Packets[i].entries[k])
      BY <2>5, <2>6, <2>7 DEF Chain
    <3> QED
      BY <2>6, <2>7, <3>1 DEF Follows
  <2>8. CASE ~(k > 1)
    <3>0. k = 1 /\ i > 1
      <4>1. k \in Nat /\ k >= 1
        BY <2>6
      <4> QED
        BY <2>8, <4>1
    <3>1. k = 1 /\ i - 1 \in 1 .. Len(host.heard) - 1 /\ i + 1 \in 3 .. Len(Flow)
          /\ (i + 1) - 1 = (i - 1) + 1
      BY <2>1, <2>2, <3>0
    <3>2. Packets[i - 1] = Flow[(i + 1) - 1]
      BY <2>3, <3>1
    <3>3. Link(Packets[i - 1], Packets[i].tier, Packets[i].entries[1])
      BY <2>4, <2>5, <3>1, <3>2 DEF InOrder
    <3> QED
      BY <2>8, <3>1, <3>3 DEF Link, Follows, Final
  <2> QED
    BY <2>7, <2>8
<1> QED
  BY <1>1, <1>2, <1>3, PTL DEF Spec
-----------------------------------------------------------------------------
(* As many records as promised. *)

Labels(t, E) == {<<t, E[k].label>> : k \in 1 .. Len(E)}

\* What a stream has brought,
Sent(F) == UNION {Labels(F[i].tier, F[i].entries) : i \in 2 .. Len(F)}

\* and what a session has still to read.
Unread(s) ==
    ({s.cur_tier} \X (s.next_logical .. s.end_logical[s.cur_tier] - 1))
    \cup (IF GeneralFollows(s) THEN {"general"} \X (0 .. s.end_logical["general"] - 1) ELSE {})

Due == IF session.active THEN Labels(Position.cur_tier, Gathered) \cup Unread(Position) ELSE {}

PromisedFlow ==
    host.quiet =>
        /\ host.stream # 0 => Flow # <<>>
        /\ ~host.failed /\ Flow # <<>> =>
            /\ Flow[1].status = "OK" => Cardinality(Sent(Flow) \cup Due) = Flow[1].total
            /\ ~session.active /\ Len(Flow) > 1 => "LAST" \in Flow[Len(Flow)].flags

LEMMA LabelsAppend ==
    ASSUME NEW t, NEW E \in Seq(Record), NEW e \in Record
    PROVE  Labels(t, Append(E, e)) = Labels(t, E) \cup {<<t, e.label>>}
<1> DEFINE D == Append(E, e)
<1>1. /\ Len(D) = Len(E) + 1 /\ D[Len(E) + 1] = e /\ Len(E) \in Nat
      /\ \A k \in 1 .. Len(E) : D[k] = E[k]
  BY AppendProperties
<1> HIDE DEF D
<1>2. 1 .. Len(D) = (1 .. Len(E)) \cup {Len(E) + 1}
  BY <1>1
<1>3. Labels(t, D) = Labels(t, E) \cup {<<t, e.label>>}
  BY <1>1, <1>2, Zenon DEF Labels
<1> QED
  BY <1>3 DEF D

LEMMA LabelsEmpty == \A t : Labels(t, <<>>) = {}
BY DEF Labels

\* A packet less to read.
LEMMA LeftPacketLess ==
    ASSUME NEW s \in Session, NEW c \in Session, NEW n \in Nat,
           s.next_logical + n <= s.end_logical[s.cur_tier],
           c.next_logical = s.next_logical + n, c.cur_tier = s.cur_tier, c.mode = s.mode,
           c.end_logical = s.end_logical,
           NEW E \in Seq(Record), Len(E) = n,
           \A k \in 1 .. n : E[k].label = s.next_logical + k - 1
    PROVE  Unread(s) = Unread(c) \cup Labels(s.cur_tier, E)
<1>1. s.next_logical \in Nat /\ s.end_logical[s.cur_tier] \in Nat
  BY Sizes DEF Session
<1> DEFINE first == s.next_logical
           last == s.end_logical[s.cur_tier]
           B == first .. first + n - 1
<1>2. first .. last - 1 = (c.next_logical .. c.end_logical[c.cur_tier] - 1) \cup B
  BY <1>1
<1>3. Labels(s.cur_tier, E) = {s.cur_tier} \X B
  <2>1. ASSUME NEW k \in 1 .. n
        PROVE  <<s.cur_tier, E[k].label>> \in {s.cur_tier} \X B
    <3>1. E[k].label \in B
      BY <1>1, <2>1, SMTT(20)
    <3> QED
      BY <3>1
  <2>2. ASSUME NEW l \in B
        PROVE  \E k \in 1 .. n : E[k].label = l
    <3>1. \A a \in Nat : \A m \in a .. a + n - 1 : m - a + 1 \in 1 .. n /\ a + (m - a + 1) - 1 = m
      OBVIOUS
    <3>2. l - first + 1 \in 1 .. n /\ first + (l - first + 1) - 1 = l
      BY <1>1, <2>2, <3>1
    <3> QED
      BY <3>2
  <2> HIDE DEF B
  <2> QED
    BY <2>1, <2>2 DEF Labels
<1>4. \A t, A, C : {t} \X (A \cup C) = ({t} \X A) \cup ({t} \X C)
  OBVIOUS
<1>5. GeneralFollows(s) <=> GeneralFollows(c)
  BY DEF GeneralFollows
<1> HIDE DEF B
<1> QED
  BY <1>2, <1>3, <1>4, <1>5, Zenon DEF Unread, first, last

\* One record less to read.
LEMMA LeftOneLess ==
    ASSUME NEW s \in Session, NEW c \in Session, s.next_logical < s.end_logical[s.cur_tier],
           c.next_logical = s.next_logical + 1, c.cur_tier = s.cur_tier, c.mode = s.mode,
           c.end_logical = s.end_logical
    PROVE  Unread(s) = Unread(c) \cup {<<s.cur_tier, s.next_logical>>}
<1> DEFINE A == s.next_logical .. s.end_logical[s.cur_tier] - 1
           B == c.next_logical .. c.end_logical[c.cur_tier] - 1
           R == IF GeneralFollows(s) THEN {"general"} \X (0 .. s.end_logical["general"] - 1) ELSE {}
<1>1. s.next_logical \in Nat /\ s.end_logical[s.cur_tier] \in Nat
  BY Sizes DEF Session
<1>2. A = B \cup {s.next_logical}
  BY <1>1
<1>3. \A t, D, x : {t} \X (D \cup {x}) = ({t} \X D) \cup {<<t, x>>}
  OBVIOUS
<1>4. Unread(s) = ({s.cur_tier} \X A) \cup R
  BY DEF Unread
<1>5. Unread(c) = ({s.cur_tier} \X B) \cup R
  BY DEF Unread, GeneralFollows
<1> HIDE DEF A, B, R
<1>6. {s.cur_tier} \X A = ({s.cur_tier} \X B) \cup {<<s.cur_tier, s.next_logical>>}
  BY <1>2, <1>3
<1> QED
  BY <1>4, <1>5, <1>6

\* To begin the next packet changes nothing of what is left,
LEMMA LeftBegin ==
    ASSUME NEW s \in Session
    PROVE  Unread(BeginPacket(s)) = Unread(s)
<1> DEFINE b == BeginPacket(s)
<1>0. s.next_logical \in Nat /\ s.end_logical[s.cur_tier] \in Nat
  BY Sizes DEF Session
<1>1. CASE s.next_logical < s.end_logical[s.cur_tier]
  BY <1>1 DEF BeginPacket
<1>2. CASE ~(s.next_logical < s.end_logical[s.cur_tier]) /\ GeneralFollows(s)
  <2>1. b = [s EXCEPT !.cur_tier = "general", !.next_logical = 0]
    BY <1>2 DEF BeginPacket
  <2>2. b.cur_tier = "general" /\ b.next_logical = 0 /\ b.end_logical = s.end_logical
    BY <2>1 DEF Session
  <2> HIDE DEF b
  <2>3. ~GeneralFollows(b)
    BY <2>2 DEF GeneralFollows
  <2>4. Unread(b) = {"general"} \X (0 .. s.end_logical["general"] - 1)
    BY <2>2, <2>3 DEF Unread
  <2>5. s.next_logical .. s.end_logical[s.cur_tier] - 1 = {}
    BY <1>0, <1>2
  <2>6. Unread(s) = {"general"} \X (0 .. s.end_logical["general"] - 1)
    BY <1>2, <2>5 DEF Unread
  <2> QED
    BY <2>4, <2>6 DEF b
<1>3. CASE ~(s.next_logical < s.end_logical[s.cur_tier]) /\ ~GeneralFollows(s)
  <2>1. b = [s EXCEPT !.active = FALSE]
    BY <1>3 DEF BeginPacket
  <2>2. b.cur_tier = s.cur_tier /\ b.next_logical = s.next_logical /\ b.mode = s.mode
        /\ b.end_logical = s.end_logical
    BY <2>1 DEF Session
  <2> HIDE DEF b
  <2> QED
    BY <2>2 DEF Unread, GeneralFollows, b
<1> QED
  BY <1>1, <1>2, <1>3

\* and at the end of the last tier nothing is.
LEMMA LeftNone ==
    ASSUME NEW s \in Session, ~(s.next_logical < s.end_logical[s.cur_tier]), ~GeneralFollows(s)
    PROVE  Unread(s) = {}
<1>1. s.next_logical \in Nat /\ s.end_logical[s.cur_tier] \in Nat
  BY Sizes DEF Session
<1>2. s.next_logical .. s.end_logical[s.cur_tier] - 1 = {}
  BY <1>1
<1> QED
  BY <1>2 DEF Unread

LEMMA InSent ==
    \A F, x : x \in Sent(F) <=> \E i \in 2 .. Len(F) : x \in Labels(F[i].tier, F[i].entries)
BY DEF Sent

LEMMA SentGrows ==
    ASSUME NEW F \in Seq(Frame), Len(F) > 0, NEW f \in Frame
    PROVE  LET G == F \o <<f>>
           IN  /\ Sent(G) = Sent(F) \cup Labels(f.tier, f.entries)
               /\ G[1] = F[1] /\ Len(G) > 1 /\ G[Len(G)] = f
<1> DEFINE G == F \o <<f>>
<1>1. /\ Len(G) = Len(F) + 1 /\ Len(F) \in Nat /\ G[Len(F) + 1] = f
      /\ \A i \in 1 .. Len(F) : G[i] = F[i]
  BY FlowWithFrame
<1> HIDE DEF G
<1>2. /\ 2 .. Len(G) = (2 .. Len(F)) \cup {Len(F) + 1}
      /\ 1 \in 1 .. Len(F) /\ Len(G) > 1
      /\ \A i \in 2 .. Len(F) : i \in 1 .. Len(F)
  BY <1>1
<1>3. \A i \in 2 .. Len(F) : G[i] = F[i]
  BY <1>1, <1>2
<1>4. Sent(G) = Sent(F) \cup Labels(f.tier, f.entries)
  <2>1. \A x : x \in Sent(G) <=> x \in Sent(F) \/ x \in Labels(f.tier, f.entries)
    <3>1. \A x : x \in Sent(G) <=> \E i \in 2 .. Len(G) : x \in Labels(G[i].tier, G[i].entries)
      BY InSent, Zenon
    <3>2. \A x : x \in Sent(F) <=> \E i \in 2 .. Len(F) : x \in Labels(F[i].tier, F[i].entries)
      BY InSent, Zenon
    <3> QED
      BY <1>1, <1>2, <1>3, <3>1, <3>2, Zenon
  <2> QED
    BY <2>1, Zenon
<1> QED
  BY <1>1, <1>2, <1>4 DEF G

\* The records of a tier from a on.
LEMMA TierCount ==
    ASSUME NEW t, NEW a \in Nat, NEW b \in Nat, a <= b
    PROVE  /\ IsFiniteSet({t} \X (a .. b - 1))
           /\ Cardinality({t} \X (a .. b - 1)) = b - a
<1>1. IsFiniteSet({t}) /\ Cardinality({t}) = 1
  BY FS_Singleton
<1>2. /\ IsFiniteSet(a .. b - 1)
      /\ Cardinality(a .. b - 1) = IF a > b - 1 THEN 0 ELSE (b - 1) - a + 1
  <2>1. a \in Int /\ b - 1 \in Int
    OBVIOUS
  <2> QED
    BY <2>1, FS_Interval
<1>3. Cardinality(a .. b - 1) = b - a
  BY <1>2
<1>4. Cardinality({t} \X (a .. b - 1)) = 1 * (b - a) /\ IsFiniteSet({t} \X (a .. b - 1))
  <2>1. /\ IsFiniteSet({t} \X (a .. b - 1))
        /\ Cardinality({t} \X (a .. b - 1)) = Cardinality({t}) * Cardinality(a .. b - 1)
    BY <1>1, <1>2, FS_Product
  <2> QED
    BY <1>1, <1>3, <2>1
<1> QED
  BY <1>4

\* The answer promises what the session has to read.
LEMMA OpenedPromised ==
    ASSUME TypeOK, NEW mode \in Tier \cup {"both"}, NEW start \in Nat, start < Records(mode),
           NEW s \in Session, Opened(s, mode, start)
    PROVE  Cardinality(Unread(s)) = Records(mode) - start
<1> DEFINE crit == TotalRecords("critical")
           gen == TotalRecords("general")
           t == s.cur_tier
           A == {t} \X (s.next_logical .. s.end_logical[t] - 1)
<1>1. log \in [Tier -> Nat] /\ crit \in Nat /\ gen \in Nat
  BY TypeParts, TotalOK DEF Tier
<1>2. /\ \A u \in Tier : s.end_logical[u] = IF mode \in {u, "both"} THEN TotalRecords(u) ELSE 0
      /\ s.mode = mode
  BY DEF Opened
<1>3. s.next_logical \in Nat /\ s.end_logical[t] \in Nat /\ s.next_logical < s.end_logical[t]
  <2>1. s.next_logical < s.end_logical[s.cur_tier]
    <3>1. Len(<<0>>) = 1
      OBVIOUS
    <3> QED
      BY <3>1, OpenedOrdered
  <2> QED
    BY <2>1, Sizes DEF Session
<1>4. IsFiniteSet(A) /\ Cardinality(A) = s.end_logical[t] - s.next_logical
  <2> DEFINE a == s.next_logical
             b == s.end_logical[t]
  <2>1. a \in Nat /\ b \in Nat /\ a <= b
    BY <1>3
  <2>2. A = {t} \X (a .. b - 1)
    OBVIOUS
  <2> HIDE DEF a, b, t, A
  <2>3. IsFiniteSet(A) /\ Cardinality(A) = b - a
    BY <2>1, <2>2, TierCount
  <2> QED
    BY <2>3 DEF a, b
<1> HIDE DEF A
<1>5. CASE mode = "both" /\ start >= crit
  <2>1. t = "general" /\ s.next_logical = start - crit /\ s.end_logical[t] = gen
    BY <1>2, <1>5 DEF Opened, Tier
  <2>2. Unread(s) = A
    BY <2>1 DEF Unread, GeneralFollows, A
  <2>3. Records(mode) = crit + gen
    BY <1>5 DEF Records
  <2> QED
    BY <1>1, <1>4, <2>1, <2>2, <2>3
<1>6. CASE mode = "both" /\ start < crit
  <2>1. t = "critical" /\ s.next_logical = start /\ s.end_logical[t] = crit
        /\ s.end_logical["general"] = gen
    BY <1>1, <1>2, <1>6 DEF Opened, Tier
  <2> DEFINE B == {"general"} \X (0 .. gen - 1)
  <2>2. IsFiniteSet(B) /\ Cardinality(B) = gen
    <3>1. 0 \in Nat /\ 0 <= gen /\ gen - 0 = gen
      BY <1>1
    <3> QED
      BY <1>1, <3>1, TierCount
  <2>3. gen = 0 => B = {}
    BY <1>1
  <2>4. Unread(s) = A \cup (IF gen > 0 THEN B ELSE {})
    BY <1>2, <1>6, <2>1 DEF Unread, GeneralFollows, A
  <2>5. A \cap B = {}
    BY <2>1 DEF A
  <2> HIDE DEF B
  <2>6. Unread(s) = A \cup B
    BY <1>1, <2>3, <2>4
  <2>7. Cardinality(Unread(s)) = Cardinality(A) + Cardinality(B) - 0
    <3>1. Cardinality(A \cup B) = Cardinality(A) + Cardinality(B) - Cardinality(A \cap B)
      BY <1>4, <2>2, FS_Union
    <3> QED
      BY <2>5, <2>6, <3>1, FS_EmptySet
  <2>8. Records(mode) = crit + gen
    BY <1>6 DEF Records
  <2> QED
    BY <1>1, <1>4, <1>6, <2>1, <2>2, <2>7, <2>8
<1>7. CASE mode # "both"
  <2>1. t = mode /\ s.next_logical = start /\ mode \in Tier
    BY <1>7 DEF Opened
  <2>2. s.end_logical[t] = TotalRecords(mode) /\ Records(mode) = TotalRecords(mode)
    BY <1>2, <1>7, <2>1 DEF Records
  <2>3. Unread(s) = A
    BY <1>2, <1>7 DEF Unread, GeneralFollows, A
  <2> QED
    BY <1>4, <2>1, <2>2, <2>3
<1> QED
  BY <1>1, <1>5, <1>6, <1>7

\* What is left for a session between two packets.
LeftBehind(s) == IF s.active THEN Unread(BeginPacket(s)) ELSE {}

\* The stream F has become G, which leaves r to go on; D was due.
Advances(F, G, r, D) ==
    /\ Sent(G) \cup LeftBehind(r) = Sent(F) \cup D
    /\ G[1] = F[1] /\ Len(G) > 1
    /\ ~r.active => "LAST" \in G[Len(G)].flags

\* A packet moves its records from what is due to what has been sent.
LEMMA ClosePromised ==
    ASSUME NEW F \in Seq(Frame), Len(F) > 0, NEW s \in Session, s.active,
           NEW E \in Seq(Record), E # <<>>, NEW last, last = s.end_logical[s.cur_tier],
           NEW error \in BOOLEAN, error = FALSE,
           NEW p, p = EndPacket(s, last, error, E)
    PROVE  Advances(F, F \o p.frames, p.session, Labels(s.cur_tier, E) \cup Unread(s))
<1> DEFINE flags == PacketFlags(s, last, error)
           f == [type |-> "data", stream |-> s.stream, pkt_num |-> s.pkt_num,
                 tier |-> s.cur_tier, flags |-> flags, entries |-> E]
           r == p.session
           G == F \o p.frames
<1>1. /\ r.next_logical = s.next_logical /\ r.cur_tier = s.cur_tier /\ r.mode = s.mode
      /\ r.end_logical = s.end_logical /\ r \in Session
      /\ r.active <=> s.active /\ "LAST" \notin flags
      /\ p.frames = <<f>>
  BY EndPacketIs, EndPacketOK
<1>2. f.entries = E /\ f.tier = s.cur_tier /\ f.flags = flags
  OBVIOUS
<1>3. f \in Frame
  <2>1. flags \in SUBSET Flag
    BY PacketFlagsOK
  <2> HIDE DEF flags
  <2> QED
    BY <2>1 DEF Frame, Session, Flag, Record
<1>4. "LAST" \in flags => s.next_logical >= last /\ ~GeneralFollows(s)
  BY FlagsAre
<1> HIDE DEF f, flags, r
<1>5. /\ Sent(G) = Sent(F) \cup Labels(s.cur_tier, E)
      /\ G[1] = F[1] /\ Len(G) > 1 /\ G[Len(G)] = f
  <2>1. G = F \o <<f>>
    BY <1>1
  <2>2. /\ Sent(G) = Sent(F) \cup Labels(f.tier, f.entries)
        /\ G[1] = F[1] /\ Len(G) > 1 /\ G[Len(G)] = f
    BY <1>3, <2>1, SentGrows
  <2> QED
    BY <1>2, <2>2
<1> HIDE DEF G
<1>6. CASE r.active
  <2>1. Unread(BeginPacket(r)) = Unread(r)
    BY <1>1, LeftBegin
  <2>2. Unread(r) = Unread(s)
    BY <1>1 DEF Unread, GeneralFollows
  <2> QED
    BY <1>5, <1>6, <2>1, <2>2 DEF r, G, LeftBehind, Advances
<1>7. CASE ~r.active
  <2>1. "LAST" \in flags
    BY <1>1, <1>7
  <2>2. ~(s.next_logical < s.end_logical[s.cur_tier])
    BY <1>4, <2>1, Sizes DEF Session
  <2>3. Unread(s) = {}
    BY <1>4, <2>1, <2>2, LeftNone
  <2> QED
    BY <1>2, <1>5, <1>7, <2>1, <2>3 DEF r, G, LeftBehind, Advances
<1> QED
  BY <1>6, <1>7

\* The interrupt sends a whole packet.
LEMMA WholePromised ==
    ASSUME log \in [Tier -> Nat], NEW F \in Seq(Frame), Len(F) > 0, NEW s \in Session, s.active,
           BeginPacket(s).active, NEW p, p = WholePacket(s, NoFailure)
    PROVE  Advances(F, F \o p.frames, p.session, Unread(BeginPacket(s)))
<1> DEFINE b == BeginPacket(s)
           last == b.end_logical[b.cur_tier]
           t(n) == [b EXCEPT !.next_logical = @ + n]
           error == NoFailure # NoFailure
<1>1. PICK n \in Nat, E \in Seq(Record) :
         /\ n > 0 /\ b.next_logical + n <= last
         /\ E = [k \in 1 .. n |-> Entry(b, b.next_logical + k - 1)]
         /\ Len(E) = n /\ t(n) \in Session
         /\ p = EndPacket(t(n), last, error, E)
  BY WholePacketIs, ZenonT(40)
<1> DEFINE c == t(n)
<1>2. b \in Session /\ b.active
  BY BeginPacketOK
<1>3. /\ c.next_logical = b.next_logical + n /\ c.cur_tier = b.cur_tier /\ c.mode = b.mode
      /\ c.active /\ c.end_logical = b.end_logical /\ c \in Session
  BY <1>1, <1>2 DEF Session
<1>4. /\ error \in BOOLEAN /\ error = FALSE /\ p = EndPacket(c, last, error, E)
      /\ last = c.end_logical[c.cur_tier]
      /\ b.next_logical + n <= b.end_logical[b.cur_tier]
  BY <1>1, <1>3
<1>5. \A k \in 1 .. n : E[k].label = b.next_logical + k - 1
  BY <1>1 DEF Entry
<1>6. E # <<>> /\ n > 0 /\ Len(E) = n
  <2>1. Len(E) = n /\ n > 0
    BY <1>1
  <2> QED
    BY <2>1, EmptySeq
<1> HIDE DEF b, c, last, error
<1>7. Unread(b) = Unread(c) \cup Labels(b.cur_tier, E)
  BY <1>2, <1>3, <1>4, <1>5, <1>6, LeftPacketLess
<1>8. Advances(F, F \o p.frames, p.session, Labels(c.cur_tier, E) \cup Unread(c))
  BY <1>3, <1>4, <1>6, ClosePromised
<1> QED
  BY <1>3, <1>7, <1>8 DEF b, Advances

LEMMA PromisedInit == Init => PromisedFlow
BY DEF Init, PromisedFlow

\* Only START_DUMP changes the stream the host waits for.
LEMMA StreamKept ==
    ASSUME TypeOK, [Next]_vars
    PROVE  \/ host'.stream = host.stream
           \/ \E mode \in Tier \cup {"both"}, start \in Starts : RequestStart(mode, start)
<1>1. host \in Host
  BY TypeParts
<1>2. Received(host, tx.sending).stream = host.stream
  BY <1>1 DEF Received, Host
<1> QED
  BY <1>2, HostSteps

\* The host that opened a stream has something of it to come.
LEMMA FlowBegun ==
    ASSUME TypeOK, TypeOK', Transport, PromisedFlow, [Next]_vars, host'.quiet, host'.stream # 0
    PROVE  Flow' # <<>>
<1>0. Flow \in Seq(Frame) /\ session \in Session /\ log \in [Tier -> Nat] /\ Wired
      /\ loop.tier_end \in Nat
  BY FlowOK, TypeParts, Sizes DEF Transport, Loop
<1>1. ASSUME NEW a, NewStream(a), a.rsp.stream # 0 PROVE Flow' # <<>>
  BY <1>1 DEF NewStream
<1>2. CASE \E mode \in Tier \cup {"both"}, start \in Starts : RequestStart(mode, start)
  <2>1. PICK mode \in Tier \cup {"both"}, start \in Starts : RequestStart(mode, start)
    BY <1>2
  <2> DEFINE a == StartDump(session, mode, start)
  <2>2. host'.stream = a.rsp.stream /\ Flow' = IF a.rsp.stream = 0 THEN <<>> ELSE <<a.rsp>>
    BY <1>0, <2>1, UndisturbedStart
  <2> HIDE DEF a
  <2> QED
    BY <2>2
<1>3. CASE host'.stream = host.stream
  <2>1. ASSUME NEW mode \in Tier \cup {"both"}, NEW start \in Starts,
               NewStream(StartDump(session, mode, start))
        PROVE  Flow' # <<>>
    <3>1. host'.stream = StartDump(session, mode, start).rsp.stream
      BY <2>1 DEF NewStream
    <3> QED
      BY <1>1, <2>1, <3>1
  <2>2. ASSUME host.quiet, NEW frames, Flow' = Flow \o frames,
               frames = <<>> \/ \E f \in Frame : frames = <<f>>
        PROVE  Flow' # <<>>
    <3>1. Flow # <<>> /\ Len(Flow) \in Nat
      BY <1>0, <1>3, <2>2 DEF PromisedFlow
    <3>2. CASE frames = <<>>
      BY <1>0, <2>2, <3>1, <3>2, ConcatEmptySeq
    <3>3. CASE \E f \in Frame : frames = <<f>>
      <4>1. PICK f \in Frame : frames = <<f>>
        BY <3>3
      <4>2. Flow' \in Seq(Frame) /\ Len(Flow') = Len(Flow) + 1
        BY <1>0, <2>2, <4>1, FlowWithFrame
      <4> QED
        BY <3>1, <4>2
    <3> QED
      BY <2>2, <3>2, <3>3
  <2>3. CASE host.quiet /\ (OffStream \/ SameStream \/ BeginStep \/ ReadStep \/ StoreStep)
    BY <1>3, <2>3 DEF PromisedFlow, OffStream, SameStream, BeginStep, ReadStep, StoreStep
  <2>4. ASSUME host.quiet, NEW failing \in {NoFailure} \cup Wanted(session), WholeStep(failing)
        PROVE  Flow' # <<>>
    BY <1>0, <2>2, <2>4, WholePacketOK DEF WholeStep
  <2>5. CASE host.quiet /\ CompleteStep
    BY <2>2, <2>5, EndPacketOK, StoredOK DEF CompleteStep, EndStep
  <2>6. CASE host.quiet /\ FailStep
    BY <1>0, <2>2, <2>6, EndPacketOK, StoredOK DEF FailStep, EndStep
  <2> QED
    BY <2>1, <2>3, <2>4, <2>5, <2>6, StreamSteps
<1> QED
  BY <1>2, <1>3, StreamKept

LEMMA PromisedNew ==
    ASSUME TypeOK, TypeOK', Wired, NEW mode \in Tier \cup {"both"}, NEW start \in Starts,
           NewStream(StartDump(session, mode, start)), Flow' # <<>>
    PROVE  /\ Flow'[1].status = "OK" => Cardinality(Sent(Flow') \cup Due') = Flow'[1].total
           /\ ~(Len(Flow') > 1)
<1> DEFINE a == StartDump(session, mode, start)
<1>1. /\ ~session.active /\ ~InPacket' /\ session' = a.session /\ session' \in Session
      /\ Flow' = IF a.rsp.stream = 0 THEN <<>> ELSE <<a.rsp>>
  BY TypeParts DEF NewStream, TypeOK, Session
<1>2. \/ ~a.session.active /\ a.rsp = Response("OUT_OF_RANGE", 0, 0)
      \/ a.session = NoSession /\ a.rsp = Response("OK", panel.next_stream, 0)
      \/ /\ Opened(a.session, mode, start) /\ start < Records(mode)
         /\ a.rsp = Response("OK", panel.next_stream, Records(mode) - start)
  BY <1>1, StartDumpIs, SurroundingsAssumption
<1> HIDE DEF a
<1>3. Flow' = <<a.rsp>> /\ a.rsp.stream # 0
  BY <1>1
<1>4. Len(Flow') = 1 /\ Flow'[1] = a.rsp /\ ~(Len(Flow') > 1)
  BY <1>3
<1>5. Sent(Flow') = {}
  <2>1. 2 .. 1 = {}
    OBVIOUS
  <2> QED
    BY <1>4, <2>1 DEF Sent
<1>6. Due' = LeftBehind(session')
  <2>1. Position' = BeginPacket(session') /\ Gathered' = <<>>
    BY <1>1 DEF InPacket, Position, Gathered
  <2>2. \A t : Labels(t, <<>>) = {}
    BY LabelsEmpty
  <2> QED
    BY <2>1, <2>2 DEF Due, LeftBehind
<1>7. Sent(Flow') \cup Due' = LeftBehind(session')
  BY <1>5, <1>6
<1>8. ASSUME Flow'[1].status = "OK"
      PROVE  Cardinality(LeftBehind(session')) = Flow'[1].total
  <2>1. CASE a.session = NoSession /\ a.rsp = Response("OK", panel.next_stream, 0)
    <3>1. LeftBehind(session') = {} /\ Flow'[1].total = 0
      BY <1>1, <1>4, <2>1 DEF NoSession, Response, LeftBehind
    <3> QED
      BY <3>1, FS_EmptySet
  <2>2. CASE /\ Opened(a.session, mode, start) /\ start < Records(mode)
             /\ a.rsp = Response("OK", panel.next_stream, Records(mode) - start)
    <3>1. start \in Nat /\ session'.active /\ Flow'[1].total = Records(mode) - start
      BY <1>1, <1>4, <2>2, SurroundingsAssumption DEF Opened, Response
    <3>2. Cardinality(Unread(session')) = Records(mode) - start
      BY <1>1, <2>2, <3>1, OpenedPromised
    <3>3. LeftBehind(session') = Unread(session')
      BY <1>1, <3>1, LeftBegin DEF LeftBehind
    <3> QED
      BY <3>1, <3>2, <3>3
  <2>3. ~(a.rsp = Response("OUT_OF_RANGE", 0, 0))
    BY <1>4, <1>8 DEF Response
  <2> QED
    BY <1>2, <2>1, <2>2, <2>3
<1> QED
  BY <1>4, <1>7, <1>8

LEMMA PromisedNext ==
    ASSUME TypeOK, TypeOK', Transport, GathersInPacket, NumberedFlow, OrderedFlow, PromisedFlow,
           [Next]_vars
    PROVE  PromisedFlow'
<1> DEFINE Goal ==
        ~host'.failed /\ Flow' # <<>> =>
            /\ Flow'[1].status = "OK" => Cardinality(Sent(Flow') \cup Due') = Flow'[1].total
            /\ ~session'.active /\ Len(Flow') > 1 => "LAST" \in Flow'[Len(Flow')].flags
<1> SUFFICES ASSUME host'.quiet
             PROVE  (host'.stream # 0 => Flow' # <<>>) /\ Goal
  BY DEF PromisedFlow
<1>0. /\ Flow \in Seq(Frame) /\ session \in Session /\ log \in [Tier -> Nat] /\ loop \in Loop
      /\ session' \in Session /\ Position \in Session /\ Gathered \in Seq(Record)
      /\ Wired /\ (host.quiet => Undisturbed)
  BY FlowOK, TypeParts, PositionOK DEF TypeOK, Session, Transport
<1>1. host'.stream # 0 => Flow' # <<>>
  BY FlowBegun
<1>2. ASSUME host.quiet, host'.failed <=> host.failed, Flow' = Flow, Due' = Due,
             session'.active <=> session.active
      PROVE  Goal
  BY <1>2 DEF PromisedFlow
<1>3. ASSUME ~InPacket' PROVE Due' = LeftBehind(session')
  <2>1. Position' = BeginPacket(session') /\ Gathered' = <<>>
    BY <1>3 DEF InPacket, Position, Gathered
  <2>2. \A t : Labels(t, <<>>) = {}
    BY LabelsEmpty
  <2> QED
    BY <2>1, <2>2 DEF Due, LeftBehind
<1>4. ASSUME host.quiet, session.active
      PROVE  Len(Flow) > 0 /\ Flow # <<>>
  <2>1. Len(Flow) = session.pkt_num + 1 /\ session.pkt_num \in Nat
    BY <1>0, <1>4 DEF NumberedFlow, OpenNumbered, Session
  <2> QED
    BY <2>1
<1>5. ASSUME host.quiet, session.active, ~InPacket', ~host'.failed => ~host.failed,
             ~host'.failed => Advances(Flow, Flow', session', Due)
      PROVE  Goal
  <2> SUFFICES ASSUME ~host'.failed
               PROVE  /\ Flow'[1].status = "OK" => Cardinality(Sent(Flow') \cup Due') = Flow'[1].total
                      /\ ~session'.active /\ Len(Flow') > 1 => "LAST" \in Flow'[Len(Flow')].flags
    OBVIOUS
  <2>1. Flow[1].status = "OK" => Cardinality(Sent(Flow) \cup Due) = Flow[1].total
    BY <1>4, <1>5 DEF PromisedFlow
  <2>2. /\ Sent(Flow') \cup Due' = Sent(Flow) \cup Due /\ Flow'[1] = Flow[1]
        /\ ~session'.active => "LAST" \in Flow'[Len(Flow')].flags
    BY <1>3, <1>5 DEF Advances
  <2> QED
    BY <2>1, <2>2
<1>6. ASSUME NEW mode \in Tier \cup {"both"}, NEW start \in Starts,
             NewStream(StartDump(session, mode, start))
      PROVE  Goal
  BY <1>0, <1>6, PromisedNew
<1>7. CASE host.quiet /\ OffStream
  BY <1>1, <1>2, <1>7 DEF OffStream, Due
<1>8. CASE host.quiet /\ SameStream
  <2>1. /\ session' = session /\ Flow' = Flow /\ (InPacket' <=> InPacket)
        /\ (InPacket => loop' = loop) /\ (host'.failed <=> host.failed)
    BY <1>8 DEF SameStream
  <2>2. Position' = Position /\ Gathered' = Gathered
    BY <2>1 DEF Position, Gathered, Stored, StoredEntry, InPacket
  <2>3. Due' = Due
    BY <2>1, <2>2 DEF Due
  <2> QED
    BY <1>1, <1>2, <1>8, <2>1, <2>3
<1>9. ASSUME host.quiet, NEW failing \in {NoFailure} \cup Wanted(session), WholeStep(failing)
      PROVE  Goal
  <2>1. /\ session.active /\ ~InPacket /\ ~InPacket'
        /\ session' = WholePacket(session, failing).session
        /\ Flow' = Flow \o WholePacket(session, failing).frames
        /\ host'.failed <=> (host.failed \/ failing # NoFailure)
    BY <1>9 DEF WholeStep
  <2>2. BeginPacket(session).active
    BY <1>9, <2>1, OutsidePacket DEF OrderedFlow
  <2>3. Due = Unread(BeginPacket(session))
    <3>1. Labels(Position.cur_tier, <<>>) = {}
      BY LabelsEmpty
    <3> QED
      BY <2>1, <3>1, OutsidePacket DEF Due
  <2>4. ASSUME ~host'.failed
        PROVE  Advances(Flow, Flow', session', Due)
    <3>1. failing = NoFailure
      BY <2>1, <2>4
    <3> DEFINE p == WholePacket(session, NoFailure)
    <3>2. session' = p.session /\ Flow' = Flow \o p.frames
      BY <2>1, <3>1
    <3>3. Advances(Flow, Flow \o p.frames, p.session, Unread(BeginPacket(session)))
      BY <1>0, <1>4, <1>9, <2>1, <2>2, WholePromised
    <3> HIDE DEF p
    <3> QED
      BY <2>3, <3>2, <3>3
  <2> QED
    BY <1>5, <1>9, <2>1, <2>4
<1>10. CASE host.quiet /\ BeginStep
  <2>1. /\ session.active /\ ~InPacket /\ session' = BeginPacket(session) /\ Flow' = Flow
        /\ loop'.at = (IF session'.active THEN "read" ELSE "pump")
        /\ loop'.entries = loop.entries /\ (host'.failed <=> host.failed)
    BY <1>10 DEF BeginStep
  <2>2. BeginPacket(session).active
    BY <1>10, <2>1, OutsidePacket DEF OrderedFlow
  <2>3. Position' = Position /\ Gathered' = Gathered
    BY <2>1, <2>2, OutsidePacket DEF Position, Gathered, GathersInPacket
  <2>4. Due' = Due
    BY <2>1, <2>2, <2>3 DEF Due
  <2> QED
    BY <1>1, <1>2, <1>10, <2>1, <2>2, <2>4
<1>11. CASE host.quiet /\ Undisturbed /\ ReadStep
  <2>1. /\ loop.at = "read" /\ loop'.at = "store" /\ session' = session /\ Flow' = Flow
        /\ loop'.entries = loop.entries /\ (host'.failed <=> host.failed)
    BY <1>11 DEF ReadStep
  <2>2. session.active /\ InPacket /\ loop.entries \in Seq(Record)
    BY <1>0, <1>11, <2>1, StoredOK DEF Undisturbed, InPacket
  <2>3. session.next_logical < session.end_logical[session.cur_tier]
    BY <1>11, <2>2 DEF OrderedFlow, PacketHasRoom
  <2> DEFINE e == [label |-> session.next_logical, record |-> loop'.record]
  <2>4. /\ Position = session /\ Gathered = loop.entries
        /\ Position' = Stored /\ Gathered' = Append(loop.entries, e)
    BY <2>1 DEF Position, Gathered, Stored, StoredEntry
  <2>5. e \in Record /\ e.label = session.next_logical
    <3>1. loop'.record \in Nat /\ session.next_logical \in Nat
      BY <1>0 DEF TypeOK, Session
    <3> QED
      BY <3>1 DEF Record
  <2> HIDE DEF e
  <2>6. Labels(session.cur_tier, Append(loop.entries, e)) =
            Labels(session.cur_tier, loop.entries) \cup {<<session.cur_tier, session.next_logical>>}
    BY <2>2, <2>5, LabelsAppend
  <2>7. /\ Stored.cur_tier = session.cur_tier
        /\ Unread(session) = Unread(Stored) \cup {<<session.cur_tier, session.next_logical>>}
    BY <1>0, <2>3, StoredOK, LeftOneLess
  <2>8. Due' = Due
    BY <2>1, <2>2, <2>4, <2>6, <2>7 DEF Due
  <2> QED
    BY <1>1, <1>2, <1>11, <2>1, <2>8
<1>12. CASE host.quiet /\ Undisturbed /\ StoreStep
  <2>1. /\ loop.at = "store" /\ loop'.at = "read" /\ session' = Stored /\ Flow' = Flow
        /\ loop'.entries = Append(loop.entries, StoredEntry) /\ (host'.failed <=> host.failed)
    BY <1>12 DEF StoreStep
  <2>2. Position' = Position /\ Gathered' = Gathered
    BY <2>1 DEF Position, Gathered
  <2>3. session'.active <=> session.active
    BY <2>1, StoredOK
  <2>4. Due' = Due
    BY <2>2, <2>3 DEF Due
  <2> QED
    BY <1>1, <1>2, <1>12, <2>1, <2>3, <2>4
<1>13. CASE host.quiet /\ Undisturbed /\ CompleteStep
  <2> DEFINE E == Append(loop.entries, StoredEntry)
             last == loop.tier_end
             p(error) == EndPacket(Stored, last, error, E)
  <2>1. /\ InPacket /\ ~InPacket' /\ loop.at = "store" /\ (host'.failed <=> host.failed)
        /\ session' = p(FALSE).session /\ Flow' = Flow \o p(FALSE).frames
    BY <1>13 DEF CompleteStep, EndStep
  <2>2. session.active
    BY <1>13, <2>1 DEF Undisturbed
  <2>3. /\ Stored \in Session /\ Stored.active /\ E \in Seq(Record)
        /\ Stored.cur_tier = session.cur_tier /\ Stored.end_logical = session.end_logical
    BY <2>2, StoredOK
  <2>4. last = Stored.end_logical[Stored.cur_tier]
    BY <1>13, <2>1, <2>2, <2>3 DEF OrderedFlow, PacketHasRoom
  <2>5. E # <<>>
    <3>1. loop.entries \in Seq(Record) /\ StoredEntry \in Record
      BY StoredOK
    <3> QED
      BY <3>1, AppendProperties
  <2>6. Due = Labels(Stored.cur_tier, E) \cup Unread(Stored)
    BY <2>1, <2>2 DEF Due, Position, Gathered
  <2> DEFINE error == 0 # 0
  <2>7. error \in BOOLEAN /\ error = FALSE
    OBVIOUS
  <2> HIDE DEF E, last, error
  <2>8. Advances(Flow, Flow \o p(error).frames, p(error).session,
                 Labels(Stored.cur_tier, E) \cup Unread(Stored))
    BY <1>0, <1>4, <1>13, <2>2, <2>3, <2>4, <2>5, <2>7, ClosePromised
  <2>9. Advances(Flow, Flow', session', Due)
    BY <2>1, <2>6, <2>7, <2>8
  <2> QED
    BY <1>1, <1>5, <1>13, <2>1, <2>2, <2>9
<1>14. CASE host.quiet /\ FailStep
  BY <1>1, <1>14 DEF FailStep
<1> QED
  BY <1>1, <1>6, <1>7, <1>8, <1>9, <1>10, <1>11, <1>12, <1>13, <1>14, StreamSteps

\* A stream that came to its end by itself has brought as many records as the
\* answer promised, and a packet with the mark LAST: nothing is lost or sent
\* twice between the interrupt and the main loop, however large the log, the
\* packet and the ring are (log_stream.c, log_transport.c).
THEOREM PromisedIsDeliveredAlways == Spec => []PromisedIsDelivered
<1> DEFINE Inv == TypeOK /\ Transport /\ GathersInPacket /\ NumberedFlow /\ OrderedFlow
                  /\ PromisedFlow
<1>1. Init => Inv
  BY TypeInit, TransportInit, NumberedInit, OrderedInit, PromisedInit
  DEF Init, Resting, GathersInPacket
<1>2. Inv /\ [Next]_vars => Inv'
  BY TypeNext, TransportNext, GathersNext, NumberedNext, OrderedNext, PromisedNext
<1>3. Inv => PromisedIsDelivered
  <2> DEFINE brought == UNION {{<<Packets[i].tier, e.label>> :
                                  e \in {Packets[i].entries[k] : k \in DOMAIN Packets[i].entries}} :
                               i \in DOMAIN Packets}
  <2> SUFFICES ASSUME Inv, host.stream # 0, host.quiet, ~Outstanding, irq = 0, ~host.failed,
                      host.heard[1].status = "OK"
               PROVE  /\ Cardinality(brought) = host.heard[1].total
                      /\ Packets # <<>> => "LAST" \in Packets[Len(Packets)].flags
    BY DEF PromisedIsDelivered
  <2>1. ~session.active /\ Flow = host.heard
    BY NothingOutstanding DEF Transport
  <2>2. Flow # <<>> /\ Flow \in Seq(Frame) /\ Len(Flow) \in Nat /\ Len(Flow) > 0
    <3>1. Flow # <<>> /\ Flow \in Seq(Frame)
      BY FlowOK DEF PromisedFlow
    <3> QED
      BY <3>1
  <2>3. /\ Cardinality(Sent(Flow) \cup Due) = Flow[1].total
        /\ Len(Flow) > 1 => "LAST" \in Flow[Len(Flow)].flags
    BY <2>1, <2>2 DEF PromisedFlow
  <2>4. Sent(Flow) \cup Due = Sent(Flow)
    BY <2>1 DEF Due
  <2>5. /\ Packets \in Seq(Frame) /\ Len(Packets) = Len(Flow) - 1
        /\ \A i \in 1 .. Len(Packets) : Packets[i] = Flow[i + 1]
    BY <2>1, <2>2, SubSeqProperties DEF Packets
  <2>6. brought = Sent(Flow)
    <3>1. DOMAIN Packets = 1 .. Len(Packets)
      BY <2>5
    <3>2. \A i \in 1 .. Len(Packets) : i + 1 \in 2 .. Len(Flow) /\ (i + 1) - 1 = i
      BY <2>2, <2>5
    <3>3. \A j \in 2 .. Len(Flow) : j - 1 \in 1 .. Len(Packets) /\ (j - 1) + 1 = j
      BY <2>2, <2>5
    <3>4. \A j \in 2 .. Len(Flow) : DOMAIN Flow[j].entries = 1 .. Len(Flow[j].entries)
      BY <2>2, InOrderIsTyped DEF OrderedFlow
    <3> HIDE DEF brought
    <3>5. \A x : x \in brought <=> \E j \in 2 .. Len(Flow) : x \in Labels(Flow[j].tier, Flow[j].entries)
      <4> SUFFICES ASSUME NEW x
                   PROVE  x \in brought <=> \E j \in 2 .. Len(Flow) : x \in Labels(Flow[j].tier, Flow[j].entries)
        OBVIOUS
      <4>1. x \in brought <=> \E i \in 1 .. Len(Packets) : \E k \in DOMAIN Packets[i].entries :
                                  x = <<Packets[i].tier, Packets[i].entries[k].label>>
        <5> DEFINE B(i) == {<<Packets[i].tier, e.label>> :
                                e \in {Packets[i].entries[k] : k \in DOMAIN Packets[i].entries}}
        <5>1. x \in brought <=> \E i \in DOMAIN Packets : x \in B(i)
          BY DEF brought
        <5>2. \A i : x \in B(i) <=> \E k \in DOMAIN Packets[i].entries :
                                        x = <<Packets[i].tier, Packets[i].entries[k].label>>
          OBVIOUS
        <5> HIDE DEF B, brought
        <5> QED
          BY <3>1, <5>1, <5>2
      <4>2. \A j \in 2 .. Len(Flow) :
                x \in Labels(Flow[j].tier, Flow[j].entries) <=>
                    \E k \in DOMAIN Flow[j].entries : x = <<Flow[j].tier, Flow[j].entries[k].label>>
        BY <3>4, Zenon DEF Labels
      <4>3. \A i \in 1 .. Len(Packets) : Packets[i] = Flow[i + 1]
        BY <2>5
      <4> DEFINE Has(f) == \E k \in DOMAIN f.entries : x = <<f.tier, f.entries[k].label>>
      <4>4. /\ x \in brought <=> \E i \in 1 .. Len(Packets) : Has(Packets[i])
            /\ \A j \in 2 .. Len(Flow) :
                    x \in Labels(Flow[j].tier, Flow[j].entries) <=> Has(Flow[j])
        BY <4>1, <4>2, Zenon
      <4> HIDE DEF Has
      <4>5. ASSUME NEW i \in 1 .. Len(Packets), Has(Packets[i])
            PROVE  \E j \in 2 .. Len(Flow) : Has(Flow[j])
        <5>1. i + 1 \in 2 .. Len(Flow) /\ Has(Flow[i + 1])
          BY <3>2, <4>3, <4>5
        <5> QED
          BY <5>1
      <4>6. ASSUME NEW j \in 2 .. Len(Flow), Has(Flow[j])
            PROVE  \E i \in 1 .. Len(Packets) : Has(Packets[i])
        <5>1. j - 1 \in 1 .. Len(Packets) /\ Packets[j - 1] = Flow[j]
          BY <3>3, <4>3
        <5> QED
          BY <4>6, <5>1
      <4> QED
        BY <4>4, <4>5, <4>6, Zenon
    <3> QED
      BY <3>5, InSent, Zenon
  <2>7. Packets # <<>> => Len(Flow) > 1 /\ Packets[Len(Packets)] = Flow[Len(Flow)]
    <3>1. Packets # <<>> => Len(Packets) > 0
      BY <2>5
    <3> QED
      BY <2>2, <2>5, <3>1
  <2> HIDE DEF brought
  <2> QED
    BY <2>1, <2>3, <2>4, <2>6, <2>7
<1> QED
  BY <1>1, <1>2, <1>3, PTL DEF Spec

\* The main loop never asks for a record behind the end of its tier while the
\* host waits: a read fails only if the flash does (event_log_reader.c).
THEOREM ReadsInRangeAlways ==
    Spec => [](host.quiet /\ loop.at = "read" => session.next_logical < TotalRecords(session.cur_tier))
<1> DEFINE Inv == TypeOK /\ Transport /\ GathersInPacket /\ OrderedFlow
           ReadsInRange == host.quiet /\ loop.at = "read" =>
                                session.next_logical < TotalRecords(session.cur_tier)
<1>1. Init => Inv
  BY TypeInit, TransportInit, OrderedInit DEF Init, Resting, GathersInPacket
<1>2. Inv /\ [Next]_vars => Inv'
  BY TypeNext, TransportNext, GathersNext, OrderedNext
<1>3. Inv => ReadsInRange
  <2> SUFFICES ASSUME Inv, host.quiet, loop.at = "read"
               PROVE  session.next_logical < TotalRecords(session.cur_tier)
    OBVIOUS
  <2>1. session.active /\ InPacket
    BY DEF Transport, Undisturbed, InPacket
  <2>2. OpenAt(log, Flow, session, loop.entries) /\ PacketHasRoom
    BY <2>1 DEF OrderedFlow, Position, Gathered
  <2>3. session \in Session /\ log \in [Tier -> Nat]
    BY TypeParts
  <2>4. /\ session.next_logical \in Nat /\ session.cur_tier \in Tier
        /\ session.end_logical[session.cur_tier] \in Nat
    BY <2>3, Sizes DEF Session
  <2>5. TotalRecords(session.cur_tier) \in Nat
        /\ TotalRecords(session.cur_tier) = Held(log, session.cur_tier)
    BY <2>3, <2>4, TotalOK DEF TotalRecords, Held
  <2>6. session.end_logical[session.cur_tier] <= Held(log, session.cur_tier)
    BY <2>2, <2>4 DEF OpenAt
  <2> QED
    BY <2>2, <2>4, <2>5, <2>6 DEF PacketHasRoom
<1> QED
  BY <1>1, <1>2, <1>3, PTL DEF Spec
-----------------------------------------------------------------------------
(* A dump that is disturbed: frames may be lost, but what comes is in order. *)

\* A frame with records of the stream st.
Mine(st, f) == f.type = "data" /\ f.stream = st

Before(f, g) ==
    /\ f.pkt_num < g.pkt_num
    /\ f.tier = g.tier => f.entries[Len(f.entries)].label < g.entries[1].label

\* f was sent earlier than g.
Earlier(st, f, g) == Mine(st, f) /\ Mine(st, g) => Before(f, g)

UnderWay(x) == {x.sending, x.buffer} \cup {x.queue[k] : k \in 1 .. Len(x.queue)}

Emitted(h, x) == {h.heard[i] : i \in 1 .. Len(h.heard)} \cup UnderWay(x)

\* What the host has, what is being sent, what the main loop has taken from the
\* ring and what waits there were sent in this order.  Frames may be missing.
Course(h, x) ==
    /\ \A i, j \in 1 .. Len(h.heard) : i < j => Earlier(h.stream, h.heard[i], h.heard[j])
    /\ \A i \in 1 .. Len(h.heard) : \A g \in UnderWay(x) : Earlier(h.stream, h.heard[i], g)
    /\ Earlier(h.stream, x.sending, x.buffer)
    /\ \A k \in 1 .. Len(x.queue) : /\ Earlier(h.stream, x.sending, x.queue[k])
                                    /\ Earlier(h.stream, x.buffer, x.queue[k])
    /\ \A k, m \in 1 .. Len(x.queue) : k < m => Earlier(h.stream, x.queue[k], x.queue[m])

\* The label the next packet begins with; E are the records read for it.
NextLabel(s, E) == IF E # <<>> THEN E[1].label ELSE s.next_logical

\* Whatever s sends next is later than f.
Passed(f, s, label) ==
    /\ f.entries # <<>>
    /\ f.pkt_num < s.pkt_num
    /\ f.tier = "general" => s.cur_tier = "general"
    /\ f.tier = s.cur_tier => f.entries[Len(f.entries)].label < label

\* The session is behind all frames of M.
Behind(st, M, s, E) ==
    /\ \A f \in M : Mine(st, f) => Passed(f, s, NextLabel(s, E))
    /\ \A k \in 1 .. Len(E) : E[k].label < s.next_logical

\* The main loop is in a packet of the tier the session is in.
InTier ==
    InPacket => /\ session.next_logical < session.end_logical[session.cur_tier]
                /\ loop.tier_end = session.end_logical[session.cur_tier]

\* The streams are numbered upwards.
Issued ==
    /\ session.stream < panel.next_stream /\ host.stream < panel.next_stream
    /\ \A f \in UnderWay(tx) \cup {loop.frame} : f.type = "data" => f.stream < panel.next_stream
    /\ \A i \in 1 .. Len(host.heard) : host.heard[i].stream = host.stream

InCourse ==
    ~host.mixed /\ host.stream # 0 =>
        /\ Course(host, tx)
        /\ session.stream = host.stream =>
              Behind(host.stream, Emitted(host, tx), session, loop.entries) /\ InTier

\* Only the interrupt of a request moves the ring while the main loop hands a
\* frame over.
SendIsMixed == InSend /\ (irq > 0 \/ loop.at = "crossed") => host.mixed
-----------------------------------------------------------------------------
\* y holds no frame that x did not hold.
Keeps(x, y) == \A g \in UnderWay(y) : g \in UnderWay(x) \/ g.type # "data"

\* The ring and the transmitter lose frames and never swap or repeat one: y
\* holds nothing that x did not hold, and holds it in the same order.
Thins(x, y) == Keeps(x, y) /\ \A h \in Host : Course(h, x) => Course(h, y)

LEMMA NotMine == \A st, f, g : g.type # "data" => Earlier(st, f, g) /\ Earlier(st, g, f)
BY DEF Earlier, Mine

LEMMA QueueOK ==
    ASSUME NEW x \in Transmitter
    PROVE  /\ x.queue \in Seq(Frame) /\ Len(x.queue) \in Nat
           /\ x.sending \in Frame \cup {None} /\ x.buffer \in Frame \cup {None}
BY DEF Transmitter

LEMMA ThinsItself == \A x : Thins(x, x)
BY DEF Thins, Keeps

LEMMA ThinsThins ==
    ASSUME NEW x, NEW y, NEW z, Thins(x, y), Thins(y, z)
    PROVE  Thins(x, z)
BY DEF Thins, Keeps

LEMMA KeepsKeeps ==
    ASSUME NEW x, NEW y, NEW z, Keeps(x, y), Keeps(y, z)
    PROVE  Keeps(x, z)
BY DEF Keeps

\* The frame being sent is lost or done, or the one the main loop has taken.
LEMMA ThinsSending ==
    ASSUME NEW x \in Transmitter, NEW y \in Transmitter, y.queue = x.queue,
           y.sending \in {x.sending, None}, y.buffer \in {x.buffer, None}
    PROVE  Thins(x, y)
<1>1. None.type # "data"
  BY DEF None
<1>2. \A g \in UnderWay(y) : g \in UnderWay(x) \/ g.type # "data"
  BY <1>1 DEF UnderWay
<1>3. ASSUME NEW h \in Host, Course(h, x)
      PROVE  Course(h, y)
  <2>1. \A i \in 1 .. Len(h.heard) : \A g \in UnderWay(y) : Earlier(h.stream, h.heard[i], g)
    BY <1>2, <1>3, NotMine DEF Course
  <2>2. \A k \in 1 .. Len(y.queue) : /\ Earlier(h.stream, y.sending, y.queue[k])
                                     /\ Earlier(h.stream, y.buffer, y.queue[k])
    BY <1>1, <1>3, NotMine DEF Course
  <2>3. Earlier(h.stream, y.sending, y.buffer)
    BY <1>1, <1>3, NotMine DEF Course
  <2> QED
    BY <1>3, <2>1, <2>2, <2>3 DEF Course
<1> QED
  BY <1>2, <1>3 DEF Thins, Keeps

\* The oldest frame is taken from the ring: it is lost, it is to be sent, or the
\* main loop has it.
LEMMA ThinsHead ==
    ASSUME NEW x \in Transmitter, NEW y \in Transmitter, x.queue # <<>>, y.queue = Tail(x.queue),
           \/ y.buffer = x.buffer /\ y.sending = x.sending
           \/ x.buffer = None /\ y.buffer = None /\ y.sending \in {Head(x.queue), x.sending, None}
           \/ x.buffer = None /\ y.buffer = Head(x.queue) /\ y.sending \in {x.sending, None}
    PROVE  Thins(x, y)
<1>1. None.type # "data"
  BY DEF None
<1>2. /\ Len(x.queue) \in Nat /\ Len(x.queue) > 0 /\ Len(y.queue) = Len(x.queue) - 1
      /\ \A k \in 1 .. Len(y.queue) : y.queue[k] = x.queue[k + 1] /\ k + 1 \in 1 .. Len(x.queue)
      /\ Head(x.queue) = x.queue[1] /\ 1 \in 1 .. Len(x.queue)
      /\ \A k \in 1 .. Len(y.queue) : 1 < k + 1
      /\ \A k, m \in 1 .. Len(y.queue) : k < m => k + 1 < m + 1
  <2>1. x.queue \in Seq(Frame)
    BY QueueOK
  <2>2. Len(x.queue) \in Nat /\ Len(x.queue) > 0
    BY <2>1
  <2>3. /\ Len(Tail(x.queue)) = Len(x.queue) - 1 /\ Head(x.queue) = x.queue[1]
        /\ \A k \in 1 .. Len(Tail(x.queue)) : Tail(x.queue)[k] = x.queue[k + 1]
    BY <2>1, HeadTailProperties
  <2> QED
    BY <2>2, <2>3
<1>5. y.sending \in {x.queue[1], x.sending, None} /\ y.buffer \in {x.queue[1], x.buffer, None}
  BY <1>2
<1>3. \A g \in UnderWay(y) : g \in UnderWay(x) \/ g.type # "data"
  <2> SUFFICES ASSUME NEW g \in UnderWay(y) PROVE g \in UnderWay(x) \/ g.type # "data"
    OBVIOUS
  <2>1. CASE g = y.sending \/ g = y.buffer
    BY <1>1, <1>2, <1>5, <2>1 DEF UnderWay
  <2>2. CASE \E k \in 1 .. Len(y.queue) : g = y.queue[k]
    BY <1>2, <2>2 DEF UnderWay
  <2> QED
    BY <2>1, <2>2 DEF UnderWay
<1>4. ASSUME NEW h \in Host, Course(h, x)
      PROVE  Course(h, y)
  <2>1. \A i \in 1 .. Len(h.heard) : \A g \in UnderWay(y) : Earlier(h.stream, h.heard[i], g)
    BY <1>3, <1>4, NotMine DEF Course
  <2>2. \A k, m \in 1 .. Len(x.queue) : k < m => Earlier(h.stream, x.queue[k], x.queue[m])
    BY <1>4 DEF Course
  <2>3. \A k \in 1 .. Len(y.queue) : /\ Earlier(h.stream, y.sending, y.queue[k])
                                     /\ Earlier(h.stream, y.buffer, y.queue[k])
    <3> SUFFICES ASSUME NEW k \in 1 .. Len(y.queue)
                 PROVE  /\ Earlier(h.stream, y.sending, y.queue[k])
                        /\ Earlier(h.stream, y.buffer, y.queue[k])
      OBVIOUS
    <3>1. Earlier(h.stream, x.queue[1], y.queue[k])
      BY <1>2, <2>2
    <3>2. Earlier(h.stream, x.sending, y.queue[k]) /\ Earlier(h.stream, x.buffer, y.queue[k])
      BY <1>2, <1>4 DEF Course
    <3> QED
      BY <1>1, <1>5, <3>1, <3>2, NotMine
  <2>4. \A k, m \in 1 .. Len(y.queue) : k < m => Earlier(h.stream, y.queue[k], y.queue[m])
    BY <1>2, <2>2
  <2>5. Earlier(h.stream, y.sending, y.buffer)
    <3>1. Earlier(h.stream, x.sending, x.buffer) /\ Earlier(h.stream, x.sending, x.queue[1])
      BY <1>2, <1>4 DEF Course
    <3> QED
      BY <1>1, <1>2, <3>1, NotMine
  <2> QED
    BY <1>4, <2>1, <2>3, <2>4, <2>5 DEF Course
<1> QED
  BY <1>3, <1>4 DEF Thins, Keeps

\* In an interrupt a frame of the main loop may be overwritten.
LEMMA TryTxThins ==
    ASSUME NEW x \in Transmitter, Len(x.queue) < RingSize
    PROVE  Keeps(x, TryTx(x)) /\ (x.buffer = None => Thins(x, TryTx(x)))
<1>1. TryTx(x) \in Transmitter
  BY TryTxOK
<1>2. CASE UartTaken(x) \/ x.queue = <<>>
  BY <1>2, TryTxIs, ThinsItself DEF Thins
<1>3. CASE ~(UartTaken(x) \/ x.queue = <<>>)
  <2>1. x.line \in {"idle", "log", "bridge"}
    BY DEF Transmitter
  <2>2. /\ TryTx(x).queue = Tail(x.queue)
        /\ TryTx(x).sending \in {Head(x.queue), x.sending, None}
        /\ TryTx(x).buffer = IF x.buffer = None THEN None ELSE Head(x.queue)
    BY <1>3, <2>1, TryTxIs
  <2>3. x.buffer = None => Thins(x, TryTx(x))
    BY <1>1, <1>3, <2>2, ThinsHead
  <2>4. Keeps(x, TryTx(x))
    <3>1. /\ Head(x.queue) \in UnderWay(x) /\ None.type # "data"
          /\ \A k \in 1 .. Len(Tail(x.queue)) : Tail(x.queue)[k] \in UnderWay(x)
      <4>1. x.queue \in Seq(Frame) /\ Len(x.queue) \in Nat
        BY QueueOK
      <4>2. 1 \in 1 .. Len(x.queue) /\ Head(x.queue) = x.queue[1]
        BY <1>3, <4>1
      <4>3. \A k \in 1 .. Len(Tail(x.queue)) :
                Tail(x.queue)[k] = x.queue[k + 1] /\ k + 1 \in 1 .. Len(x.queue)
        BY <1>3, <4>1
      <4> QED
        BY <4>2, <4>3 DEF UnderWay, None
    <3> QED
      BY <2>2, <3>1 DEF Keeps, UnderWay
  <2> QED
    BY <2>3, <2>4
<1> QED
  BY <1>2, <1>3

LEMMA TxDoneThins ==
    ASSUME NEW x \in Transmitter, Len(x.queue) < RingSize
    PROVE  Keeps(x, TxDone(x)) /\ (x.buffer = None \/ ~x.log_busy => Thins(x, TxDone(x)))
<1> DEFINE y == [x EXCEPT !.log_busy = FALSE]
           z == IF x.log_busy THEN TryTx(y) ELSE x
<1>1. y \in Transmitter /\ y.queue = x.queue /\ y.sending = x.sending /\ y.buffer = x.buffer
  BY DEF Transmitter
<1>2. TxDone(x) = [z EXCEPT !.bridge_busy = FALSE]
  BY DEF TxDone
<1>3. Thins(x, y)
  BY <1>1, ThinsSending
<1>4. Keeps(x, z) /\ (x.buffer = None \/ ~x.log_busy => Thins(x, z)) /\ z \in Transmitter
  <2> HIDE DEF y
  <2>1. Keeps(y, TryTx(y)) /\ (x.buffer = None => Thins(y, TryTx(y))) /\ TryTx(y) \in Transmitter
    BY <1>1, TryTxThins, TryTxOK
  <2>2. Keeps(x, y)
    BY <1>3 DEF Thins
  <2> QED
    BY <1>3, <2>1, <2>2, ThinsThins, KeepsKeeps, ThinsItself DEF Thins
<1> HIDE DEF z
<1>5. /\ TxDone(x) \in Transmitter
      /\ TxDone(x).queue = z.queue /\ TxDone(x).sending = z.sending /\ TxDone(x).buffer = z.buffer
  BY <1>2, <1>4 DEF Transmitter
<1>6. Thins(z, TxDone(x)) /\ Keeps(z, TxDone(x))
  BY <1>4, <1>5, ThinsSending DEF Thins
<1> QED
  BY <1>4, <1>6, ThinsThins, KeepsKeeps

\* A frame later than all others goes into the ring.
LEMMA SendCourse ==
    ASSUME NEW x \in Transmitter, Len(x.queue) < RingSize, NEW f \in Frame,
           NEW y, y = SendFrame(x, f)
    PROVE  /\ \A g \in UnderWay(y) : g \in UnderWay(x) \cup {f}
           /\ \A h \in Host :
                Course(h, x) /\ (\A g \in Emitted(h, x) : Earlier(h.stream, g, f)) => Course(h, y)
<1> DEFINE q == IF Len(x.queue) = RingSize - 1 THEN Tail(x.queue) ELSE x.queue
           z == [x EXCEPT !.queue = q]
<1>1. x.queue \in Seq(Frame) /\ Len(x.queue) \in Nat
  BY QueueOK
<1>2. q \in Seq(Frame) /\ (q = x.queue \/ (x.queue # <<>> /\ q = Tail(x.queue)))
  <2>1. Len(x.queue) = RingSize - 1 => x.queue # <<>>
    BY <1>1, Sizes
  <2> QED
    BY <1>1, <2>1
<1>3. y = [x EXCEPT !.queue = Append(q, f)]
  BY DEF SendFrame
<1> HIDE DEF q
<1>4. z \in Transmitter /\ z.queue = q /\ z.sending = x.sending /\ z.buffer = x.buffer
  BY <1>2 DEF Transmitter
<1>5. y.queue = Append(q, f) /\ y.sending = x.sending /\ y.buffer = x.buffer
  BY <1>3 DEF Transmitter
<1> HIDE DEF z
<1>6. Thins(x, z)
  BY <1>2, <1>4, ThinsSending, ThinsHead
<1>7. \A g \in UnderWay(z) : g \in UnderWay(x)
  <2>1. \A k \in 1 .. Len(q) : \E m \in 1 .. Len(x.queue) : q[k] = x.queue[m]
    <3>1. CASE q = x.queue
      BY <3>1
    <3>2. CASE x.queue # <<>> /\ q = Tail(x.queue)
      <4>1. /\ Len(q) = Len(x.queue) - 1
            /\ \A k \in 1 .. Len(q) : q[k] = x.queue[k + 1]
        BY <1>1, <3>2, HeadTailProperties
      <4>2. \A k \in 1 .. Len(q) : k + 1 \in 1 .. Len(x.queue)
        BY <1>1, <4>1
      <4> QED
        BY <4>1, <4>2
    <3> QED
      BY <1>2, <3>1, <3>2
  <2> QED
    BY <1>4, <2>1 DEF UnderWay
<1>8. /\ Len(q) \in Nat /\ Len(y.queue) = Len(q) + 1 /\ y.queue[Len(q) + 1] = f
      /\ \A k \in 1 .. Len(q) : y.queue[k] = q[k]
  BY <1>2, <1>5, AppendProperties
<1>9. \A k \in 1 .. Len(y.queue) : k \in 1 .. Len(q) \/ y.queue[k] = f
  BY <1>8
<1>10. \A g \in UnderWay(y) : g \in UnderWay(z) \cup {f}
  BY <1>4, <1>5, <1>8, <1>9 DEF UnderWay
<1>11. ASSUME NEW h \in Host, Course(h, x), \A g \in Emitted(h, x) : Earlier(h.stream, g, f)
       PROVE  Course(h, y)
  <2>1. Course(h, z)
    BY <1>6, <1>11 DEF Thins
  <2>2. /\ \A i \in 1 .. Len(h.heard) : Earlier(h.stream, h.heard[i], f)
        /\ \A g \in UnderWay(z) : Earlier(h.stream, g, f)
    BY <1>7, <1>11 DEF Emitted
  <2>3. \A i \in 1 .. Len(h.heard) : \A g \in UnderWay(y) : Earlier(h.stream, h.heard[i], g)
    BY <1>10, <2>1, <2>2 DEF Course
  <2>6. Earlier(h.stream, y.sending, y.buffer)
    BY <1>4, <1>5, <2>1 DEF Course
  <2>4. \A k \in 1 .. Len(y.queue) : /\ Earlier(h.stream, y.sending, y.queue[k])
                                     /\ Earlier(h.stream, y.buffer, y.queue[k])
    <3> SUFFICES ASSUME NEW k \in 1 .. Len(y.queue)
                 PROVE  /\ Earlier(h.stream, y.sending, y.queue[k])
                        /\ Earlier(h.stream, y.buffer, y.queue[k])
      OBVIOUS
    <3>1. /\ y.sending = z.sending /\ z.sending \in UnderWay(z)
          /\ y.buffer = z.buffer /\ z.buffer \in UnderWay(z)
      BY <1>4, <1>5 DEF UnderWay
    <3>2. CASE k \in 1 .. Len(q)
      BY <1>4, <1>8, <2>1, <3>1, <3>2 DEF Course
    <3>3. CASE y.queue[k] = f
      BY <2>2, <3>1, <3>3
    <3> QED
      BY <1>9, <3>2, <3>3
  <2>5. \A k, m \in 1 .. Len(y.queue) : k < m => Earlier(h.stream, y.queue[k], y.queue[m])
    <3> SUFFICES ASSUME NEW k \in 1 .. Len(y.queue), NEW m \in 1 .. Len(y.queue), k < m
                 PROVE  Earlier(h.stream, y.queue[k], y.queue[m])
      OBVIOUS
    <3>1. k \in 1 .. Len(q) /\ y.queue[k] = q[k]
      BY <1>8
    <3>2. q[k] \in UnderWay(z)
      BY <1>4, <3>1 DEF UnderWay
    <3>3. CASE m \in 1 .. Len(q)
      BY <1>4, <1>8, <2>1, <3>1, <3>3 DEF Course
    <3>4. CASE y.queue[m] = f
      BY <2>2, <3>1, <3>2, <3>4
    <3> QED
      BY <1>9, <3>3, <3>4
  <2> QED
    BY <2>1, <2>3, <2>4, <2>5, <2>6 DEF Course
<1> QED
  BY <1>7, <1>10, <1>11

\* An answer is not part of any stream of records.
LEMMA AnswerThins ==
    ASSUME NEW x \in Transmitter, Len(x.queue) < RingSize, NEW f \in Frame, f.type # "data"
    PROVE  /\ Keeps(x, TryTx(SendFrame(x, f)))
           /\ x.buffer = None => Thins(x, TryTx(SendFrame(x, f)))
<1> DEFINE y == SendFrame(x, f)
<1>1. y \in Transmitter /\ Len(y.queue) < RingSize /\ y.buffer = x.buffer
  BY SendOK
<1>2. Thins(x, y) /\ Keeps(x, y)
  BY SendCourse, NotMine DEF Thins, Keeps
<1> HIDE DEF y
<1>3. Keeps(x, TryTx(y)) /\ (x.buffer = None => Thins(x, TryTx(y)))
  BY <1>1, <1>2, TryTxThins, ThinsThins, KeepsKeeps
<1> QED
  BY <1>3 DEF y

\* The end of a frame brings it to the host.
LEMMA ReceivedCourse ==
    ASSUME NEW x \in Transmitter, NEW y \in Transmitter, y.queue = x.queue, y.sending = None,
           y.buffer = x.buffer, NEW h \in Host, Course(h, x)
    PROVE  Course(Received(h, x.sending), y)
<1> DEFINE r == Received(h, x.sending)
<1>1. Course(h, y)
  BY ThinsSending DEF Thins
<1>2. CASE r = h
  BY <1>1, <1>2
<1>3. CASE r # h
  <2>1. /\ r = [h EXCEPT !.heard = Append(h.heard, x.sending)] /\ x.sending \in Frame
        /\ h.heard \in Seq(Frame)
    BY <1>3, QueueOK DEF Received, Host
  <2>2. r.heard = Append(h.heard, x.sending) /\ r.stream = h.stream
    BY <2>1 DEF Host
  <2>3. /\ Len(h.heard) \in Nat /\ Len(r.heard) = Len(h.heard) + 1
        /\ r.heard[Len(h.heard) + 1] = x.sending
        /\ \A i \in 1 .. Len(h.heard) : r.heard[i] = h.heard[i]
    BY <2>1, <2>2, AppendProperties
  <2>4. \A i \in 1 .. Len(r.heard) : i \in 1 .. Len(h.heard) \/ r.heard[i] = x.sending
    BY <2>3
  <2> HIDE DEF r
  <2>5. \A i \in 1 .. Len(h.heard) : Earlier(h.stream, h.heard[i], x.sending)
    BY DEF Course, UnderWay
  <2>6. \A i, j \in 1 .. Len(r.heard) : i < j => Earlier(r.stream, r.heard[i], r.heard[j])
    <3> SUFFICES ASSUME NEW i \in 1 .. Len(r.heard), NEW j \in 1 .. Len(r.heard), i < j
                 PROVE  Earlier(h.stream, r.heard[i], r.heard[j])
      BY <2>2
    <3>1. i \in 1 .. Len(h.heard) /\ r.heard[i] = h.heard[i]
      BY <2>3
    <3>2. CASE j \in 1 .. Len(h.heard)
      BY <1>1, <2>3, <3>1, <3>2 DEF Course
    <3>3. CASE r.heard[j] = x.sending
      BY <2>5, <3>1, <3>3
    <3> QED
      BY <2>4, <3>2, <3>3
  <2>7. \A i \in 1 .. Len(r.heard) : \A g \in UnderWay(y) : Earlier(r.stream, r.heard[i], g)
    <3> SUFFICES ASSUME NEW i \in 1 .. Len(r.heard), NEW g \in UnderWay(y)
                 PROVE  Earlier(h.stream, r.heard[i], g)
      BY <2>2
    <3>1. CASE i \in 1 .. Len(h.heard)
      BY <1>1, <2>3, <3>1 DEF Course
    <3>2. CASE r.heard[i] = x.sending
      <4>1. CASE g = None
        BY <4>1, NotMine DEF None
      <4>2. CASE g = x.buffer \/ \E k \in 1 .. Len(x.queue) : g = x.queue[k]
        BY <3>2, <4>2 DEF Course
      <4> QED
        BY <4>1, <4>2 DEF UnderWay
    <3> QED
      BY <2>4, <3>1, <3>2
  <2>8. Course(r, y)
    BY <1>1, <2>2, <2>6, <2>7 DEF Course
  <2> QED
    BY <2>8 DEF r
<1> QED
  BY <1>2, <1>3
-----------------------------------------------------------------------------
\* The session runs in front of the frames it has sent.

LEMMA OneIsSome == \A f : <<f>> # <<>>
OBVIOUS

LEMMA DataFrame ==
    ASSUME NEW f \in Frame, f.type = "data"
    PROVE  /\ f.pkt_num \in Nat /\ f.tier \in Tier /\ f.entries \in Seq(Record)
           /\ f.entries # <<>> => f.entries[Len(f.entries)].label \in Nat
<1>1. f.pkt_num \in Nat /\ f.tier \in Tier /\ f.entries \in Seq(Record)
  BY DEF Frame, Record
<1>2. ASSUME f.entries # <<>>
      PROVE  f.entries[Len(f.entries)].label \in Nat
  <2>1. Len(f.entries) \in 1 .. Len(f.entries)
    BY <1>1, <1>2
  <2>2. f.entries[Len(f.entries)] \in Record
    BY <1>1, <2>1
  <2> QED
    BY <2>2 DEF Record
<1> QED
  BY <1>1, <1>2

LEMMA BehindLess ==
    ASSUME NEW st, NEW M, NEW N, NEW s, NEW E, Behind(st, M, s, E),
           \A g \in N : g \in M \/ g.type # "data"
    PROVE  Behind(st, N, s, E)
BY DEF Behind, Mine

LEMMA BehindBegin ==
    ASSUME NEW s \in Session, NEW st, NEW M, Behind(st, M, s, <<>>)
    PROVE  Behind(st, M, BeginPacket(s), <<>>)
<1> DEFINE b == BeginPacket(s)
<1>1. CASE s.next_logical < s.end_logical[s.cur_tier]
  BY <1>1 DEF BeginPacket
<1>2. CASE ~(s.next_logical < s.end_logical[s.cur_tier]) /\ GeneralFollows(s)
  <2>1. b = [s EXCEPT !.cur_tier = "general", !.next_logical = 0]
    BY <1>2 DEF BeginPacket
  <2>2. b.cur_tier = "general" /\ b.pkt_num = s.pkt_num /\ s.cur_tier = "critical"
    BY <1>2, <2>1 DEF Session, GeneralFollows
  <2> HIDE DEF b
  <2>3. ASSUME NEW f \in M, Mine(st, f)
        PROVE  Passed(f, b, NextLabel(b, <<>>))
    <3>1. Passed(f, s, NextLabel(s, <<>>))
      BY <2>3 DEF Behind
    <3> QED
      BY <2>2, <3>1 DEF Passed
  <2>4. Behind(st, M, b, <<>>)
    BY <2>3 DEF Behind
  <2> QED
    BY <2>4 DEF b
<1>3. CASE ~(s.next_logical < s.end_logical[s.cur_tier]) /\ ~GeneralFollows(s)
  <2>1. b = [s EXCEPT !.active = FALSE]
    BY <1>3 DEF BeginPacket
  <2>2. b.cur_tier = s.cur_tier /\ b.pkt_num = s.pkt_num /\ b.next_logical = s.next_logical
    BY <2>1 DEF Session
  <2> HIDE DEF b
  <2>3. Behind(st, M, b, <<>>)
    BY <2>2 DEF Behind, Passed, NextLabel
  <2> QED
    BY <2>3 DEF b
<1> QED
  BY <1>1, <1>2, <1>3

\* The session stands where it stood.
LEMMA BehindStands ==
    ASSUME NEW s, NEW c, c.pkt_num = s.pkt_num, c.cur_tier = s.cur_tier,
           c.next_logical = s.next_logical, NEW st, NEW M, NEW E, Behind(st, M, s, E)
    PROVE  Behind(st, M, c, E)
BY DEF Behind, Passed, NextLabel

\* A record goes into the packet.
LEMMA BehindStored ==
    ASSUME NEW s \in Session, NEW c, c.pkt_num = s.pkt_num, c.cur_tier = s.cur_tier,
           c.next_logical = s.next_logical + 1, NEW st, NEW M, NEW E \in Seq(Record),
           Behind(st, M, s, E), NEW e \in Record, e.label = s.next_logical
    PROVE  Behind(st, M, c, Append(E, e))
<1>1. s.next_logical \in Nat
  BY DEF Session
<1> DEFINE D == Append(E, e)
<1>2. /\ Len(E) \in Nat /\ D \in Seq(Record) /\ Len(D) = Len(E) + 1 /\ D[Len(E) + 1] = e
      /\ \A k \in 1 .. Len(E) : D[k] = E[k] /\ E[k].label \in Nat
  <2>1. \A k \in 1 .. Len(E) : E[k] \in Record
    OBVIOUS
  <2>2. \A k \in 1 .. Len(E) : E[k].label \in Nat
    BY <2>1 DEF Record
  <2> QED
    BY <2>2, AppendProperties
<1> HIDE DEF D
<1>3. D # <<>>
  BY <1>2, EmptySeq
<1>4. NextLabel(c, D) = NextLabel(s, E)
  <2>1. CASE E = <<>>
    BY <1>2, <1>3, <2>1 DEF NextLabel
  <2>2. CASE E # <<>>
    <3>1. 1 \in 1 .. Len(E)
      BY <2>2
    <3> QED
      BY <1>2, <1>3, <2>2, <3>1 DEF NextLabel
  <2> QED
    BY <2>1, <2>2
<1>5. \A f \in M : Mine(st, f) => Passed(f, c, NextLabel(c, D))
  BY <1>4 DEF Behind, Passed
<1>6. \A k \in 1 .. Len(D) : D[k].label < c.next_logical
  <2> SUFFICES ASSUME NEW k \in 1 .. Len(D) PROVE D[k].label < c.next_logical
    OBVIOUS
  <2>1. CASE k \in 1 .. Len(E)
    <3>1. E[k].label < s.next_logical /\ E[k].label \in Nat /\ D[k] = E[k]
      BY <1>2, <2>1 DEF Behind
    <3> QED
      BY <1>1, <3>1
  <2>2. CASE k = Len(E) + 1
    BY <1>1, <1>2, <2>2
  <2> QED
    BY <1>2, <2>1, <2>2
<1> QED
  BY <1>5, <1>6 DEF Behind, D

\* The packet is later than all frames, and the session is behind it too.
LEMMA BehindEnd ==
    ASSUME NEW s \in Session, NEW tier_end, NEW error, NEW E \in Seq(Record),
           NEW p, p = EndPacket(s, tier_end, error, E),
           NEW st, NEW M, M \subseteq Frame \cup {None}, Behind(st, M, s, E)
    PROVE  /\ p.frames = <<>> => Behind(st, M, p.session, <<>>)
           /\ \A f : p.frames = <<f>> =>
                /\ \A g \in M : Earlier(st, g, f)
                /\ Behind(st, M \cup {f}, p.session, <<>>)
<1> DEFINE r == p.session
           F == [type |-> "data", stream |-> s.stream, pkt_num |-> s.pkt_num, tier |-> s.cur_tier,
                 flags |-> PacketFlags(s, tier_end, error), entries |-> E]
<1>1. /\ r.next_logical = s.next_logical /\ r.cur_tier = s.cur_tier
      /\ E = <<>> => p.frames = <<>> /\ r.pkt_num = s.pkt_num
      /\ E # <<>> => r.pkt_num = s.pkt_num + 1 /\ p.frames = <<F>>
  BY EndPacketIs
<1>2. F.entries = E /\ F.tier = s.cur_tier /\ F.pkt_num = s.pkt_num
  OBVIOUS
<1> HIDE DEF r, F
<1>3. CASE E = <<>>
  <2>1. Behind(st, M, r, <<>>)
    BY <1>1, <1>3, BehindStands
  <2>2. \A f : p.frames # <<f>>
    BY <1>1, <1>3, OneIsSome
  <2> QED
    BY <2>1, <2>2 DEF r
<1>4. CASE E # <<>>
  <2>1. p.frames = <<F>> /\ p.frames # <<>>
    BY <1>1, <1>4, OneIsSome
  <2>2. \A f : p.frames = <<f>> => f = F
    <3>1. p.frames[1] = F
      BY <2>1
    <3>2. \A f : <<f>>[1] = f
      OBVIOUS
    <3> QED
      BY <3>1, <3>2
  <2>3. /\ s.next_logical \in Nat /\ s.pkt_num \in Nat /\ s.cur_tier \in Tier
        /\ Len(E) \in 1 .. Len(E) /\ 1 \in 1 .. Len(E)
    BY <1>4 DEF Session
  <2>4. /\ E[1].label \in Nat /\ E[Len(E)].label \in Nat
        /\ E[1].label < s.next_logical /\ E[Len(E)].label < s.next_logical
    <3>1. E[1] \in Record /\ E[Len(E)] \in Record
      BY <2>3
    <3> QED
      BY <2>3, <3>1 DEF Behind, Record
  <2>5. \A l : NextLabel(r, <<>>) = r.next_logical /\ NextLabel(s, E) = E[1].label
    BY <1>4 DEF NextLabel
  <2>6. ASSUME NEW g \in M, Mine(st, g)
        PROVE  Before(g, F) /\ Passed(g, r, r.next_logical)
    <3>1. Passed(g, s, E[1].label)
      BY <2>5, <2>6 DEF Behind
    <3>2. g \in Frame /\ g.type = "data"
      BY <2>6 DEF Mine, None
    <3>3. g.pkt_num \in Nat /\ g.entries # <<>> /\ g.entries[Len(g.entries)].label \in Nat
      BY <3>1, <3>2, DataFrame DEF Passed
    <3>4. Before(g, F)
      BY <1>2, <3>1 DEF Before, Passed
    <3>5. g.pkt_num < r.pkt_num
      BY <1>1, <1>4, <2>3, <3>1, <3>3 DEF Passed
    <3>6. g.tier = r.cur_tier => g.entries[Len(g.entries)].label < r.next_logical
      BY <1>1, <2>3, <2>4, <3>1, <3>3 DEF Passed
    <3> QED
      BY <1>1, <3>1, <3>4, <3>5, <3>6 DEF Passed
  <2>7. Passed(F, r, r.next_logical)
    BY <1>1, <1>2, <1>4, <2>3, <2>4 DEF Passed
  <2>8. \A g \in M : Earlier(st, g, F)
    BY <2>6 DEF Earlier
  <2>9. Behind(st, M \cup {F}, r, <<>>)
    BY <2>5, <2>6, <2>7 DEF Behind
  <2> QED
    BY <2>1, <2>2, <2>8, <2>9 DEF r
<1> QED
  BY <1>3, <1>4

\* A packet of the interrupt.
LEMMA BehindWhole ==
    ASSUME log \in [Tier -> Nat], NEW s \in Session, s.active,
           NEW failing \in {NoFailure} \cup Wanted(s), NEW p, p = WholePacket(s, failing),
           NEW st, NEW M, M \subseteq Frame \cup {None}, Behind(st, M, s, <<>>)
    PROVE  /\ p.frames = <<>> => Behind(st, M, p.session, <<>>)
           /\ \A f : p.frames = <<f>> =>
                /\ \A g \in M : Earlier(st, g, f)
                /\ Behind(st, M \cup {f}, p.session, <<>>)
<1>0. BeginPacket(s) \in Session /\ Behind(st, M, BeginPacket(s), <<>>)
  BY BeginPacketOK, BehindBegin
<1>1. CASE ~BeginPacket(s).active
  <2>1. p.session = BeginPacket(s) /\ p.frames = <<>>
    BY <1>1 DEF WholePacket
  <2> QED
    BY <1>0, <2>1
<1>2. CASE BeginPacket(s).active
  <2> DEFINE b == BeginPacket(s)
             t(n) == [b EXCEPT !.next_logical = @ + n]
             last == b.end_logical[b.cur_tier]
             error == failing # NoFailure
  <2>1. PICK n \in Nat, E \in Seq(Record) :
           /\ E = [k \in 1 .. n |-> Entry(b, b.next_logical + k - 1)]
           /\ Len(E) = n /\ t(n) \in Session
           /\ p = EndPacket(t(n), last, error, E)
    BY <1>2, WholePacketIs
  <2> DEFINE c == t(n)
  <2>2. /\ c \in Session /\ c.next_logical = b.next_logical + n /\ c.cur_tier = b.cur_tier
        /\ c.pkt_num = b.pkt_num /\ b.next_logical \in Nat
    BY <1>0, <2>1 DEF Session
  <2>3. p = EndPacket(c, last, error, E)
    BY <2>1
  <2>4. \A k \in 1 .. n : E[k].label = b.next_logical + k - 1
    BY <2>1 DEF Entry
  <2>5. Behind(st, M, b, <<>>)
    BY <1>0
  <2> HIDE DEF b, c, last, error
  <2>6. NextLabel(c, E) = NextLabel(b, <<>>)
    <3>1. CASE n = 0
      BY <2>1, <2>2, <3>1, EmptySeq DEF NextLabel
    <3>2. CASE n # 0
      <4>1. E # <<>> /\ 1 \in 1 .. n
        BY <2>1, <3>2, EmptySeq
      <4>2. E[1].label = b.next_logical
        BY <2>2, <2>4, <4>1
      <4> QED
        BY <4>1, <4>2 DEF NextLabel
    <3> QED
      BY <3>1, <3>2
  <2>7. \A f \in M : Mine(st, f) => Passed(f, c, NextLabel(c, E))
    BY <2>2, <2>5, <2>6 DEF Behind, Passed
  <2>8. \A k \in 1 .. Len(E) : E[k].label < c.next_logical
    BY <2>1, <2>2, <2>4
  <2>9. Behind(st, M, c, E)
    BY <2>7, <2>8 DEF Behind
  <2> QED
    BY <2>2, <2>3, <2>9, BehindEnd
<1> QED
  BY <1>1, <1>2

\* A packet of the interrupt that comes to nothing leaves the session in place.
LEMMA EmptyWhole ==
    ASSUME log \in [Tier -> Nat], NEW s \in Session, s.active,
           s.next_logical < s.end_logical[s.cur_tier],
           NEW failing \in {NoFailure} \cup Wanted(s), NEW p, p = WholePacket(s, failing),
           p.frames = <<>>
    PROVE  /\ p.session.pkt_num = s.pkt_num /\ p.session.cur_tier = s.cur_tier
           /\ p.session.next_logical = s.next_logical /\ p.session.end_logical = s.end_logical
<1> DEFINE t(n) == [s EXCEPT !.next_logical = @ + n]
           last == s.end_logical[s.cur_tier]
           error == failing # NoFailure
<1>1. BeginPacket(s) = s
  BY DEF BeginPacket
<1>2. PICK n \in Nat, E \in Seq(Record) :
         /\ Len(E) = n /\ t(n) \in Session
         /\ p = EndPacket(t(n), last, error, E)
  BY <1>1, WholePacketIs
<1> DEFINE c == t(n)
<1>3. /\ c \in Session /\ c.next_logical = s.next_logical + n /\ c.cur_tier = s.cur_tier
      /\ c.pkt_num = s.pkt_num /\ s.next_logical \in Nat /\ c.end_logical = s.end_logical
  BY <1>2 DEF Session
<1>4. p = EndPacket(c, last, error, E)
  BY <1>2
<1> HIDE DEF c, last, error
<1>5. E = <<>>
  <2>1. E # <<>> => \E f : p.frames = <<f>>
    BY <1>4 DEF EndPacket
  <2> QED
    BY <2>1, OneIsSome
<1>6. n = 0
  BY <1>2, <1>5
<1>7. /\ p.session.pkt_num = c.pkt_num /\ p.session.cur_tier = c.cur_tier
      /\ p.session.next_logical = c.next_logical /\ p.session.end_logical = c.end_logical
  <2>1. p.session = [c EXCEPT !.active = FALSE]
    BY <1>4, <1>5 DEF EndPacket
  <2> QED
    BY <1>3, <2>1 DEF Session
<1> QED
  BY <1>3, <1>6, <1>7
-----------------------------------------------------------------------------
\* What the steps are to the order of the frames.

LEMMA EmittedOK ==
    ASSUME TypeOK
    PROVE  Emitted(host, tx) \subseteq Frame \cup {None}
<1>1. /\ tx.queue \in Seq(Frame) /\ tx.sending \in Frame \cup {None}
      /\ tx.buffer \in Frame \cup {None} /\ host.heard \in Seq(Frame)
  BY TypeParts, QueueOK DEF Host
<1> QED
  BY <1>1 DEF Emitted, UnderWay

\* A request interrupts the main loop.
LEMMA LoopCrossed ==
    ASSUME loop \in Loop, CrossLoop \/ loop' = loop
    PROVE  /\ loop'.entries = loop.entries /\ loop'.tier_end = loop.tier_end
           /\ loop'.frame = loop.frame
           /\ (InPacket' <=> InPacket) /\ (InSend' <=> InSend)
<1>1. CASE loop' = loop
  BY <1>1 DEF InPacket, InSend
<1>2. CASE loop.at = "copy" /\ loop' = [loop EXCEPT !.at = "crossed"]
  <2>1. /\ loop'.entries = loop.entries /\ loop'.tier_end = loop.tier_end
        /\ loop'.frame = loop.frame /\ loop'.at = "crossed"
    BY <1>2 DEF Loop
  <2> QED
    BY <1>2, <2>1 DEF InPacket, InSend
<1> QED
  BY <1>1, <1>2 DEF CrossLoop

\* Between two frames the main loop holds none.
LEMMA NothingInHand ==
    ASSUME TypeOK, ~InSend
    PROVE  tx.buffer = None
BY TypeParts DEF InHand, InSend

\* No frame is added to the ring, save the one the main loop has in hand.
LEMMA CourseThins ==
    ASSUME TypeOK, TypeOK', Issued, InCourse, ~host'.mixed => Thins(tx, tx'),
           \A g \in UnderWay(tx') \cup {loop'.frame} :
                g \in UnderWay(tx) \cup {loop.frame} \/ g.type # "data",
           host'.stream = host.stream, host'.heard = host.heard, ~host'.mixed => ~host.mixed,
           session'.stream \in {session.stream, 0}, panel'.next_stream >= panel.next_stream,
           /\ ~host'.mixed /\ InTier
           /\ host.stream # 0 /\ session.stream = host.stream /\ session'.stream = host.stream
           /\ Behind(host.stream, Emitted(host, tx), session, loop.entries)
           => Behind(host.stream, Emitted(host, tx), session', loop'.entries) /\ InTier'
    PROVE  Issued' /\ InCourse'
<1>0. /\ session.stream \in Nat /\ host.stream \in Nat /\ host \in Host
      /\ panel.next_stream \in Nat /\ panel'.next_stream \in Nat
  BY TypeParts DEF TypeOK, Session, Host, Panel
<1>2. \A g \in UnderWay(tx') \cup {loop'.frame} : g.type = "data" => g.stream < panel'.next_stream
  <2> SUFFICES ASSUME NEW g \in UnderWay(tx') \cup {loop'.frame}, g.type = "data"
               PROVE  g.stream < panel'.next_stream
    OBVIOUS
  <2>1. g \in UnderWay(tx) \cup {loop.frame} /\ g \in Frame
    <3>1. loop.frame \in Frame \cup {None}
      BY TypeParts DEF Loop
    <3> QED
      BY <3>1, EmittedOK DEF Emitted, None
  <2>2. g.stream \in Nat
    BY <2>1 DEF Frame
  <2>3. g.stream < panel.next_stream
    BY <2>1 DEF Issued
  <2> QED
    BY <1>0, <2>2, <2>3
<1>3. session'.stream < panel'.next_stream /\ host'.stream < panel'.next_stream
  <2>1. session.stream < panel.next_stream /\ host.stream < panel.next_stream
    BY DEF Issued
  <2> QED
    BY <1>0, <2>1
<1>4. Issued'
  BY <1>2, <1>3 DEF Issued
<1>5. ASSUME ~host'.mixed, host'.stream # 0
      PROVE  /\ Course(host', tx')
             /\ session'.stream = host'.stream =>
                   Behind(host'.stream, Emitted(host', tx'), session', loop'.entries) /\ InTier'
  <2>1. /\ Course(host, tx)
        /\ session.stream = host.stream =>
              Behind(host.stream, Emitted(host, tx), session, loop.entries) /\ InTier
    BY <1>5 DEF InCourse
  <2>2. Course(host, tx')
    BY <1>0, <1>5, <2>1 DEF Thins
  <2>3. Course(host', tx')
    BY <2>2 DEF Course
  <2>4. ASSUME session'.stream = host'.stream
        PROVE  Behind(host'.stream, Emitted(host', tx'), session', loop'.entries) /\ InTier'
    <3>1. session'.stream = session.stream /\ session.stream = host.stream
      BY <1>5, <2>4
    <3>2. Behind(host.stream, Emitted(host, tx), session', loop'.entries) /\ InTier'
      BY <1>5, <2>1, <3>1
    <3>3. \A g \in Emitted(host', tx') : g \in Emitted(host, tx) \/ g.type # "data"
      BY <1>5 DEF Emitted, Thins, Keeps
    <3>4. Behind(host.stream, Emitted(host', tx'), session', loop'.entries)
      BY <3>2, <3>3, BehindLess
    <3> QED
      BY <3>2, <3>4
  <2> QED
    BY <2>3, <2>4
<1>6. InCourse'
  BY <1>5 DEF InCourse
<1> QED
  BY <1>4, <1>6

\* A packet of the session is added to the ring.
LEMMA CourseSent ==
    ASSUME TypeOK, TypeOK', Issued, InCourse,
           NEW f \in Frame, f.type = "data", f.stream = session.stream,
           tx' \in {SendFrame(tx, f), TryTx(SendFrame(tx, f))},
           ~host'.mixed => tx.buffer = None, loop'.frame = loop.frame,
           host'.stream = host.stream, host'.heard = host.heard, ~host'.mixed => ~host.mixed,
           session'.stream = session.stream, panel'.next_stream >= panel.next_stream,
           ~host'.mixed => ~InPacket' /\ loop'.entries = <<>>,
           /\ ~host'.mixed /\ InTier
           /\ Behind(host.stream, Emitted(host, tx), session, loop.entries)
           => /\ \A g \in Emitted(host, tx) : Earlier(host.stream, g, f)
              /\ Behind(host.stream, Emitted(host, tx) \cup {f}, session', <<>>)
    PROVE  Issued' /\ InCourse'
<1>0. /\ session.stream \in Nat /\ host.stream \in Nat /\ host \in Host
      /\ panel.next_stream \in Nat /\ panel'.next_stream \in Nat
      /\ tx \in Transmitter /\ Len(tx.queue) < RingSize
  BY TypeParts DEF TypeOK, Session, Host, Panel
<1> DEFINE y == SendFrame(tx, f)
<1>1. y \in Transmitter /\ Len(y.queue) < RingSize /\ y.buffer = tx.buffer
  BY <1>0, SendOK
<1>2. /\ \A g \in UnderWay(y) : g \in UnderWay(tx) \cup {f}
      /\ Course(host, tx) /\ (\A g \in Emitted(host, tx) : Earlier(host.stream, g, f)) =>
            Course(host, y)
  BY <1>0, SendCourse
<1>3. Keeps(y, tx') /\ (~host'.mixed => Thins(y, tx'))
  <2>1. tx' = y \/ tx' = TryTx(y)
    OBVIOUS
  <2> HIDE DEF y
  <2> QED
    BY <1>1, <2>1, TryTxThins, ThinsItself DEF Thins
<1> HIDE DEF y
<1>4. \A g \in UnderWay(tx') : g \in UnderWay(tx) \cup {f} \/ g.type # "data"
  BY <1>2, <1>3 DEF Keeps
<1>5. \A g \in UnderWay(tx') \cup {loop'.frame} : g.type = "data" => g.stream < panel'.next_stream
  <2> SUFFICES ASSUME NEW g \in UnderWay(tx') \cup {loop'.frame}, g.type = "data"
               PROVE  g.stream < panel'.next_stream
    OBVIOUS
  <2>1. g \in UnderWay(tx) \cup {f, loop.frame} /\ g \in Frame
    <3>1. loop.frame \in Frame \cup {None}
      BY TypeParts DEF Loop
    <3> QED
      BY <1>4, <3>1, EmittedOK DEF Emitted, None
  <2>2. g.stream \in Nat
    BY <2>1 DEF Frame
  <2>3. g.stream < panel.next_stream
    BY <2>1 DEF Issued
  <2> QED
    BY <1>0, <2>2, <2>3
<1>6. session'.stream < panel'.next_stream /\ host'.stream < panel'.next_stream
  <2>1. session.stream < panel.next_stream /\ host.stream < panel.next_stream
    BY DEF Issued
  <2> QED
    BY <1>0, <2>1
<1>7. Issued'
  BY <1>5, <1>6 DEF Issued
<1>8. ASSUME ~host'.mixed, host'.stream # 0
      PROVE  /\ Course(host', tx')
             /\ session'.stream = host'.stream =>
                   Behind(host'.stream, Emitted(host', tx'), session', loop'.entries) /\ InTier'
  <2>1. /\ Course(host, tx)
        /\ session.stream = host.stream =>
              Behind(host.stream, Emitted(host, tx), session, loop.entries) /\ InTier
    BY <1>8 DEF InCourse
  <2>2. \A g \in Emitted(host, tx) : Earlier(host.stream, g, f)
    <3>1. CASE session.stream = host.stream
      BY <1>8, <2>1, <3>1
    <3>2. CASE session.stream # host.stream
      BY <3>2 DEF Earlier, Mine
    <3> QED
      BY <3>1, <3>2
  <2>3. Course(host, tx')
    BY <1>0, <1>2, <1>3, <1>8, <2>1, <2>2 DEF Thins
  <2>4. Course(host', tx')
    BY <2>3 DEF Course
  <2>5. ASSUME session'.stream = host'.stream
        PROVE  Behind(host'.stream, Emitted(host', tx'), session', loop'.entries) /\ InTier'
    <3>1. Behind(host.stream, Emitted(host, tx) \cup {f}, session', <<>>)
      BY <1>8, <2>1, <2>5
    <3>2. \A g \in Emitted(host', tx') : g \in Emitted(host, tx) \cup {f} \/ g.type # "data"
      BY <1>4 DEF Emitted
    <3>3. Behind(host.stream, Emitted(host', tx'), session', <<>>)
      BY <3>1, <3>2, BehindLess
    <3>4. InTier'
      BY <1>8 DEF InTier
    <3> QED
      BY <1>8, <3>3, <3>4
  <2> QED
    BY <2>4, <2>5
<1>9. InCourse'
  BY <1>8 DEF InCourse
<1> QED
  BY <1>7, <1>9

\* The packet p of a session that has run up to s is sent, or there is none.
LEMMA CoursePacket ==
    ASSUME TypeOK, TypeOK', Issued, InCourse,
           NEW p, session' = p.session, p.session.stream = session.stream,
           p.frames = <<>> \/ \E f \in Frame : /\ p.frames = <<f>> /\ f.stream = session.stream
                                               /\ f.type = "data",
           tx' \in {Send(tx, p.frames), TryTx(Send(tx, p.frames))},
           ~host'.mixed => tx.buffer = None, loop'.frame = loop.frame,
           host'.stream = host.stream, host'.heard = host.heard, ~host'.mixed => ~host.mixed,
           panel'.next_stream >= panel.next_stream,
           ~host'.mixed /\ p.frames # <<>> => ~InPacket' /\ loop'.entries = <<>>,
           /\ ~host'.mixed /\ InTier
           /\ Behind(host.stream, Emitted(host, tx), session, loop.entries)
           => /\ p.frames = <<>> =>
                    Behind(host.stream, Emitted(host, tx), p.session, loop'.entries) /\ InTier'
              /\ \A f : p.frames = <<f>> =>
                    /\ \A g \in Emitted(host, tx) : Earlier(host.stream, g, f)
                    /\ Behind(host.stream, Emitted(host, tx) \cup {f}, p.session, <<>>)
    PROVE  Issued' /\ InCourse'
<1>0. tx \in Transmitter /\ Len(tx.queue) < RingSize
  BY TypeParts
<1>1. CASE p.frames = <<>>
  <2>1. Send(tx, p.frames) = tx
    BY <1>1 DEF Send
  <2>2. Keeps(tx, tx') /\ (~host'.mixed => Thins(tx, tx'))
    BY <1>0, <2>1, TryTxThins, ThinsItself DEF Thins
  <2>3. \A g \in UnderWay(tx') \cup {loop'.frame} :
            g \in UnderWay(tx) \cup {loop.frame} \/ g.type # "data"
    BY <2>2 DEF Keeps
  <2> QED
    BY <1>1, <2>2, <2>3, CourseThins
<1>2. CASE p.frames # <<>>
  <2>1. PICK f \in Frame : p.frames = <<f>> /\ f.stream = session.stream /\ f.type = "data"
    BY <1>2
  <2>2. Send(tx, p.frames) = SendFrame(tx, f)
    BY <1>2, <2>1 DEF Send
  <2> QED
    BY <1>2, <2>1, <2>2, CourseSent
<1> QED
  BY <1>1, <1>2

LEMMA EndPacketData ==
    ASSUME NEW s \in Session, NEW tier_end, NEW error, NEW E \in Seq(Record),
           NEW p, p = EndPacket(s, tier_end, error, E)
    PROVE  /\ p.session.stream = s.stream
           /\ p.frames = <<>> \/ \E f \in Frame : /\ p.frames = <<f>> /\ f.stream = s.stream
                                                  /\ f.type = "data"
<1>1. /\ p.session.stream = s.stream
      /\ p.frames = <<>> \/ \E f \in Frame : p.frames = <<f>> /\ f.stream = s.stream
  BY EndPacketStream
<1>2. ASSUME NEW f \in Frame, p.frames = <<f>>
      PROVE  f.type = "data"
  <2>1. E # <<>>
    BY <1>2, OneIsSome DEF EndPacket
  <2>2. p.frames = <<[type |-> "data", stream |-> s.stream, pkt_num |-> s.pkt_num,
                      tier |-> s.cur_tier, flags |-> PacketFlags(s, tier_end, error),
                      entries |-> E]>>
    BY <2>1 DEF EndPacket
  <2>3. p.frames[1] = f /\ p.frames[1].type = "data"
    <3>1. p.frames[1] = f
      BY <1>2
    <3>2. p.frames[1].type = "data"
      BY <2>2
    <3> QED
      BY <3>1, <3>2
  <2> QED
    BY <2>3
<1> QED
  BY <1>1, <1>2

LEMMA WholePacketData ==
    ASSUME log \in [Tier -> Nat], NEW s \in Session, s.active,
           NEW failing \in {NoFailure} \cup Wanted(s), NEW p, p = WholePacket(s, failing)
    PROVE  /\ p.session.stream = s.stream
           /\ p.frames = <<>> \/ \E f \in Frame : /\ p.frames = <<f>> /\ f.stream = s.stream
                                                  /\ f.type = "data"
<1>1. CASE ~BeginPacket(s).active
  <2>1. p.session = BeginPacket(s) /\ p.frames = <<>>
    BY <1>1 DEF WholePacket
  <2> QED
    BY <2>1, BeginPacketKeeps
<1>2. CASE BeginPacket(s).active
  <2> DEFINE b == BeginPacket(s)
             t(n) == [b EXCEPT !.next_logical = @ + n]
             last == b.end_logical[b.cur_tier]
             error == failing # NoFailure
  <2>1. PICK n \in Nat, E \in Seq(Record) : t(n) \in Session /\ p = EndPacket(t(n), last, error, E)
    BY <1>2, WholePacketIs
  <2> DEFINE u == t(n)
  <2>2. b \in Session /\ b.stream = s.stream
    BY BeginPacketOK, BeginPacketKeeps
  <2>3. u \in Session /\ u.stream = s.stream /\ p = EndPacket(u, last, error, E)
    BY <2>1, <2>2 DEF Session
  <2> HIDE DEF u, last, error
  <2> QED
    BY <2>3, EndPacketData
<1> QED
  BY <1>1, <1>2

\* START_DUMP: a stream that begins, or a host that is told to wait.
LEMMA CourseStart ==
    ASSUME TypeOK, TypeOK', GathersInPacket, Issued, InCourse,
           NEW mode \in Tier \cup {"both"}, NEW start \in Starts, RequestStart(mode, start)
    PROVE  Issued' /\ InCourse'
<1>0. /\ tx \in Transmitter /\ Len(tx.queue) < RingSize /\ panel \in Panel /\ host \in Host
      /\ panel.next_stream \in Nat /\ session.stream \in Nat /\ host.stream \in Nat
      /\ start \in Nat /\ loop \in Loop
  BY TypeParts, SurroundingsAssumption DEF Session, Panel, Host
<1>1. panel.next_stream > 0
  BY <1>0 DEF Issued
<1> DEFINE a == StartDump(session, mode, start)
           fresh == panel.next_stream
<1>2. /\ session' = a.session /\ tx' = TryTx(SendFrame(tx, a.rsp)) /\ CrossLoop
      /\ IF a.rsp.status = "BUSY"
         THEN panel' = panel /\ host' = Disturbed(host)
         ELSE /\ panel' = [panel EXCEPT !.next_stream = @ + 1]
              /\ host' = [stream |-> a.rsp.stream, heard |-> <<>>, failed |-> FALSE,
                          quiet |-> ~Outstanding, mixed |-> InPacket \/ InSend]
  BY DEF RequestStart
<1>8. /\ loop'.entries = loop.entries /\ loop'.tier_end = loop.tier_end
      /\ loop'.frame = loop.frame /\ (InPacket' <=> InPacket)
  BY <1>0, <1>2, LoopCrossed
<1>3. /\ session.active => a.session = session /\ a.rsp = Response("BUSY", 0, 0)
      /\ ~session.active =>
            /\ a.session.stream \in {0, fresh}
            /\ \E status \in {"OK", "OUT_OF_RANGE"}, stream \in {0, fresh} : \E total :
                    a.rsp = Response(status, stream, total)
  <2>1. /\ session.active => a.session = session /\ a.rsp = Response("BUSY", 0, 0)
        /\ ~session.active =>
             \/ /\ ~a.session.active /\ a.session.stream = fresh
                /\ a.rsp = Response("OUT_OF_RANGE", 0, 0)
             \/ /\ a.session = NoSession /\ start = Records(mode)
                /\ a.rsp = Response("OK", fresh, 0)
             \/ /\ Opened(a.session, mode, start) /\ start < Records(mode)
                /\ a.rsp = Response("OK", fresh, Records(mode) - start)
    BY <1>0, StartDumpIs
  <2>2. NoSession.stream = 0
    BY DEF NoSession
  <2>3. Opened(a.session, mode, start) => a.session.stream = fresh
    BY DEF Opened
  <2> HIDE DEF a
  <2> QED
    BY <2>1, <2>2, <2>3
<1>4. a.rsp \in Frame /\ a.rsp.type # "data"
  <2>1. a.rsp \in Frame
    BY <1>0, StartDumpOK, TypeParts
  <2>2. \A status, stream, total : Response(status, stream, total).type # "data"
    BY DEF Response
  <2> HIDE DEF a
  <2> QED
    BY <1>3, <2>1, <2>2
<1> HIDE DEF a
<1>5. Keeps(tx, tx') /\ (~InSend => Thins(tx, tx'))
  BY <1>0, <1>2, <1>4, NothingInHand, AnswerThins
<1>9. \A g \in UnderWay(tx') \cup {loop'.frame} :
          g \in UnderWay(tx) \cup {loop.frame} \/ g.type # "data"
  BY <1>5, <1>8 DEF Keeps
<1>6. CASE session.active
  <2>1. a.rsp.status = "BUSY" /\ session' = session
    BY <1>2, <1>3, <1>6 DEF Response
  <2>2. host' = Disturbed(host) /\ panel' = panel
    BY <1>2, <2>1
  <2>3. /\ host'.stream = host.stream /\ host'.heard = host.heard
        /\ ~host'.mixed => ~host.mixed /\ ~InSend
    BY <1>0, <2>2, DisturbedOK
  <2>4. InTier => InTier'
    BY <1>8, <2>1 DEF InTier
  <2> QED
    BY <1>0, <1>5, <1>8, <1>9, <2>1, <2>2, <2>3, <2>4, CourseThins
<1>7. CASE ~session.active
  <2>1. PICK status \in {"OK", "OUT_OF_RANGE"}, stream \in {0, fresh} :
            \E total : a.rsp = Response(status, stream, total)
    BY <1>3, <1>7
  <2>2. a.rsp.status # "BUSY" /\ a.rsp.stream = stream
    BY <2>1 DEF Response
  <2>3. panel'.next_stream = fresh + 1
    BY <1>0, <1>2, <2>2 DEF Panel
  <2>4. host'.stream = stream /\ host'.heard = <<>> /\ (~host'.mixed => ~InPacket)
    <3> DEFINE q == ~Outstanding
               m == InPacket \/ InSend
    <3>1. host' = [stream |-> a.rsp.stream, heard |-> <<>>, failed |-> FALSE,
                   quiet |-> q, mixed |-> m]
      BY <1>2, <2>2
    <3>2. ~m => ~InPacket
      OBVIOUS
    <3> HIDE DEF q, m
    <3>3. host'.stream = a.rsp.stream /\ host'.heard = <<>> /\ host'.mixed = m
      BY <3>1
    <3> QED
      BY <2>2, <3>2, <3>3
  <2>5. session'.stream \in {0, fresh}
    BY <1>2, <1>3, <1>7
  <2>6. \A g \in UnderWay(tx') \cup {loop'.frame} :
            g.type = "data" => g.stream < fresh /\ g.stream \in Nat
    <3> SUFFICES ASSUME NEW g \in UnderWay(tx') \cup {loop'.frame}, g.type = "data"
                 PROVE  g.stream < fresh /\ g.stream \in Nat
      OBVIOUS
    <3>1. g \in UnderWay(tx) \cup {loop.frame} /\ g \in Frame
      <4>1. loop.frame \in Frame \cup {None}
        BY <1>0 DEF Loop
      <4> QED
        BY <1>9, <4>1, EmittedOK DEF Emitted, None
    <3> QED
      BY <3>1 DEF Issued, Frame
  <2>7. Issued'
    <3>1. session'.stream < panel'.next_stream /\ host'.stream < panel'.next_stream
      BY <1>0, <1>1, <2>3, <2>4, <2>5
    <3>2. \A g \in UnderWay(tx') \cup {loop'.frame} : g.type = "data" => g.stream < panel'.next_stream
      BY <1>0, <2>3, <2>6
    <3>3. \A i \in 1 .. Len(host'.heard) : host'.heard[i].stream = host'.stream
      BY <2>4
    <3> QED
      BY <3>1, <3>2, <3>3 DEF Issued
  <2>8. ASSUME ~host'.mixed, host'.stream # 0
        PROVE  Course(host', tx') /\ Behind(host'.stream, Emitted(host', tx'), session', loop'.entries)
               /\ InTier'
    <3>1. stream = fresh /\ ~InPacket /\ loop'.entries = <<>> /\ ~InPacket'
      BY <1>8, <2>4, <2>8 DEF GathersInPacket
    <3>2. \A g \in UnderWay(tx') : ~Mine(fresh, g)
      BY <1>0, <2>6 DEF Mine
    <3>3. Len(host'.heard) = 0
      BY <2>4
    <3>4. \A g \in Emitted(host', tx') : ~Mine(host'.stream, g)
      BY <2>4, <3>1, <3>2, <3>3 DEF Emitted
    <3>5. Behind(host'.stream, Emitted(host', tx'), session', loop'.entries)
      BY <3>1, <3>4 DEF Behind
    <3>6. \A g \in UnderWay(tx') : \A f : Earlier(host'.stream, f, g) /\ Earlier(host'.stream, g, f)
      BY <2>4, <3>1, <3>2 DEF Earlier
    <3>7. /\ tx'.sending \in UnderWay(tx') /\ tx'.buffer \in UnderWay(tx')
          /\ \A k \in 1 .. Len(tx'.queue) : tx'.queue[k] \in UnderWay(tx')
      BY DEF UnderWay
    <3>8. Course(host', tx')
      BY <3>3, <3>6, <3>7 DEF Course
    <3> QED
      BY <3>1, <3>5, <3>8 DEF InTier
  <2>9. InCourse'
    BY <2>8 DEF InCourse
  <2> QED
    BY <2>7, <2>9
<1> QED
  BY <1>6, <1>7

LEMMA CoursePump ==
    ASSUME TypeOK, TypeOK', GathersInPacket, Issued, InCourse, SendIsMixed,
           NEW failing \in {NoFailure} \cup Wanted(session), Pump(failing)
    PROVE  Issued' /\ InCourse'
<1>0. /\ log \in [Tier -> Nat] /\ session \in Session /\ tx \in Transmitter
      /\ Len(tx.queue) < RingSize /\ panel \in Panel /\ host \in Host /\ loop \in Loop
      /\ panel.next_stream \in Nat
  BY TypeParts DEF Panel
<1> DEFINE p == IF session.active THEN WholePacket(session, failing)
                ELSE [session |-> session, frames |-> <<>>]
<1>1. /\ session' = p.session /\ tx' = TryTx(Send(tx, p.frames)) /\ CrossLoop /\ irq > 0
      /\ host' = [host EXCEPT !.failed = @ \/ failing # NoFailure,
                              !.mixed = @ \/ (InPacket /\ p.frames # <<>>)]
      /\ LogHostLink \/ panel' = panel
  BY DEF Pump
<1>2. panel'.next_stream = panel.next_stream
  BY <1>0, <1>1 DEF LogHostLink, Panel
<1>3. /\ host'.stream = host.stream /\ host'.heard = host.heard
      /\ ~host'.mixed => ~host.mixed /\ ~(InPacket /\ p.frames # <<>>)
  <2> HIDE DEF p
  <2> QED
    BY <1>0, <1>1 DEF Host
<1>4. /\ InPacket' <=> InPacket
      /\ loop'.entries = loop.entries /\ loop'.tier_end = loop.tier_end /\ loop'.frame = loop.frame
  BY <1>0, <1>1, LoopCrossed
<1>7. ~host'.mixed => tx.buffer = None
  BY <1>1, <1>3, NothingInHand DEF SendIsMixed
<1>5. CASE ~session.active
  <2>1. p.frames = <<>> /\ p.session = session
    BY <1>5
  <2> HIDE DEF p
  <2>2. session' = session /\ tx' = TryTx(tx)
    BY <1>1, <2>1 DEF Send
  <2>3. InTier => InTier'
    BY <1>4, <2>2 DEF InTier
  <2>4. Keeps(tx, tx') /\ (~host'.mixed => Thins(tx, tx'))
    BY <1>0, <1>7, <2>2, TryTxThins
  <2>5. \A g \in UnderWay(tx') \cup {loop'.frame} :
            g \in UnderWay(tx) \cup {loop.frame} \/ g.type # "data"
    BY <1>4, <2>4 DEF Keeps
  <2> QED
    BY <1>0, <1>2, <1>3, <1>4, <2>2, <2>3, <2>4, <2>5, CourseThins
<1>6. CASE session.active
  <2>1. p = WholePacket(session, failing)
    BY <1>6
  <2> HIDE DEF p
  <2>2. /\ p.session.stream = session.stream
        /\ p.frames = <<>> \/ \E f \in Frame : /\ p.frames = <<f>> /\ f.stream = session.stream
                                               /\ f.type = "data"
    BY <1>0, <1>6, <2>1, WholePacketData
  <2>3. ~host'.mixed /\ p.frames # <<>> => ~InPacket' /\ loop'.entries = <<>>
    BY <1>3, <1>4 DEF GathersInPacket
  <2>4. ASSUME ~host'.mixed, InTier,
               Behind(host.stream, Emitted(host, tx), session, loop.entries)
        PROVE  /\ p.frames = <<>> =>
                    Behind(host.stream, Emitted(host, tx), p.session, loop'.entries) /\ InTier'
               /\ \A f : p.frames = <<f>> =>
                    /\ \A g \in Emitted(host, tx) : Earlier(host.stream, g, f)
                    /\ Behind(host.stream, Emitted(host, tx) \cup {f}, p.session, <<>>)
    <3>1. CASE InPacket
      <4>1. p.frames = <<>> /\ session.next_logical < session.end_logical[session.cur_tier]
        BY <1>3, <2>4, <3>1 DEF InTier
      <4>2. /\ p.session.pkt_num = session.pkt_num /\ p.session.cur_tier = session.cur_tier
            /\ p.session.next_logical = session.next_logical
            /\ p.session.end_logical = session.end_logical
        BY <1>0, <1>6, <2>1, <4>1, EmptyWhole
      <4>3. Behind(host.stream, Emitted(host, tx), p.session, loop'.entries)
        BY <1>1, <1>4, <2>4, <4>2, BehindStands
      <4>4. InTier'
        BY <1>1, <1>4, <2>4, <3>1, <4>2 DEF InTier
      <4> QED
        BY <4>1, <4>3, <4>4, OneIsSome
    <3>2. CASE ~InPacket
      <4>1. loop.entries = <<>> /\ loop'.entries = <<>> /\ InTier'
        BY <1>4, <3>2 DEF GathersInPacket, InTier
      <4> DEFINE M == Emitted(host, tx)
      <4>2. M \subseteq Frame \cup {None}
        BY EmittedOK
      <4>3. Behind(host.stream, M, session, <<>>)
        BY <2>4, <4>1
      <4> HIDE DEF M
      <4>4. /\ p.frames = <<>> => Behind(host.stream, M, p.session, <<>>)
            /\ \A f : p.frames = <<f>> =>
                  /\ \A g \in M : Earlier(host.stream, g, f)
                  /\ Behind(host.stream, M \cup {f}, p.session, <<>>)
        BY <1>0, <1>6, <2>1, <4>2, <4>3, BehindWhole
      <4> QED
        BY <4>1, <4>4 DEF M
    <3> QED
      BY <3>1, <3>2
  <2>5. panel'.next_stream >= panel.next_stream
    BY <1>0, <1>2
  <2> QED
    BY <1>1, <1>3, <1>4, <1>7, <2>2, <2>3, <2>4, <2>5, CoursePacket
<1> QED
  BY <1>5, <1>6

\* The main loop finishes its packet.
LEMMA CourseFinish ==
    ASSUME TypeOK, TypeOK', Issued, InCourse, InPacket,
           NEW s \in Session, s.stream = session.stream, NEW error, NEW E \in Seq(Record),
           FinishPacket(s, error, E),
           InTier /\ Behind(host.stream, Emitted(host, tx), session, loop.entries) =>
                Behind(host.stream, Emitted(host, tx), s, E),
           host'.stream = host.stream, host'.heard = host.heard, host'.mixed = host.mixed,
           panel' = panel
    PROVE  Issued' /\ InCourse'
<1>0. loop \in Loop /\ panel.next_stream \in Nat
  BY TypeParts DEF Panel
<1> DEFINE p == EndPacket(s, loop.tier_end, error, E)
<1>1. /\ session' = p.session /\ tx' = Send(tx, p.frames)
      /\ loop' = [loop EXCEPT !.at = "pump", !.entries = <<>>, !.record = 0]
  BY DEF FinishPacket
<1>2. /\ p.session.stream = session.stream
      /\ p.frames = <<>> \/ \E f \in Frame : /\ p.frames = <<f>> /\ f.stream = session.stream
                                             /\ f.type = "data"
  BY EndPacketData
<1>7. tx.buffer = None
  BY NothingInHand DEF InPacket, InSend
<1>3. loop'.entries = <<>> /\ ~InPacket' /\ loop'.frame = loop.frame
  <2> HIDE DEF p
  <2>1. loop'.entries = <<>> /\ loop'.at = "pump" /\ loop'.frame = loop.frame
    BY <1>0, <1>1 DEF Loop
  <2> QED
    BY <2>1 DEF InPacket
<1>4. InTier'
  BY <1>3 DEF InTier
<1>5. ASSUME InTier, Behind(host.stream, Emitted(host, tx), session, loop.entries)
      PROVE  /\ p.frames = <<>> => Behind(host.stream, Emitted(host, tx), p.session, <<>>)
             /\ \A f : p.frames = <<f>> =>
                  /\ \A g \in Emitted(host, tx) : Earlier(host.stream, g, f)
                  /\ Behind(host.stream, Emitted(host, tx) \cup {f}, p.session, <<>>)
  <2>1. Behind(host.stream, Emitted(host, tx), s, E) /\ Emitted(host, tx) \subseteq Frame \cup {None}
    BY <1>5, EmittedOK
  <2> QED
    BY <2>1, BehindEnd
<1>6. panel'.next_stream >= panel.next_stream
  BY <1>0
<1> HIDE DEF p
<1> QED
  BY <1>1, <1>2, <1>3, <1>4, <1>5, <1>6, <1>7, CoursePacket

\* The main loop hands a frame over: it takes the oldest one from the ring, and
\* the ring is its own unless a request came in between.
LEMMA CourseSend ==
    ASSUME TypeOK, TypeOK', GathersInPacket, GathersInPacket', Wired, Issued, InCourse,
           SendIsMixed, LogTransport_Process \/ PumpEnds \/ TryTxSteps
    PROVE  Issued' /\ InCourse'
<1>0. /\ tx \in Transmitter /\ panel.next_stream \in Nat /\ loop \in Loop /\ InHand
      /\ tx' \in Transmitter /\ tx.queue \in Seq(Frame) /\ loop.next \in {"idle", "pump"}
  BY TypeParts DEF TypeOK, Transmitter, Record, Panel, Loop
<1>1. session' = session /\ host' = host /\ panel' = panel /\ ~InPacket
  BY TryTxStepsKeep DEF LogTransport_Process, PumpEnds, InPacket, InSend
<1>2. ASSUME ~InPacket', ~host.mixed => Thins(tx, tx'),
             \A g \in UnderWay(tx') \cup {loop'.frame} :
                g \in UnderWay(tx) \cup {loop.frame} \/ g.type # "data"
      PROVE  Issued' /\ InCourse'
  <2>1. loop'.entries = loop.entries /\ InTier'
    BY <1>1, <1>2 DEF GathersInPacket, InTier
  <2> QED
    BY <1>0, <1>1, <1>2, <2>1, CourseThins
<1>3. None.type # "data" /\ Thins(tx, tx) /\ Keeps(tx, tx)
  BY ThinsItself DEF None, Thins
<1>4. Left(loop.next).frame = None /\ Left(loop.next).at \notin {"read", "store"}
  <2>1. Left(loop.next).at = loop.next
    BY <1>0, LeftOK
  <2> QED
    BY <1>0, <2>1 DEF Left, Resting
<1>5. CASE LogTransport_Process \/ PumpEnds
  <2>1. tx' = tx /\ \E next \in {"idle", "pump"} : TestUart(next)
    BY <1>5 DEF LogTransport_Process, PumpEnds
  <2>2. loop'.at \in {"idle", "pump", "look"}
    BY <2>1, TestUartOK
  <2>3. loop'.frame = None
    BY <2>1 DEF TestUart, Left, Resting
  <2>4. ~InPacket'
    BY <2>2 DEF InPacket
  <2> QED
    BY <1>2, <1>3, <2>1, <2>3, <2>4
<1>6. CASE LookAtRing
  <2>1. CASE tx.queue = <<>>
    <3>1. tx' = tx /\ loop' = Left(loop.next)
      BY <1>6, <2>1 DEF LookAtRing
    <3> QED
      BY <1>2, <1>3, <1>4, <3>1 DEF InPacket
  <2>2. CASE tx.queue # <<>>
    <3>1. tx' = tx /\ loop' = [loop EXCEPT !.at = "copy", !.frame = Head(tx.queue)]
      BY <1>6, <2>2 DEF LookAtRing
    <3>2. Head(tx.queue) \in UnderWay(tx)
      <4>1. Head(tx.queue) = tx.queue[1] /\ 1 \in 1 .. Len(tx.queue)
        BY <1>0, <2>2
      <4> QED
        BY <4>1 DEF UnderWay
    <3>3. loop'.frame = Head(tx.queue) /\ loop'.at = "copy"
      BY <1>0, <3>1 DEF Loop
    <3> QED
      BY <1>2, <1>3, <3>1, <3>2, <3>3 DEF InPacket
  <2> QED
    BY <2>1, <2>2
<1>7. CASE CopyFrame
  <2> DEFINE v == IF tx.line = "log" THEN None ELSE tx.sending
             q == Tail(tx.queue)
             g == Head(tx.queue)
  <2>1. /\ tx.queue # <<>> /\ tx.buffer = None
        /\ loop' = [loop EXCEPT !.at = "send", !.frame = None]
        /\ tx' = [tx EXCEPT !.queue = q, !.sending = v, !.buffer = g]
    BY <1>0, <1>7 DEF CopyFrame, Copied, InHand
  <2>2. v \in {tx.sending, None}
    OBVIOUS
  <2> HIDE DEF v, q, g
  <2>3. tx'.queue = q /\ tx'.sending = v /\ tx'.buffer = g
    BY <1>0, <2>1 DEF Transmitter
  <2>4. Thins(tx, tx')
    BY <1>0, <2>1, <2>2, <2>3, ThinsHead DEF q, g
  <2>5. loop'.frame = None /\ loop'.at = "send"
    BY <1>0, <2>1 DEF Loop
  <2> QED
    BY <1>2, <1>3, <2>4, <2>5 DEF InPacket, Thins, Keeps
<1>8. CASE CopyCrossed
  <2>1. PICK buffer \in {loop.frame, Torn},
             sending \in IF tx.line = "log" THEN {tx.sending, None} ELSE {tx.sending},
             queue \in (IF tx.queue = <<>> THEN {} ELSE {Tail(tx.queue)})
                       \cup {[i \in 1 .. n |-> loop.frame] \o tx.queue :
                               n \in 0 .. RingSize - 1 - Len(tx.queue)} :
            tx' = [tx EXCEPT !.buffer = buffer, !.sending = sending, !.queue = queue]
    BY <1>8, Zenon DEF CopyCrossed
  <2>2. /\ tx'.buffer \in {loop.frame, Torn} /\ tx'.sending \in {tx.sending, None}
        /\ tx'.queue = queue
    BY <1>0, <2>1 DEF Transmitter
  <2>3. Torn.type # "data"
    BY DEF Torn, Response
  <2>4. host.mixed /\ loop.frame \in Frame
        /\ loop' = [loop EXCEPT !.at = "send", !.frame = None]
    BY <1>0, <1>8 DEF CopyCrossed, SendIsMixed, InSend, InHand, Loop
  <2>5. \A k \in 1 .. Len(queue) : queue[k] \in UnderWay(tx) \cup {loop.frame}
    <3>1. CASE tx.queue # <<>> /\ queue = Tail(tx.queue)
      <4>1. \A k \in 1 .. Len(queue) : queue[k] = tx.queue[k + 1] /\ k + 1 \in 1 .. Len(tx.queue)
        BY <1>0, <3>1
      <4> QED
        BY <4>1 DEF UnderWay
    <3>2. CASE \E n \in 0 .. RingSize - 1 - Len(tx.queue) :
                    queue = [i \in 1 .. n |-> loop.frame] \o tx.queue
      <4>1. PICK n \in 0 .. RingSize - 1 - Len(tx.queue) :
                    queue = [i \in 1 .. n |-> loop.frame] \o tx.queue
        BY <3>2
      <4> DEFINE again == [i \in 1 .. n |-> loop.frame]
      <4>2. n \in Nat
        OBVIOUS
      <4>3. again \in Seq(Frame) /\ Len(again) = n /\ \A i \in 1 .. n : again[i] = loop.frame
        BY <2>4, <4>2
      <4> HIDE DEF again
      <4>4. /\ Len(again \o tx.queue) = n + Len(tx.queue)
            /\ \A i \in 1 .. n + Len(tx.queue) :
                    (again \o tx.queue)[i] = IF i <= n THEN again[i] ELSE tx.queue[i - n]
        BY <1>0, <4>3, ConcatProperties
      <4>5. queue = again \o tx.queue
        BY <4>1 DEF again
      <4> HIDE DEF again
      <4> SUFFICES ASSUME NEW k \in 1 .. Len(queue)
                   PROVE  queue[k] \in UnderWay(tx) \cup {loop.frame}
        OBVIOUS
      <4>6. CASE k <= n
        BY <4>2, <4>3, <4>4, <4>5, <4>6
      <4>7. CASE ~(k <= n)
        <5>1. k - n \in 1 .. Len(tx.queue) /\ queue[k] = tx.queue[k - n]
          BY <1>0, <4>2, <4>4, <4>5, <4>7
        <5> QED
          BY <5>1 DEF UnderWay
      <4> QED
        BY <4>6, <4>7
    <3> QED
      BY <3>1, <3>2
  <2>6. loop'.frame = None /\ loop'.at = "send"
    BY <1>0, <2>4 DEF Loop
  <2>7. \A g \in UnderWay(tx') : g \in UnderWay(tx) \cup {loop.frame} \/ g.type # "data"
    <3> SUFFICES ASSUME NEW g \in UnderWay(tx')
                 PROVE  g \in UnderWay(tx) \cup {loop.frame} \/ g.type # "data"
      OBVIOUS
    <3>1. CASE g \in {tx'.sending, tx'.buffer}
      BY <1>3, <2>2, <2>3, <3>1 DEF UnderWay
    <3>2. CASE \E k \in 1 .. Len(queue) : g = queue[k]
      BY <2>5, <3>2
    <3> QED
      BY <2>2, <3>1, <3>2 DEF UnderWay
  <2> QED
    BY <1>2, <1>3, <2>4, <2>6, <2>7 DEF InPacket
<1>9. CASE SendBuffer
  <2>1. CASE tx.line = "idle"
    <3>1. /\ tx' = [tx EXCEPT !.buffer = None, !.line = "log", !.sending = tx.buffer]
          /\ loop' = [loop EXCEPT !.at = "mark"]
      BY <1>9, <2>1 DEF SendBuffer
    <3>2. tx'.queue = tx.queue /\ tx'.sending = tx.buffer /\ tx'.buffer = None
      BY <1>0, <3>1 DEF Transmitter
    <3>3. loop'.frame = loop.frame /\ loop'.at = "mark"
      BY <1>0, <3>1 DEF Loop
    <3>4. \A g \in UnderWay(tx') : g \in UnderWay(tx) \/ g.type # "data"
      BY <1>3, <3>2 DEF UnderWay
    <3>5. ASSUME NEW h \in Host, Course(h, tx)
          PROVE  Course(h, tx')
      <4>1. \A i \in 1 .. Len(h.heard) : \A g \in UnderWay(tx') : Earlier(h.stream, h.heard[i], g)
        BY <3>4, <3>5, NotMine DEF Course
      <4> QED
        BY <1>3, <3>2, <3>5, <4>1, NotMine DEF Course
    <3> QED
      BY <1>2, <3>3, <3>4, <3>5 DEF InPacket, Thins, Keeps
  <2>2. CASE tx.line # "idle"
    <3>1. tx' = [tx EXCEPT !.buffer = None] /\ loop' = Left(loop.next)
      BY <1>9, <2>2 DEF SendBuffer
    <3>2. tx'.queue = tx.queue /\ tx'.sending = tx.sending /\ tx'.buffer = None
      BY <1>0, <3>1 DEF Transmitter
    <3>3. Thins(tx, tx')
      BY <1>0, <3>2, ThinsSending
    <3> QED
      BY <1>2, <1>3, <1>4, <3>1, <3>3 DEF InPacket, Thins, Keeps
  <2> QED
    BY <2>1, <2>2
<1>10. CASE MarkBusy
  <2>1. tx' = [tx EXCEPT !.log_busy = TRUE] /\ loop' = Left(loop.next)
    BY <1>10 DEF MarkBusy
  <2>2. tx'.queue = tx.queue /\ tx'.sending = tx.sending /\ tx'.buffer = tx.buffer
    BY <1>0, <2>1 DEF Transmitter
  <2>3. Thins(tx, tx')
    BY <1>0, <2>2, ThinsSending
  <2> QED
    BY <1>2, <1>3, <1>4, <2>1, <2>3 DEF InPacket, Thins, Keeps
<1> QED
  BY <1>5, <1>6, <1>7, <1>8, <1>9, <1>10 DEF TryTxSteps

LEMMA CourseLoop ==
    ASSUME TypeOK, TypeOK', GathersInPacket, Issued, InCourse,
           NextPacket \/ ReadRecord \/ ReadRecordFails \/ StoreRecord
    PROVE  Issued' /\ InCourse'
<1>0. /\ session \in Session /\ tx \in Transmitter /\ Len(tx.queue) < RingSize
      /\ panel.next_stream \in Nat /\ host \in Host /\ loop \in Loop
  BY TypeParts DEF Panel
<1>1. ASSUME tx' = tx, loop'.frame = loop.frame
      PROVE  /\ Thins(tx, tx')
             /\ \A g \in UnderWay(tx') \cup {loop'.frame} :
                    g \in UnderWay(tx) \cup {loop.frame} \/ g.type # "data"
  BY <1>1, ThinsItself
<1>2. CASE NextPacket
  <2> DEFINE b == BeginPacket(session)
  <2>1. /\ session' = b /\ host' = host /\ panel' = panel /\ tx' = tx /\ ~InPacket /\ session.active
        /\ loop' = [loop EXCEPT !.budget = @ - 1, !.at = IF b.active THEN "read" ELSE "pump",
                                !.tier_end = b.end_logical[b.cur_tier]]
    BY <1>2 DEF NextPacket, InPacket
  <2>2. /\ b \in Session /\ b.stream = session.stream
        /\ b.active => b.next_logical < b.end_logical[b.cur_tier]
    BY <1>0, <2>1, BeginPacketOK, BeginPacketKeeps
  <2>3. Behind(host.stream, Emitted(host, tx), session, <<>>) =>
            Behind(host.stream, Emitted(host, tx), b, <<>>)
    BY <1>0, BehindBegin
  <2> HIDE DEF b
  <2>4. /\ loop'.at = (IF b.active THEN "read" ELSE "pump") /\ loop'.entries = loop.entries
        /\ loop'.tier_end = b.end_logical[b.cur_tier] /\ loop.entries = <<>>
        /\ loop'.frame = loop.frame
    BY <1>0, <2>1 DEF Loop, GathersInPacket
  <2>5. InTier'
    BY <2>1, <2>2, <2>4 DEF InTier, InPacket
  <2> QED
    BY <1>0, <1>1, <2>1, <2>2, <2>3, <2>4, <2>5, CourseThins
<1>3. CASE ReadRecord
  <2>1. /\ session' = session /\ host' = host /\ panel' = panel /\ tx' = tx /\ loop.at = "read"
        /\ \E r : loop' = [loop EXCEPT !.at = "store", !.record = r]
    BY <1>3 DEF ReadRecord
  <2>2. loop'.entries = loop.entries /\ loop'.tier_end = loop.tier_end /\ loop'.frame = loop.frame
    BY <1>0, <2>1 DEF Loop
  <2>3. InTier => InTier'
    BY <2>1, <2>2 DEF InTier, InPacket
  <2> QED
    BY <1>0, <1>1, <2>1, <2>2, <2>3, CourseThins
<1>4. CASE ReadRecordFails
  <2>1. /\ FinishPacket(session, TRUE, loop.entries) /\ panel' = panel
        /\ host' = [host EXCEPT !.failed = TRUE] /\ InPacket
    BY <1>4 DEF ReadRecordFails, InPacket
  <2>2. host'.stream = host.stream /\ host'.heard = host.heard /\ host'.mixed = host.mixed
    BY <1>0, <2>1 DEF Host
  <2>3. loop.entries \in Seq(Record)
    BY StoredOK
  <2> QED
    BY <1>0, <2>1, <2>2, <2>3, CourseFinish
<1>5. CASE StoreRecord
  <2> DEFINE E == Append(loop.entries, StoredEntry)
  <2>1. /\ panel' = panel /\ host' = host /\ loop.at = "store" /\ InPacket
        /\ IF Len(E) < PerPacket /\ Stored.next_logical < loop.tier_end
           THEN /\ session' = Stored
                /\ loop' = [loop EXCEPT !.at = "read", !.entries = E]
                /\ tx' = tx
           ELSE FinishPacket(Stored, FALSE, E)
    BY <1>5 DEF StoreRecord, Stored, StoredEntry, InPacket
  <2>2. /\ Stored \in Session /\ Stored.stream = session.stream /\ E \in Seq(Record)
        /\ Stored.next_logical = session.next_logical + 1 /\ Stored.cur_tier = session.cur_tier
        /\ Stored.end_logical = session.end_logical /\ Stored.pkt_num = session.pkt_num
        /\ StoredEntry \in Record /\ loop.entries \in Seq(Record)
    BY StoredOK
  <2>3. StoredEntry.label = session.next_logical
    BY DEF StoredEntry
  <2>4. Behind(host.stream, Emitted(host, tx), session, loop.entries) =>
            Behind(host.stream, Emitted(host, tx), Stored, E)
    BY <1>0, <2>2, <2>3, BehindStored
  <2> HIDE DEF E
  <2>5. CASE Len(E) < PerPacket /\ Stored.next_logical < loop.tier_end
    <3>1. /\ session' = Stored /\ tx' = tx /\ loop'.entries = E /\ loop'.tier_end = loop.tier_end
          /\ loop'.at = "read" /\ loop'.frame = loop.frame
      BY <1>0, <2>1, <2>5 DEF Loop
    <3>2. InTier => InTier'
      BY <2>1, <2>2, <2>5, <3>1 DEF InTier, InPacket
    <3> QED
      BY <1>0, <1>1, <2>1, <2>2, <2>4, <3>1, <3>2, CourseThins
  <2>6. CASE ~(Len(E) < PerPacket /\ Stored.next_logical < loop.tier_end)
    BY <2>1, <2>2, <2>4, <2>6, CourseFinish
  <2> QED
    BY <2>5, <2>6
<1> QED
  BY <1>2, <1>3, <1>4, <1>5

\* A frame reaches the host.
LEMMA CourseHeard ==
    ASSUME TypeOK, TypeOK', Issued, InCourse, TxComplete
    PROVE  Issued' /\ InCourse'
<1>0. /\ tx \in Transmitter /\ Len(tx.queue) < RingSize /\ host \in Host /\ host' \in Host
      /\ host.heard \in Seq(Frame)
  BY TypeParts DEF TypeOK, Host
<1> DEFINE x == [tx EXCEPT !.line = "idle", !.sending = None]
<1>1. /\ tx' = TxDone(x) /\ host' = Received(host, tx.sending)
      /\ UNCHANGED <<session, loop, panel>>
  BY DEF TxComplete
<1>2. /\ x \in Transmitter /\ x.queue = tx.queue /\ x.sending = None /\ x.buffer = tx.buffer
      /\ x.log_busy = tx.log_busy
  BY <1>0 DEF Transmitter
<1> HIDE DEF x
<1>3. Thins(x, tx') /\ Thins(tx, x)
  <2>1. x.buffer = None \/ ~x.log_busy
    BY <1>2, NothingInHand DEF TxComplete
  <2> QED
    BY <1>0, <1>1, <1>2, <2>1, TxDoneThins, ThinsSending
<1>4. Thins(tx, tx')
  BY <1>3, ThinsThins
<1>5. host'.stream = host.stream /\ host'.mixed = host.mixed
  BY <1>0, <1>1 DEF Received, Host
<1>6. \A i \in 1 .. Len(host'.heard) :
            /\ host'.heard[i] \in {host.heard[k] : k \in 1 .. Len(host.heard)} \cup {tx.sending}
            /\ host'.heard[i].stream = host'.stream
  <2>1. CASE host' = host
    BY <2>1 DEF Issued
  <2>2. CASE host' # host
    <3>1. /\ host' = [host EXCEPT !.heard = Append(host.heard, tx.sending)]
          /\ tx.sending.stream = host.stream /\ tx.sending \in Frame
      BY <1>0, <1>1, <2>2, QueueOK DEF Received
    <3>2. host'.heard = Append(host.heard, tx.sending)
      BY <1>0, <3>1 DEF Host
    <3>3. \A i \in 1 .. Len(host'.heard) :
                host'.heard[i] = tx.sending \/ (i \in 1 .. Len(host.heard) /\ host'.heard[i] = host.heard[i])
      BY <1>0, <3>1, <3>2, AppendProperties
    <3> QED
      BY <1>5, <3>1, <3>3 DEF Issued
  <2> QED
    BY <2>1, <2>2
<1>7. Issued'
  BY <1>1, <1>4, <1>5, <1>6 DEF Issued, Thins, Keeps
<1>8. ASSUME ~host'.mixed, host'.stream # 0
      PROVE  /\ Course(host', tx')
             /\ session'.stream = host'.stream =>
                   Behind(host'.stream, Emitted(host', tx'), session', loop'.entries) /\ InTier'
  <2>1. /\ Course(host, tx)
        /\ session.stream = host.stream =>
              Behind(host.stream, Emitted(host, tx), session, loop.entries) /\ InTier
    BY <1>5, <1>8 DEF InCourse
  <2>2. Course(host', x)
    BY <1>0, <1>1, <1>2, <2>1, ReceivedCourse
  <2>3. Course(host', tx')
    BY <1>0, <1>3, <2>2 DEF Thins
  <2>4. \A g \in Emitted(host', tx') : g \in Emitted(host, tx) \/ g.type # "data"
    <3>1. \A g \in UnderWay(tx') : g \in UnderWay(tx) \/ g.type # "data"
      BY <1>4 DEF Thins, Keeps
    <3>2. tx.sending \in UnderWay(tx)
      BY DEF UnderWay
    <3> QED
      BY <1>6, <3>1, <3>2 DEF Emitted
  <2>5. InTier => InTier'
    BY <1>1 DEF InTier, InPacket
  <2> QED
    BY <1>1, <1>5, <2>1, <2>3, <2>4, <2>5, BehindLess
<1>9. InCourse'
  BY <1>8 DEF InCourse
<1> QED
  BY <1>7, <1>9

\* Nothing else touches the session or the main loop's packet.
LEMMA CourseElse ==
    ASSUME TypeOK, TypeOK', Issued, InCourse,
           \/ RequestStop \/ RequestOther \/ LineError \/ (\E t \in Tier : PostEvent(t))
           \/ CanMirror \/ BridgeTx \/ EspOff \/ EspOn \/ UNCHANGED vars
    PROVE  Issued' /\ InCourse'
<1>0. /\ tx \in Transmitter /\ Len(tx.queue) < RingSize /\ host \in Host /\ panel \in Panel
      /\ panel.next_stream \in Nat /\ tx' \in Transmitter /\ loop \in Loop
  BY TypeParts DEF TypeOK, Panel, Transmitter, Record
<1>7. (CrossLoop \/ loop' = loop) /\ (session' = session \/ session'.stream = 0)
  BY DEF RequestStop, RequestOther, LineError, PostEvent, CanMirror, BridgeTx, EspOff, EspOn, vars,
         NoSession
<1>1. /\ loop'.entries = loop.entries /\ loop'.tier_end = loop.tier_end
      /\ loop'.frame = loop.frame /\ (InPacket' <=> InPacket)
  BY <1>0, <1>7, LoopCrossed
<1>2. /\ host'.stream = host.stream /\ host'.heard = host.heard /\ (~host'.mixed => ~host.mixed)
      /\ RequestStop \/ RequestOther \/ LineError => (~host'.mixed => ~InSend)
  <2>1. /\ host' = host \/ host' = Disturbed(host)
        /\ RequestStop \/ RequestOther \/ LineError => host' = Disturbed(host)
    BY DEF RequestStop, RequestOther, LineError, PostEvent, CanMirror, BridgeTx, EspOff, EspOn, vars
  <2> QED
    BY <1>0, <2>1, DisturbedOK
<1>3. panel'.next_stream >= panel.next_stream
  <2>1. \/ panel' = panel \/ panel' = [panel EXCEPT !.esp = FALSE, !.linked = FALSE]
        \/ panel' = [panel EXCEPT !.esp = TRUE]
    BY DEF RequestStop, RequestOther, LineError, PostEvent, CanMirror, BridgeTx, EspOff, EspOn, vars
  <2>2. panel'.next_stream = panel.next_stream
    BY <1>0, <2>1 DEF Panel
  <2> QED
    BY <1>0, <2>2
<1>4. Keeps(tx, tx') /\ (~host'.mixed => Thins(tx, tx'))
  <2>1. CASE RequestStop \/ RequestOther
    <3>1. Response("OK", 0, 0) \in Frame /\ Response("OK", 0, 0).type # "data"
      BY ResponseOK DEF Response
    <3>2. tx' = TryTx(SendFrame(tx, Response("OK", 0, 0)))
      BY <2>1 DEF RequestStop, RequestOther
    <3> QED
      BY <1>0, <1>2, <2>1, <3>1, <3>2, NothingInHand, AnswerThins
  <2>2. CASE LineError
    <3>1. tx' = TxDone(tx)
      BY <2>2 DEF LineError
    <3> QED
      BY <1>0, <1>2, <2>2, <3>1, NothingInHand, TxDoneThins
  <2>3. CASE CanMirror \/ BridgeTx \/ EspOff
    <3>1. \/ tx' = [tx EXCEPT !.bridge = 1]
          \/ tx' = [tx EXCEPT !.bridge = 0, !.bridge_busy = TRUE, !.line = "bridge"]
          \/ tx' = [tx EXCEPT !.line = "idle", !.sending = None, !.bridge = 0, !.bridge_busy = FALSE]
      BY <2>3 DEF CanMirror, BridgeTx, EspOff
    <3>2. tx'.queue = tx.queue /\ tx'.sending \in {tx.sending, None} /\ tx'.buffer = tx.buffer
      BY <1>0, <3>1 DEF Transmitter
    <3> QED
      BY <1>0, <3>2, ThinsSending DEF Thins
  <2>4. CASE (\E t \in Tier : PostEvent(t)) \/ EspOn \/ UNCHANGED vars
    <3>1. tx' = tx
      BY <2>4 DEF PostEvent, EspOn, vars
    <3> QED
      BY <3>1, ThinsItself DEF Thins
  <2> QED
    BY <2>1, <2>2, <2>3, <2>4
<1>8. \A g \in UnderWay(tx') \cup {loop'.frame} :
          g \in UnderWay(tx) \cup {loop.frame} \/ g.type # "data"
  BY <1>1, <1>4 DEF Keeps
<1>5. CASE session' = session
  <2>1. InTier => InTier'
    BY <1>1, <1>5 DEF InTier
  <2> QED
    BY <1>1, <1>2, <1>3, <1>4, <1>5, <1>8, <2>1, CourseThins
<1>6. CASE session'.stream = 0
  BY <1>1, <1>2, <1>3, <1>4, <1>6, <1>8, CourseThins
<1> QED
  BY <1>5, <1>6, <1>7

LEMMA SendIsMixedNext ==
    ASSUME TypeOK, SendIsMixed, [Next]_vars
    PROVE  SendIsMixed'
<1>0. host \in Host /\ loop \in Loop /\ loop.next \in {"idle", "pump"}
  BY TypeParts DEF Loop
<1>1. ASSUME CrossLoop \/ loop' = loop, host'.mixed \/ ~InSend
      PROVE  SendIsMixed'
  BY <1>0, <1>1, LoopCrossed DEF SendIsMixed
<1>2. ASSUME NEW mode \in Tier \cup {"both"}, NEW start \in Starts, RequestStart(mode, start)
      PROVE  SendIsMixed'
  <2> DEFINE a == StartDump(session, mode, start)
             quiet == ~Outstanding
             mixed == InPacket \/ InSend
  <2>1. /\ CrossLoop
        /\ \/ host' = Disturbed(host)
           \/ host' = [stream |-> a.rsp.stream, heard |-> <<>>, failed |-> FALSE,
                        quiet |-> quiet, mixed |-> mixed]
    BY <1>2 DEF RequestStart
  <2>2. InSend => mixed
    OBVIOUS
  <2> HIDE DEF a, quiet, mixed
  <2>3. host'.mixed \/ ~InSend
    <3>1. CASE host' = Disturbed(host)
      BY <1>0, <3>1, DisturbedOK
    <3>2. CASE host' = [stream |-> a.rsp.stream, heard |-> <<>>, failed |-> FALSE,
                        quiet |-> quiet, mixed |-> mixed]
      BY <2>2, <3>2
    <3> QED
      BY <2>1, <3>1, <3>2
  <2> QED
    BY <1>1, <2>1, <2>3
<1>3. CASE RequestStop \/ RequestOther \/ LineError
  <2>1. (CrossLoop \/ loop' = loop) /\ host' = Disturbed(host)
    BY <1>3 DEF RequestStop, RequestOther, LineError
  <2> QED
    BY <1>0, <1>1, <2>1, DisturbedOK
<1>4. ASSUME NEW failing \in {NoFailure} \cup Wanted(session), Pump(failing)
      PROVE  SendIsMixed'
  <2> DEFINE p == IF session.active THEN WholePacket(session, failing)
                  ELSE [session |-> session, frames |-> <<>>]
             x == host.failed \/ failing # NoFailure
             y == host.mixed \/ (InPacket /\ p.frames # <<>>)
  <2>1. CrossLoop /\ irq > 0 /\ host' = [host EXCEPT !.failed = x, !.mixed = y]
    BY <1>4 DEF Pump
  <2>2. host.mixed => y
    OBVIOUS
  <2> HIDE DEF p, x, y
  <2>3. host.mixed => host'.mixed
    BY <1>0, <2>1, <2>2 DEF Host
  <2> QED
    BY <1>1, <2>1, <2>3 DEF SendIsMixed
<1>5. CASE LogTransport_Process \/ PumpEnds
  <2>1. irq' = irq /\ irq = 0 /\ \E next \in {"idle", "pump"} : TestUart(next)
    BY <1>5 DEF LogTransport_Process, PumpEnds
  <2>2. loop'.at # "crossed"
    BY <2>1, TestUartOK
  <2> QED
    BY <2>1, <2>2 DEF SendIsMixed
<1>6. CASE TryTxSteps
  <2>1. irq' = 0
    BY <1>6, TryTxStepsKeep
  <2>2. loop'.at # "crossed"
    <3>1. Left(loop.next).at # "crossed"
      BY <1>0, LeftOK
    <3>2. \/ loop' = Left(loop.next)
          \/ loop' = [loop EXCEPT !.at = "copy", !.frame = Head(tx.queue)]
          \/ loop' = [loop EXCEPT !.at = "send", !.frame = None]
          \/ loop' = [loop EXCEPT !.at = "mark"]
      BY <1>6 DEF TryTxSteps, LookAtRing, CopyFrame, CopyCrossed, SendBuffer, MarkBusy
    <3> QED
      BY <1>0, <3>1, <3>2 DEF Loop
  <2> QED
    BY <2>1, <2>2 DEF SendIsMixed
<1>7. ASSUME NEW s, NEW error, NEW entries, FinishPacket(s, error, entries)
      PROVE  SendIsMixed'
  <2>1. loop' = [loop EXCEPT !.at = "pump", !.entries = <<>>, !.record = 0]
    BY <1>7 DEF FinishPacket
  <2>2. loop'.at = "pump"
    BY <1>0, <2>1 DEF Loop
  <2> QED
    BY <2>2 DEF SendIsMixed, InSend
<1>8. CASE ReadRecordFails
  BY <1>7, <1>8 DEF ReadRecordFails
<1>9. CASE NextPacket \/ ReadRecord \/ (StoreRecord /\ tx' = tx /\ loop'.at = "read")
  <2>1. CASE NextPacket
    <3> DEFINE at == IF BeginPacket(session).active THEN "read" ELSE "pump"
    <3>1. \E b, e : loop' = [loop EXCEPT !.budget = b, !.at = at, !.tier_end = e]
      BY <2>1 DEF NextPacket
    <3>2. loop'.at \in {"read", "pump"}
      BY <1>0, <3>1 DEF Loop
    <3> QED
      BY <3>2 DEF SendIsMixed, InSend
  <2>2. CASE ReadRecord
    <3>1. \E r : loop' = [loop EXCEPT !.at = "store", !.record = r]
      BY <2>2 DEF ReadRecord
    <3>2. loop'.at = "store"
      BY <1>0, <3>1 DEF Loop
    <3> QED
      BY <3>2 DEF SendIsMixed, InSend
  <2> QED
    BY <1>9, <2>1, <2>2 DEF SendIsMixed, InSend
<1>10. CASE StoreRecord
  <2>1. CASE \E entries : loop' = [loop EXCEPT !.at = "read", !.entries = entries]
    <3>1. loop'.at = "read"
      BY <1>0, <2>1 DEF Loop
    <3> QED
      BY <3>1 DEF SendIsMixed, InSend
  <2>2. CASE \E s, error, entries : FinishPacket(s, error, entries)
    BY <1>7, <2>2
  <2> QED
    BY <1>10, <2>1, <2>2 DEF StoreRecord
<1>11. CASE TxComplete
  <2>1. loop' = loop /\ irq' = irq /\ host'.mixed = host.mixed
    BY <1>0, <1>11 DEF TxComplete, Received, Host
  <2> QED
    BY <2>1 DEF SendIsMixed, InSend
<1>12. CASE (\E t \in Tier : PostEvent(t)) \/ CanMirror \/ BridgeTx \/ EspOff \/ EspOn
  <2>1. loop' = loop /\ loop.at = "idle"
    BY <1>12 DEF PostEvent, CanMirror, BridgeTx, EspOff, EspOn
  <2> QED
    BY <2>1 DEF SendIsMixed, InSend
<1>13. CASE UNCHANGED vars
  BY <1>13 DEF vars, SendIsMixed, InSend
<1> QED
  BY <1>2, <1>3, <1>4, <1>5, <1>6, <1>8, <1>9, <1>10, <1>11, <1>12, <1>13
  DEF Next, Interrupt, MainLoop

LEMMA CourseInit == Init => Issued /\ InCourse /\ SendIsMixed
BY DEF Init, Issued, InCourse, NoSession, UnderWay, None, Resting, SendIsMixed, InSend

LEMMA CourseNext ==
    ASSUME TypeOK, TypeOK', GathersInPacket, Wired, Issued, InCourse, SendIsMixed, [Next]_vars
    PROVE  Issued' /\ InCourse'
<1>1. CASE \E mode \in Tier \cup {"both"}, start \in Starts : RequestStart(mode, start)
  BY <1>1, CourseStart
<1>2. CASE \E failing \in {NoFailure} \cup Wanted(session) : Pump(failing)
  BY <1>2, CoursePump
<1>3. CASE NextPacket \/ ReadRecord \/ ReadRecordFails \/ StoreRecord
  BY <1>3, CourseLoop
<1>6. CASE LogTransport_Process \/ PumpEnds \/ TryTxSteps
  BY <1>6, GathersNext, CourseSend
<1>4. CASE TxComplete
  BY <1>4, CourseHeard
<1>5. CASE \/ RequestStop \/ RequestOther \/ LineError \/ (\E t \in Tier : PostEvent(t))
           \/ CanMirror \/ BridgeTx \/ EspOff \/ EspOn \/ UNCHANGED vars
  BY <1>5, CourseElse
<1> QED
  BY <1>1, <1>2, <1>3, <1>4, <1>5, <1>6 DEF Next, Interrupt, MainLoop

\* Requests in the middle of a dump, errors of the line and the ESP switched
\* off may cost frames, but those that reach the host carry rising packet
\* numbers, and rising indices within a tier, in every stream whose packets the
\* interrupt and the main loop did not build at the same time, unless a request
\* came while the main loop handed a frame to the UART (log_stream.c,
\* log_transport.c).
THEOREM NeverRunsBackAlways == Spec => []NeverRunsBack
<1> DEFINE Inv == TypeOK /\ Wired /\ GathersInPacket /\ Issued /\ InCourse /\ SendIsMixed
<1>1. Init => Inv
  BY TypeInit, WiredInit, CourseInit DEF Init, Resting, GathersInPacket
<1>2. Inv /\ [Next]_vars => Inv'
  BY TypeNext, WiredNext, GathersNext, CourseNext, SendIsMixedNext
<1>3. Inv => NeverRunsBack
  <2> SUFFICES ASSUME Inv, ~host.mixed, NEW i \in DOMAIN host.heard, NEW j \in DOMAIN host.heard,
                      i < j, host.heard[i].type = "data", host.heard[j].type = "data"
               PROVE  Before(host.heard[i], host.heard[j])
    BY DEF NeverRunsBack, Before
  <2>1. i \in 1 .. Len(host.heard) /\ j \in 1 .. Len(host.heard) /\ host.heard # <<>>
    <3>1. host.heard \in Seq(Frame)
      BY TypeParts DEF Host
    <3> QED
      BY <3>1
  <2>2. host.stream # 0
    BY <2>1 DEF Wired
  <2>3. Earlier(host.stream, host.heard[i], host.heard[j])
    BY <2>1, <2>2 DEF InCourse, Course
  <2>4. host.heard[i].stream = host.stream /\ host.heard[j].stream = host.stream
    BY <2>1 DEF Issued
  <2> QED
    BY <2>3, <2>4 DEF Earlier, Mine
<1> QED
  BY <1>1, <1>2, <1>3, PTL DEF Spec
=============================================================================
