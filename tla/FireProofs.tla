---------------------------- MODULE FireProofs ----------------------------
(***************************************************************************)
(* What TLAPS proves of Fire for every value of the constants.             *)
(*                                                                         *)
(* The handlers are chains of operators on the record fire, so the proof   *)
(* follows the chains: one lemma for every operator says that it keeps     *)
(* Good, the record part of the invariant, and what it does to the table   *)
(* of places; one lemma for every action puts them together.  Good is      *)
(* inductive for the operators; that the state is IDLE exactly when the    *)
(* table is empty is not, it is restored by the SyncStateFromSlots at the  *)
(* end of the handlers that change the table.                              *)
(*                                                                         *)
(* The second half follows the STARTs along the same chains.  Sound adds   *)
(* to Good what the retries and the retry pool may be, and Calm, Led and   *)
(* Bound relate the record before a handler to the record inside it.       *)
(***************************************************************************)
EXTENDS Fire, TLAPS, FiniteSetTheorems, WellFoundedInduction

Good(g) == g \in FireRecord /\ Consistent(g) /\ Distinct(g)

\* h is good and has the table of g.
OnSlots(g, h) == Good(h) /\ h.table = g.table

\* h is good and differs from g neither in the table, nor in a slot, nor in
\* the state of the FSM.
Aside(g, h) == OnSlots(g, h) /\ h.slot = g.slot /\ h.state = g.state

USE DEF NoZone, AnyKey
-----------------------------------------------------------------------------
(* The places of the table. *)

LessThan == OpToRel(<, Nat)

LEMMA InLessThan ==
  ASSUME NEW a \in Nat, NEW b \in Nat, a < b
  PROVE  <<a, b>> \in LessThan
BY Zenon DEF LessThan, OpToRel

LEMMA FirstOK ==
  ASSUME NEW S \in SUBSET Nat, S # {}
  PROVE  First(S) \in S
<1>1. PICK x \in S : \A y \in S : ~ (<<y, x>> \in LessThan)
  BY WFMin, NatLessThanWellFounded, Zenon DEF LessThan
<1>2. \A y \in S : ~ (y < x)
  BY <1>1, InLessThan
<1>3. \A y \in S : x <= y
  BY <1>2
<1> QED BY <1>3 DEF First

LEMMA EmptyOK ==
  /\ Good(EmptyFire)
  /\ \A z \in Zones : ~Active(EmptyFire, z)
<1>1. EmptyFire \in FireRecord
  BY DEF EmptyFire, FireRecord, ZeroSlot, Slot, State
<1>2. \A z \in Zones : ~Active(EmptyFire, z) /\ EmptyFire.slot[z] = ZeroSlot
  BY ZonesAssumption DEF EmptyFire, Active
<1>3. SlotConsistent(ZeroSlot)
  BY DEF SlotConsistent, ZeroSlot
<1>4. Distinct(EmptyFire)
  BY DEF EmptyFire, Distinct
<1> QED BY <1>1, <1>2, <1>3, <1>4 DEF Good, Consistent

\* The step from one operator to the next: the table is kept, and a slot that
\* changes belongs to an active zone and is consistent.
LEMMA KeptOK ==
  ASSUME NEW g, Good(g), NEW h, h \in FireRecord, h.table = g.table,
         \A z \in Zones : \/ h.slot[z] = g.slot[z]
                          \/ Active(g, z) /\ SlotConsistent(h.slot[z])
  PROVE  Good(h)
BY DEF Good, Consistent, Distinct, Active

LEMMA SlotOK ==
  ASSUME NEW g, Good(g), NEW z \in Zones
  PROVE  g.slot[z] \in Slot /\ SlotConsistent(g.slot[z])
BY DEF Good, FireRecord, Consistent

\* Writing slots of active zones.
LEMMA WriteOK ==
  ASSUME NEW g, Good(g), NEW s \in [Zones -> Slot],
         \A z \in Zones : \/ s[z] = g.slot[z]
                          \/ Active(g, z) /\ SlotConsistent(s[z])
  PROVE  /\ Good([g EXCEPT !.slot = s])
         /\ [g EXCEPT !.slot = s].table = g.table
<1> DEFINE h == [g EXCEPT !.slot = s]
<1>1. h \in FireRecord /\ h.table = g.table /\ h.slot = s
  BY DEF Good, FireRecord
<1> HIDE DEF h
<1>2. Good(h)
  BY <1>1, KeptOK
<1> QED BY <1>1, <1>2 DEF h

\* Two free places have different ranks, so EnsureSlots gives them to
\* different zones.
LEMMA RanksDiffer ==
  ASSUME NEW S \in SUBSET Nat, IsFiniteSet(S), NEW i \in S, NEW j \in S, i < j
  PROVE  Rank(S, i) # Rank(S, j)
<1> DEFINE T == {y \in S : y < i}
           U == {y \in S : y < j}
<1>1. S \subseteq Int
  OBVIOUS
<1>2. IsFiniteSet(U)
  BY <1>1, FS_Subset
<1>3. T \subseteq U /\ i \in U /\ i \notin T
  <2>1. i \in Int /\ j \in Int /\ \A y \in S : y \in Int
    BY <1>1
  <2>2. \A y \in S : y < i => y < j
    BY <2>1
  <2>3. i \in U
    OBVIOUS
  <2>4. i \notin T
    BY <2>1
  <2>5. T \subseteq U
    BY <2>2
  <2> QED BY <2>3, <2>4, <2>5
<1>4. Cardinality(T) # Cardinality(U)
  BY <1>2, <1>3, FS_Subset
<1> QED BY <1>4 DEF Rank

LEMMA EnsureSlotsOK ==
  ASSUME NEW g, Good(g), NEW Z \in SUBSET Zones
  PROVE  /\ Good(EnsureSlots(g, Z))
         /\ \A z \in Zones : Active(g, z) => Active(EnsureSlots(g, Z), z)
         /\ EnsureSlots(g, Z).slot = g.slot
<1> DEFINE h == EnsureSlots(g, Z)
           new == {z \in Z : ~Active(g, z)}
           free == FreePlaces(g)
           At(i) == {z \in new : Rank(new, z) = Rank(free, i)}
           Zone(i) == IF i \in free /\ At(i) # {}
                      THEN CHOOSE z \in At(i) : TRUE ELSE g.table[i]
<1>1. h = [g EXCEPT !.table = [i \in Places |-> Zone(i)]]
  BY DEF EnsureSlots
<1>2. \A i \in Places : Zone(i) \in Zones \cup {NoZone}
  <2> TAKE i \in Places
  <2>1. At(i) \subseteq Zones
    OBVIOUS
  <2>2. g.table[i] \in Zones \cup {NoZone}
    BY DEF Good, FireRecord
  <2>3. At(i) # {} => (CHOOSE z \in At(i) : TRUE) \in At(i)
    OBVIOUS
  <2> HIDE DEF At
  <2> QED BY <2>1, <2>2, <2>3
<1>3. \A i \in Places : g.table[i] # NoZone => Zone(i) = g.table[i]
  BY DEF FreePlaces
<1>9. free \in SUBSET Nat /\ IsFiniteSet(free)
  <2>1. 1 \in Int /\ MaxSlots \in Int
    BY BoundsAssumption
  <2>2. IsFiniteSet(Places) /\ Places \subseteq Nat /\ free \in SUBSET Places
    BY <2>1, FS_Interval DEF Places, FreePlaces
  <2> QED BY <2>2, FS_Subset
<1>7. ASSUME NEW i \in Places, NEW j \in Places, i < j, Zone(i) = Zone(j), Zone(i) # NoZone
      PROVE  FALSE
  <2>1. CASE i \in free /\ At(i) # {}
    <3>1. Zone(i) \in At(i)
      BY <2>1
    <3>2. Zone(i) \in Z /\ ~Active(g, Zone(i)) /\ Rank(new, Zone(i)) = Rank(free, i)
      BY <3>1
    <3>3. g.table[j] # Zone(i)
      BY <3>2 DEF Active
    <3>4. j \in free /\ At(j) # {}
      BY <1>7, <3>3
    <3>5. Zone(j) \in At(j)
      BY <3>4
    <3>6. Rank(new, Zone(j)) = Rank(free, j)
      BY <3>5
    <3> QED BY <1>7, <1>9, <2>1, <3>2, <3>4, <3>6, RanksDiffer
  <2>2. CASE ~(i \in free /\ At(i) # {})
    <3>1. Zone(i) = g.table[i]
      BY <2>2
    <3>2. CASE j \in free /\ At(j) # {}
      <4>1. Zone(j) \in At(j)
        BY <3>2
      <4>2. ~Active(g, Zone(j))
        BY <4>1
      <4> QED BY <1>7, <3>1, <4>2 DEF Active
    <3>3. CASE ~(j \in free /\ At(j) # {})
      <4>1. Zone(j) = g.table[j]
        BY <3>3
      <4> QED BY <1>7, <3>1, <4>1, BoundsAssumption DEF Good, Distinct, Places
    <3> QED BY <3>2, <3>3
  <2> QED BY <2>1, <2>2
<1> HIDE DEF Zone
<1>4. h \in FireRecord /\ h.slot = g.slot /\ h.table = [i \in Places |-> Zone(i)]
  BY <1>1, <1>2 DEF Good, FireRecord
<1> HIDE DEF h
<1>5. \A z \in Zones : Active(g, z) => Active(h, z)
  BY <1>3, <1>4, ZonesAssumption DEF Active
<1>8. Distinct(h)
  <2> SUFFICES ASSUME NEW i \in Places, NEW j \in Places,
                      Zone(i) = Zone(j), Zone(i) # NoZone
               PROVE  i = j
    BY <1>4 DEF Distinct
  <2>1. ~(i < j) /\ ~(j < i)
    BY <1>7
  <2> QED BY <2>1, BoundsAssumption DEF Places
<1>6. Good(h)
  BY <1>4, <1>5, <1>8 DEF Good, Consistent
<1> QED BY <1>4, <1>5, <1>6 DEF h

LEMMA PutSlotOK ==
  ASSUME NEW g, Good(g), NEW z \in Zones, NEW s \in Slot, SlotConsistent(s),
         ~Active(g, z)
  PROVE  Good(PutSlot(g, z, s))
<1> DEFINE i == IF FreePlaces(g) = {} THEN 1 ELSE First(FreePlaces(g))
           lost == g.table[i]
           h == PutSlot(g, z, s)
<1>1. i \in Places
  BY FirstOK, BoundsAssumption DEF FreePlaces, Places
<1> HIDE DEF i
<1>2. ZeroSlot \in Slot /\ SlotConsistent(ZeroSlot)
  BY DEF ZeroSlot, Slot, SlotConsistent
<1>3. /\ h.table = [g.table EXCEPT ![i] = z]
      /\ \A y \in Zones : h.slot[y] = IF y = z THEN s
                                      ELSE IF y = lost THEN ZeroSlot ELSE g.slot[y]
      /\ h \in FireRecord
  BY <1>1, <1>2 DEF Good, FireRecord, PutSlot, i
<1> HIDE DEF h
<1>4. Active(h, z)
  BY <1>1, <1>3 DEF Active, Good, FireRecord
<1>5. \A y \in Zones \ {z} : ~Active(h, y) => y = lost \/ ~Active(g, y)
  BY <1>1, <1>3 DEF Active, Good, FireRecord
<1>6. Consistent(h)
  BY <1>2, <1>3, <1>4, <1>5 DEF Consistent, Good
<1>7. Distinct(h)
  BY <1>1, <1>3 DEF Distinct, Good, FireRecord, Active
<1> QED BY <1>3, <1>6, <1>7 DEF Good, h
-----------------------------------------------------------------------------
(* Commands to the igniters. *)

LEMMA AsideOK ==
  ASSUME NEW g, Good(g), NEW h, h \in FireRecord, h.table = g.table,
         h.slot = g.slot, h.state = g.state
  PROVE  Aside(g, h)
BY KeptOK DEF Aside, OnSlots

LEMMA QuietOK ==
  ASSUME NEW g, Good(g)
  PROVE  Aside(g, Quiet(g))
BY AsideOK DEF Good, FireRecord, Quiet

LEMMA QueueOK ==
  ASSUME NEW g, Good(g), NEW k \in Kind, NEW Z \in SUBSET Zones
  PROVE  Aside(g, Queue(g, k, Z))
BY AsideOK DEF Good, FireRecord, Queue

LEMMA CancelStartsOK ==
  ASSUME NEW g, Good(g)
  PROVE  Aside(g, CancelStarts(g))
BY AsideOK DEF Good, FireRecord, CancelStarts

LEMMA QueueStartOK ==
  ASSUME NEW g, Good(g), NEW Z \in SUBSET Zones
  PROVE  Aside(g, QueueStart(g, Z))
<1> DEFINE ready == {z \in Z : igniters[z] = "ready"}
           q == Queue(g, "START", ready)
           h == QueueStart(g, Z)
<1>1. "START" \in Kind /\ ready \in SUBSET Zones
  BY DEF Kind
<1>2. Aside(g, q)
  BY <1>1, QueueOK
<1>3. h = [q EXCEPT !.start_retry = @ \cup ready]
  BY DEF QueueStart
<1> HIDE DEF q, h
<1>4. /\ h \in FireRecord /\ h.table = g.table
      /\ h.slot = g.slot /\ h.state = g.state
  BY <1>2, <1>3 DEF Aside, OnSlots, Good, FireRecord
<1> QED BY <1>4, AsideOK DEF h

LEMMA Phase2SentOK ==
  ASSUME NEW s \in Slot
  PROVE  Phase2Sent(s) \in Slot /\ SlotConsistent(Phase2Sent(s))
BY BoundsAssumption DEF Phase2Sent, Slot, SlotConsistent

LEMMA MarkPhase2SentOK ==
  ASSUME NEW g, Good(g), NEW Z, \A z \in Z : Active(g, z)
  PROVE  OnSlots(g, MarkPhase2Sent(g, Z))
<1> DEFINE s == [z \in Zones |-> IF z \in Z THEN Phase2Sent(g.slot[z]) ELSE g.slot[z]]
<1>1. s \in [Zones -> Slot]
  BY SlotOK, Phase2SentOK
<1>2. \A z \in Zones : \/ s[z] = g.slot[z]
                       \/ Active(g, z) /\ SlotConsistent(s[z])
  BY SlotOK, Phase2SentOK
<1>3. MarkPhase2Sent(g, Z) = [g EXCEPT !.slot = s]
  BY DEF MarkPhase2Sent
<1> HIDE DEF s
<1> QED BY <1>1, <1>2, <1>3, WriteOK DEF OnSlots

LEMMA LaunchOK ==
  ASSUME NEW g, Good(g), NEW Z \in SUBSET Zones, \A z \in Z : Active(g, z)
  PROVE  OnSlots(g, Launch(g, Z))
<1> DEFINE go == {z \in Z : Launchable(g, z)}
           q == QueueStart(g, go)
<1>1. Aside(g, q)
  BY QueueStartOK
<1>2. \A z \in go : Active(q, z)
  BY <1>1 DEF Aside, OnSlots, Active
<1>3. Good(q) /\ q.table = g.table
  BY <1>1 DEF Aside, OnSlots
<1>4. Launch(g, Z) = MarkPhase2Sent(q, go)
  BY DEF Launch
<1> HIDE DEF q, go
<1>5. OnSlots(q, MarkPhase2Sent(q, go))
  BY <1>2, <1>3, MarkPhase2SentOK
<1> QED BY <1>3, <1>4, <1>5 DEF OnSlots

LEMMA RetriesOverOK ==
  ASSUME NEW s \in Slot, SlotConsistent(s)
  PROVE  RetriesOver(s) \in Slot /\ SlotConsistent(RetriesOver(s))
BY BoundsAssumption DEF RetriesOver, Slot, SlotConsistent

LEMMA AbortRetriesAllOK ==
  ASSUME NEW g, Good(g)
  PROVE  OnSlots(g, AbortRetriesAll(g))
<1> DEFINE s == [z \in Zones |-> IF Active(g, z) THEN RetriesOver(g.slot[z]) ELSE g.slot[z]]
<1>1. s \in [Zones -> Slot]
  BY SlotOK, RetriesOverOK
<1>2. \A z \in Zones : \/ s[z] = g.slot[z]
                       \/ Active(g, z) /\ SlotConsistent(s[z])
  BY SlotOK, RetriesOverOK
<1>3. AbortRetriesAll(g) = [g EXCEPT !.slot = s]
  BY DEF AbortRetriesAll
<1> HIDE DEF s
<1> QED BY <1>1, <1>2, <1>3, WriteOK DEF OnSlots

\* Writing the slot of one active zone.
LEMMA WriteOneOK ==
  ASSUME NEW g, Good(g), NEW z \in Zones, NEW s \in Slot,
         Active(g, z), SlotConsistent(s)
  PROVE  /\ OnSlots(g, [g EXCEPT !.slot[z] = s])
         /\ [g EXCEPT !.slot[z] = s].slot = [g.slot EXCEPT ![z] = s]
<1> DEFINE h == [g EXCEPT !.slot[z] = s]
<1>1. h \in FireRecord /\ h.table = g.table /\ h.slot = [g.slot EXCEPT ![z] = s]
  BY DEF Good, FireRecord
<1>2. \A y \in Zones : h.slot[y] = IF y = z THEN s ELSE g.slot[y]
  BY <1>1 DEF Good, FireRecord
<1> HIDE DEF h
<1>3. Good(h)
  BY <1>1, <1>2, KeptOK
<1> QED BY <1>1, <1>3 DEF h, OnSlots

LEMMA AbortRetriesForZoneOK ==
  ASSUME NEW g, Good(g), NEW z \in Zones
  PROVE  /\ OnSlots(g, AbortRetriesForZone(g, z))
         /\ Active(g, z) =>
              ~AbortRetriesForZone(g, z).slot[z].fire1_waiting
         /\ AbortRetriesForZone(g, z).slot[z].phase2_sent = g.slot[z].phase2_sent
<1> DEFINE r == RetriesOver(g.slot[z])
           s == [r EXCEPT !.fire1_waiting = FALSE]
<1>0. /\ r \in Slot /\ SlotConsistent(r)
      /\ r.phase2_sent = g.slot[z].phase2_sent
  <2>1. g.slot[z] \in Slot /\ SlotConsistent(g.slot[z])
    BY SlotOK
  <2>2. r.phase2_sent = g.slot[z].phase2_sent
    BY <2>1 DEF RetriesOver, Slot
  <2> QED BY <2>1, <2>2, RetriesOverOK
<1> HIDE DEF r
<1>1. s \in Slot /\ SlotConsistent(s) /\ ~s.fire1_waiting
      /\ s.phase2_sent = g.slot[z].phase2_sent
  BY <1>0 DEF Slot, SlotConsistent
<1>2. CASE Active(g, z)
  <2>1. AbortRetriesForZone(g, z) = [g EXCEPT !.slot[z] = s]
    BY <1>2 DEF AbortRetriesForZone, Good, FireRecord, r
  <2>2. [g.slot EXCEPT ![z] = s][z] = s
    BY DEF Good, FireRecord
  <2> HIDE DEF s
  <2> QED BY <1>1, <1>2, <2>1, <2>2, WriteOneOK
<1>3. CASE ~Active(g, z)
  BY <1>3 DEF AbortRetriesForZone, OnSlots
<1> QED BY <1>2, <1>3

LEMMA SendStopAllOK ==
  ASSUME NEW g, Good(g)
  PROVE  Aside(g, SendStopAll(g))
<1>1. Aside(g, CancelStarts(g))
  BY CancelStartsOK
<1>2. Aside(CancelStarts(g), Queue(CancelStarts(g), "STOP", Zones))
  BY <1>1, QueueOK DEF Aside, OnSlots, Kind
<1> QED BY <1>1, <1>2 DEF Aside, OnSlots, SendStopAll

LEMMA SendStopZoneOK ==
  ASSUME NEW g, Good(g), NEW z \in Zones
  PROVE  /\ OnSlots(g, SendStopZone(g, z))
         /\ Active(g, z) => SendStopZone(g, z).slot[z].launch_stopped
         /\ SendStopZone(g, z).slot[z].phase2_sent = g.slot[z].phase2_sent
<1> DEFINE c == CancelStarts(g)
           q == Queue(c, "STOP", {z})
           h == AbortRetriesForZone(q, z)
           s == [h.slot[z] EXCEPT !.launch_stopped = TRUE]
<1>1. Aside(g, c)
  BY CancelStartsOK
<1> HIDE DEF c
<1>2. Aside(c, q)
  BY <1>1, QueueOK DEF Aside, OnSlots, Kind
<1>3. Good(q) /\ q.table = g.table /\ q.slot = g.slot
  BY <1>1, <1>2 DEF Aside, OnSlots
<1> HIDE DEF q
<1>4. /\ Good(h) /\ h.table = g.table
      /\ Active(g, z) => ~h.slot[z].fire1_waiting
      /\ h.slot[z].phase2_sent = g.slot[z].phase2_sent
  BY <1>3, AbortRetriesForZoneOK DEF OnSlots, Active
<1>5. SendStopZone(g, z) =
        IF Active(g, z) THEN [h EXCEPT !.slot[z].launch_stopped = TRUE] ELSE h
  BY DEF SendStopZone, h, q, c
<1> HIDE DEF h
<1>6. CASE Active(g, z)
  <2>1. s \in Slot /\ SlotConsistent(s) /\ s.launch_stopped
        /\ s.phase2_sent = g.slot[z].phase2_sent
    BY <1>4, <1>6, SlotOK, ZenonT(40) DEF Slot, SlotConsistent
  <2>2. SendStopZone(g, z) = [h EXCEPT !.slot[z] = s]
    BY <1>4, <1>5, <1>6 DEF Good, FireRecord
  <2>3. [h.slot EXCEPT ![z] = s][z] = s
    BY <1>4 DEF Good, FireRecord
  <2>4. Active(h, z)
    BY <1>4, <1>6 DEF Active
  <2> HIDE DEF s
  <2> QED BY <1>4, <2>1, <2>2, <2>3, <2>4, WriteOneOK DEF OnSlots
<1>7. CASE ~Active(g, z)
  BY <1>4, <1>5, <1>7 DEF OnSlots
<1> QED BY <1>6, <1>7

LEMMA SuppressSlotOK ==
  ASSUME NEW g, Good(g), NEW z \in Zones
  PROVE  Aside(g, SuppressSlot(g, z))
<1> DEFINE keys == IF g.slot[z].sources = {} THEN {AnyKey} ELSE g.slot[z].sources
<1>1. keys \subseteq Sources \cup {AnyKey}
  BY SlotOK DEF Slot
<1>2. SuppressSlot(g, z) = [g EXCEPT !.suppress = @ \cup ({z} \X keys)]
  BY DEF SuppressSlot
<1> HIDE DEF keys
<1>3. {z} \X keys \subseteq Zones \X (Sources \cup {AnyKey})
  BY <1>1
<1> QED BY <1>2, <1>3, AsideOK DEF Good, FireRecord

-----------------------------------------------------------------------------
(* The part of Fire_Transition that follows every event. *)

LEMMA ProcessAutoDeadlinesOK ==
  ASSUME NEW g, Good(g)
  PROVE  OnSlots(g, ProcessAutoDeadlines(g))
<1> DEFINE due == {z \in Zones : Due(g, z) /\ Launchable(g, z)}
           l == Launch(g, due)
<1>1. \A z \in due : Active(g, z)
  BY DEF Due
<1>2. OnSlots(g, l)
  BY <1>1, LaunchOK
<1> HIDE DEF l
<1>3. OnSlots(g, [l EXCEPT !.start_latched = TRUE])
  <2> DEFINE h == [l EXCEPT !.start_latched = TRUE]
  <2>1. h \in FireRecord /\ h.table = l.table /\ h.slot = l.slot /\ h.state = l.state
    BY <1>2 DEF OnSlots, Good, FireRecord
  <2> HIDE DEF h
  <2>2. Aside(l, h)
    BY <1>2, <2>1, AsideOK DEF OnSlots
  <2> QED BY <1>2, <2>2 DEF Aside, OnSlots, h
<1>4. OnSlots(g, g)
  BY DEF OnSlots
<1> QED BY <1>3, <1>4 DEF ProcessAutoDeadlines, l, due

LEMMA RetriedOK ==
  ASSUME NEW s \in Slot, SlotConsistent(s), s.phase2_sent
  PROVE  Retried(s) \in Slot /\ SlotConsistent(Retried(s))
<1>1. CASE s.ext_retry_attempts >= MaxAttempts
  BY <1>1 DEF Retried, Slot, SlotConsistent
<1>2. CASE ~(s.ext_retry_attempts >= MaxAttempts)
  <2> DEFINE n == s.ext_retry_attempts + 1
             f == n >= MaxAttempts
  <2>1. n \in Nat /\ f \in BOOLEAN /\ Grace \in Nat
    BY BoundsAssumption DEF Slot
  <2>2. Retried(s) = [s EXCEPT !.ext_retry_attempts = n, !.ext_retry_left = Grace,
                               !.ext_retry_failed = f]
    BY <1>2 DEF Retried
  <2> HIDE DEF n, f
  <2> QED BY <2>1, <2>2 DEF Slot, SlotConsistent
<1> QED BY <1>1, <1>2

LEMMA ProcessExtinguishRetriesOK ==
  ASSUME NEW g, Good(g)
  PROVE  OnSlots(g, ProcessExtinguishRetries(g))
<1> DEFINE due == {z \in Zones : RetryDue(g, z)}
           again == {z \in due : g.slot[z].ext_retry_attempts < MaxAttempts}
           q == QueueStart(g, again)
           s == [z \in Zones |-> IF z \in due THEN Retried(q.slot[z]) ELSE q.slot[z]]
<1>1. Aside(g, q)
  BY QueueStartOK
<1>2. \A z \in due : Active(g, z) /\ g.slot[z].phase2_sent
  BY DEF RetryDue
<1>3. ProcessExtinguishRetries(g) =
        IF g.state # "EXTINGUISHING" THEN g ELSE [q EXCEPT !.slot = s]
  BY DEF ProcessExtinguishRetries
<1> HIDE DEF due, q
<1>4. s \in [Zones -> Slot]
  BY <1>1, <1>2, SlotOK, RetriedOK DEF Aside, OnSlots
<1>5. \A z \in Zones : \/ s[z] = q.slot[z]
                       \/ Active(q, z) /\ SlotConsistent(s[z])
  BY <1>1, <1>2, SlotOK, RetriedOK DEF Aside, OnSlots, Active
<1> HIDE DEF s
<1>6. OnSlots(q, [q EXCEPT !.slot = s])
  BY <1>1, <1>4, <1>5, WriteOK DEF Aside, OnSlots
<1> QED BY <1>1, <1>3, <1>6 DEF Aside, OnSlots

\* A record whose state alone changes.
LEMMA StateOK ==
  ASSUME NEW g, Good(g), NEW s \in State
  PROVE  /\ OnSlots(g, [g EXCEPT !.state = s])
         /\ [g EXCEPT !.state = s].state = s
         /\ [g EXCEPT !.state = s].slot = g.slot
<1> DEFINE h == [g EXCEPT !.state = s]
<1>1. h \in FireRecord /\ h.table = g.table /\ h.slot = g.slot /\ h.state = s
  BY DEF Good, FireRecord
<1> HIDE DEF h
<1>2. Good(h)
  BY <1>1, KeptOK
<1> QED BY <1>1, <1>2 DEF h, OnSlots

\* The other flags at the top of the record.
LEMMA FlagsOK ==
  ASSUME NEW g, Good(g), NEW a \in BOOLEAN, NEW b \in BOOLEAN, NEW c \in BOOLEAN
  PROVE  Aside(g, [g EXCEPT !.zone_countdown_stopped = a,
                            !.zone_countdown_paused = b, !.start_latched = c])
<1> DEFINE h == [g EXCEPT !.zone_countdown_stopped = a,
                          !.zone_countdown_paused = b, !.start_latched = c]
<1>1. /\ h \in FireRecord /\ h.table = g.table
      /\ h.slot = g.slot /\ h.state = g.state
  BY DEF Good, FireRecord
<1> HIDE DEF h
<1> QED BY <1>1, AsideOK DEF h

LEMMA ManualOrAutoOK ==
  ManualOrAuto \in State \ {"IDLE", "EXTINGUISHING"}
BY DEF ManualOrAuto, State

LEMMA SyncOK ==
  ASSUME NEW g, Good(g)
  PROVE  /\ OnSlots(g, SyncStateFromSlots(g))
         /\ SyncStateFromSlots(g).slot = g.slot
         /\ IdleIffEmpty(SyncStateFromSlots(g))
<1> DEFINE s == IF \A z \in Zones : ~Active(g, z) THEN "IDLE"
                ELSE IF ~AnyPending(g) /\ ~AnyFire1(g) THEN "EXTINGUISHING"
                ELSE IF g.state \in {"EXTINGUISHING", "IDLE"} THEN ManualOrAuto
                ELSE g.state
<1>1. SyncStateFromSlots(g) = [g EXCEPT !.state = s]
  BY DEF SyncStateFromSlots
<1>2. s \in State /\ (s = "IDLE" <=> \A z \in Zones : ~Active(g, z))
  BY ManualOrAutoOK DEF Good, FireRecord, State
<1> HIDE DEF s
<1>3. OnSlots(g, [g EXCEPT !.state = s]) /\ [g EXCEPT !.state = s].state = s
      /\ [g EXCEPT !.state = s].slot = g.slot
  BY <1>2, StateOK
<1> QED BY <1>1, <1>2, <1>3 DEF IdleIffEmpty, AnyActive, Active, OnSlots

LEMMA SettleOK ==
  ASSUME NEW g, Good(g)
  PROVE  OnSlots(g, Settle(g)) /\ IdleIffEmpty(Settle(g))
<1> DEFINE a == ProcessAutoDeadlines(g)
           b == ProcessExtinguishRetries(a)
<1>1. OnSlots(g, a)
  BY ProcessAutoDeadlinesOK
<1> HIDE DEF a
<1>2. OnSlots(a, b)
  BY <1>1, ProcessExtinguishRetriesOK DEF OnSlots
<1> HIDE DEF b
<1>3. OnSlots(b, SyncStateFromSlots(b)) /\ IdleIffEmpty(SyncStateFromSlots(b))
  BY <1>2, SyncOK DEF OnSlots
<1> QED BY <1>1, <1>2, <1>3 DEF OnSlots, Settle, a, b
-----------------------------------------------------------------------------
(* The events of Fire_Transition. *)

LEMMA StatusFireOK ==
  ASSUME NEW g, Good(g)
  PROVE  OnSlots(g, StatusFire(g))
<1> DEFINE h == StatusFire(g)
<1>1. h \in FireRecord /\ h.table = g.table /\ h.slot = g.slot
  BY DEF Good, FireRecord, StatusFire, State
<1> HIDE DEF h
<1> QED BY <1>1, KeptOK DEF OnSlots, h

LEMMA RedisplayOK ==
  ASSUME NEW g, Good(g)
  PROVE  OnSlots(g, Redisplay(g))
<1>1. (IF g.state = "IDLE" THEN ManualOrAuto ELSE g.state) \in State
  BY ManualOrAutoOK DEF Good, FireRecord
<1> QED BY <1>1, StateOK DEF Redisplay

LEMMA StopExtOK ==
  ASSUME NEW g, Good(g)
  PROVE  OnSlots(g, StopExt(g))
<1> DEFINE q == SendStopAll(g)
           r == AbortRetriesAll(q)
           h == [r EXCEPT !.zone_countdown_stopped = TRUE,
                          !.zone_countdown_paused = FALSE, !.start_latched = FALSE]
<1>1. Aside(g, q)
  BY SendStopAllOK
<1> HIDE DEF q
<1>2. OnSlots(q, r)
  BY <1>1, AbortRetriesAllOK DEF Aside, OnSlots
<1> HIDE DEF r
<1>3. Aside(r, h)
  BY <1>2, FlagsOK DEF OnSlots
<1> HIDE DEF h
<1>4. OnSlots(h, [h EXCEPT !.state = ManualOrAuto]) /\ OnSlots(h, h)
  BY <1>3, ManualOrAutoOK, StateOK DEF Aside, OnSlots
<1>5. StopExt(g) = h \/ StopExt(g) = [h EXCEPT !.state = ManualOrAuto]
  BY DEF StopExt, h, r, q
<1> QED BY <1>1, <1>2, <1>3, <1>4, <1>5 DEF Aside, OnSlots

LEMMA TakenUpOK ==
  ASSUME NEW s \in Slot, SlotConsistent(s)
  PROVE  TakenUp(s) \in Slot /\ SlotConsistent(TakenUp(s))
<1> DEFINE u == IF s.extinguish_aborted
                THEN [s EXCEPT !.extinguish_aborted = FALSE, !.phase2_sent = FALSE,
                               !.extinguish_locked = FALSE, !.ext_retry_failed = FALSE]
                ELSE s
<1>1. u \in Slot /\ SlotConsistent(u) /\ ~u.extinguish_aborted
  BY DEF Slot, SlotConsistent
<1> HIDE DEF u
<1>2. TakenUp(s) = [u EXCEPT !.launch_stopped = FALSE, !.countdown_paused = FALSE]
  BY DEF TakenUp, u
<1> QED BY <1>1, <1>2 DEF Slot, SlotConsistent

LEMMA Phase2PendingOK ==
  ASSUME NEW g, Good(g), NEW Z \in SUBSET Zones
  PROVE  OnSlots(g, Phase2Pending(g, Z))
<1> DEFINE go == {z \in Z : Startable(g, z)}
           s == [z \in Zones |-> IF z \in go THEN TakenUp(g.slot[z]) ELSE g.slot[z]]
           h == [g EXCEPT !.slot = s]
<1>1. \A z \in go : Active(g, z)
  BY DEF Startable
<1>2. Phase2Pending(g, Z) = Launch(h, go)
  BY DEF Phase2Pending
<1>3. go \in SUBSET Zones
  OBVIOUS
<1> HIDE DEF go
<1>4. s \in [Zones -> Slot]
  BY SlotOK, TakenUpOK
<1>5. \A z \in Zones : s[z] = g.slot[z] \/ (Active(g, z) /\ SlotConsistent(s[z]))
  BY <1>1, SlotOK, TakenUpOK
<1> HIDE DEF s
<1>6. Good(h) /\ h.table = g.table
  BY <1>4, <1>5, WriteOK
<1> HIDE DEF h
<1>7. \A z \in go : Active(h, z)
  BY <1>1, <1>6 DEF Active
<1>8. OnSlots(h, Launch(h, go))
  BY <1>3, <1>6, <1>7, LaunchOK
<1> QED BY <1>2, <1>6, <1>8 DEF OnSlots

LEMMA StartedOK ==
  ASSUME NEW g, Good(g)
  PROVE  OnSlots(g, Started(g))
<1> DEFINE h == [g EXCEPT !.start_latched = TRUE]
<1>1. h \in FireRecord /\ h.table = g.table /\ h.slot = g.slot
  BY DEF Good, FireRecord
<1> HIDE DEF h
<1>2. Good(h)
  BY <1>1, KeptOK
<1>3. OnSlots(h, SyncStateFromSlots(h))
  BY <1>2, SyncOK
<1> QED BY <1>1, <1>3 DEF OnSlots, Started, h

LEMMA StartSpOK ==
  ASSUME NEW g, Good(g), NEW sel \in Zones \cup {NoZone}
  PROVE  OnSlots(g, StartSp(g, sel))
<1>1. OnSlots(g, g)
  BY DEF OnSlots
<1>2. CASE sel = NoZone
  <2>1. OnSlots(g, Phase2AllPending(g))
    BY Phase2PendingOK DEF Phase2AllPending
  <2>2. OnSlots(Phase2AllPending(g), Started(Phase2AllPending(g)))
    BY <2>1, StartedOK DEF OnSlots
  <2> QED BY <1>1, <1>2, <2>1, <2>2 DEF StartSp, OnSlots
<1>3. CASE sel # NoZone
  <2> DEFINE h == Phase2Pending(g, {sel})
  <2>1. OnSlots(g, h)
    BY <1>3, Phase2PendingOK
  <2>2. StartSp(g, sel) = h \/ StartSp(g, sel) = Started(h)
    BY <1>3 DEF StartSp
  <2> HIDE DEF h
  <2>3. OnSlots(h, Started(h))
    BY <2>1, StartedOK DEF OnSlots
  <2> QED BY <2>1, <2>2, <2>3 DEF OnSlots
<1> QED BY <1>2, <1>3

\* The handlers that may give slots to zones keep Good, and the slots of the
\* zones that had one.
LEMMA StartAllExistingOK ==
  ASSUME NEW g, Good(g)
  PROVE  Good(StartAllExisting(g))
<1> DEFINE go == {z \in Zones : Launchable(g, z)}
           q == QueueStart(g, go)
           h == EnsureSlots(q, go)
           Z == {z \in go : Active(h, z)}
<1>1. StartAllExisting(g) = MarkPhase2Sent(h, Z)
  BY DEF StartAllExisting
<1>2. Good(q)
  BY QueueStartOK DEF Aside, OnSlots
<1> HIDE DEF q
<1>3. Good(h)
  BY <1>2, EnsureSlotsOK
<1>4. \A z \in Z : Active(h, z)
  OBVIOUS
<1> HIDE DEF h, Z
<1> QED BY <1>1, <1>3, <1>4, MarkPhase2SentOK DEF OnSlots

LEMMA StartAllOK ==
  ASSUME NEW g, Good(g)
  PROVE  Good(StartAll(g))
<1> DEFINE h == StartAllExisting(g)
           p == Phase2AllPending(h)
<1>1. Good(h)
  BY StartAllExistingOK
<1>2. StartAll(g) \in {Started(p), Started(h), h}
  BY DEF StartAll
<1> HIDE DEF h
<1>3. Good(p)
  BY <1>1, Phase2PendingOK DEF Phase2AllPending, OnSlots
<1> HIDE DEF p
<1> QED BY <1>1, <1>2, <1>3, StartedOK DEF OnSlots

LEMMA MarkExternalOK ==
  ASSUME NEW g, Good(g), NEW Z \in SUBSET Zones
  PROVE  Good(MarkExternal(g, Z))
<1> DEFINE ok == {z \in Z : mode[z] # "blocked" /\ ~g.slot[z].extinguish_locked}
           h == EnsureSlots(g, ok)
           Y == {z \in ok : Active(h, z) /\ ~h.slot[z].phase2_sent}
<1>1. MarkExternal(g, Z) = MarkPhase2Sent(h, Y)
  BY DEF MarkExternal
<1>2. Good(h)
  BY EnsureSlotsOK
<1>3. \A z \in Y : Active(h, z)
  OBVIOUS
<1> HIDE DEF h, Y
<1> QED BY <1>1, <1>2, <1>3, MarkPhase2SentOK DEF OnSlots

LEMMA MarkExternalAllOK ==
  ASSUME NEW g, Good(g)
  PROVE  Good(MarkExternalAll(g))
<1> DEFINE Z == {z \in Zones : igniters[z] # "offline"}
           h == MarkExternal(g, Z)
           rest == {z \in Z : ~Active(h, z)}
           k == EnsureSlots(h, rest)
           Y == {z \in rest : Active(k, z)}
<1>1. MarkExternalAll(g) = MarkPhase2Sent(k, Y)
  BY DEF MarkExternalAll
<1>2. Good(h)
  BY MarkExternalOK
<1>3. rest \in SUBSET Zones
  OBVIOUS
<1> HIDE DEF h, rest
<1>4. Good(k)
  BY <1>2, <1>3, EnsureSlotsOK
<1>5. \A z \in Y : Active(k, z)
  OBVIOUS
<1> HIDE DEF k, Y
<1> QED BY <1>1, <1>4, <1>5, MarkPhase2SentOK DEF OnSlots

LEMMA BusStartOK ==
  ASSUME NEW g, Good(g), NEW z \in Zones \cup {NoZone}
  PROVE  Good(BusStart(g, z))
<1> DEFINE h == IF z = NoZone THEN MarkExternalAll(g) ELSE MarkExternal(g, {z})
<1>1. Good(h)
  BY MarkExternalOK, MarkExternalAllOK
<1>2. BusStart(g, z) \in {h, Started(h), g}
  BY DEF BusStart
<1> HIDE DEF h
<1> QED BY <1>1, <1>2, StartedOK DEF OnSlots

LEMMA PauseResumeSlotOK ==
  ASSUME NEW s \in Slot, SlotConsistent(s)
  PROVE  /\ ResumeSlot(s) \in Slot /\ SlotConsistent(ResumeSlot(s))
         /\ PauseSlot(s) \in Slot
         /\ ~s.phase2_sent /\ ~s.fire1_waiting => SlotConsistent(PauseSlot(s))
BY DEF ResumeSlot, PauseSlot, Slot, SlotConsistent

LEMMA PauseZoneOK ==
  ASSUME NEW g, Good(g), NEW z \in Zones, Active(g, z), Waiting(g, z)
  PROVE  OnSlots(g, PauseZone(g, z))
<1> DEFINE s == PauseSlot(g.slot[z])
           h == [g EXCEPT !.slot[z] = s]
<1>1. s \in Slot /\ SlotConsistent(s)
  BY SlotOK, PauseResumeSlotOK DEF Waiting
<1> HIDE DEF s
<1>2. OnSlots(g, h)
  BY <1>1, WriteOneOK
<1>3. PauseZone(g, z) \in {g, Queue(h, "PAUSE", {z})}
  BY DEF PauseZone, s, Good, FireRecord
<1> HIDE DEF h
<1>4. Aside(h, Queue(h, "PAUSE", {z}))
  BY <1>2, QueueOK DEF OnSlots, Kind
<1> QED BY <1>2, <1>3, <1>4 DEF OnSlots, Aside

LEMMA ResumeZoneOK ==
  ASSUME NEW g, Good(g), NEW z \in Zones, Active(g, z)
  PROVE  OnSlots(g, ResumeZone(g, z))
<1> DEFINE s == ResumeSlot(g.slot[z])
           h == [g EXCEPT !.slot[z] = s]
<1>1. s \in Slot /\ SlotConsistent(s)
  BY SlotOK, PauseResumeSlotOK
<1> HIDE DEF s
<1>2. OnSlots(g, h)
  BY <1>1, WriteOneOK
<1>3. ResumeZone(g, z) = Queue(h, "RESUME", {z})
  BY DEF ResumeZone, s, Good, FireRecord
<1> HIDE DEF h
<1>4. Aside(h, Queue(h, "RESUME", {z}))
  BY <1>2, QueueOK DEF OnSlots, Kind
<1> QED BY <1>2, <1>3, <1>4 DEF OnSlots, Aside

LEMMA AbortZoneOK ==
  ASSUME NEW g, Good(g), NEW z \in Zones, Active(g, z), Extinguishing(g, z)
  PROVE  OnSlots(g, AbortZone(g, z))
<1> DEFINE a == SuppressSlot(g, z)
           h == SendStopZone(a, z)
           s == [h.slot[z] EXCEPT !.extinguish_aborted = TRUE,
                                  !.ext_retry_failed = FALSE, !.ext_retry_left = 0]
<1>1. Aside(g, a)
  BY SuppressSlotOK
<1>2. AbortZone(g, z) = [h EXCEPT !.slot[z].extinguish_aborted = TRUE,
                                  !.slot[z].ext_retry_failed = FALSE,
                                  !.slot[z].ext_retry_left = 0]
  BY DEF AbortZone
<1> HIDE DEF a
<1>3. Active(a, z) /\ a.slot[z].phase2_sent /\ Good(a)
  BY <1>1 DEF Aside, OnSlots, Active, Extinguishing
<1>4. OnSlots(a, h) /\ h.slot[z].launch_stopped /\ h.slot[z].phase2_sent
  BY <1>3, SendStopZoneOK
<1> HIDE DEF h
<1>5. s \in Slot /\ SlotConsistent(s)
  BY <1>4, SlotOK, ZenonT(40) DEF OnSlots, Slot, SlotConsistent
<1>6. AbortZone(g, z) = [h EXCEPT !.slot[z] = s]
  BY <1>2, <1>4, SlotOK, ZenonT(40) DEF OnSlots, Good, FireRecord
<1> HIDE DEF s
<1>7. Active(h, z)
  BY <1>3, <1>4 DEF OnSlots, Active
<1>8. OnSlots(h, [h EXCEPT !.slot[z] = s])
  BY <1>4, <1>5, <1>7, WriteOneOK DEF OnSlots
<1> QED BY <1>1, <1>4, <1>6, <1>8 DEF OnSlots, Aside

LEMMA BtnStopOK ==
  ASSUME NEW g, Good(g), NEW z \in Zones, Active(g, z)
  PROVE  OnSlots(g, BtnStop(g, z))
<1> DEFINE h == CASE Extinguishing(g, z) -> AbortZone(g, z)
                  [] Waiting(g, z) -> IF g.slot[z].countdown_paused
                                      THEN ResumeZone(g, z) ELSE PauseZone(g, z)
                  [] ~Extinguishing(g, z) /\ ~Waiting(g, z) -> SendStopZone(g, z)
           k == [h EXCEPT !.start_latched = FALSE]
<1>1. \/ h = AbortZone(g, z) /\ Extinguishing(g, z)
      \/ h = ResumeZone(g, z)
      \/ h = PauseZone(g, z) /\ Waiting(g, z)
      \/ h = SendStopZone(g, z)
  BY DEF Extinguishing, Waiting
<1>2. OnSlots(g, h)
  BY <1>1, AbortZoneOK, ResumeZoneOK, PauseZoneOK, SendStopZoneOK
<1>3. BtnStop(g, z) \in {g, SyncStateFromSlots(k)}
  BY DEF BtnStop, StopOn
<1> HIDE DEF h
<1>4. k \in FireRecord /\ k.table = h.table /\ k.slot = h.slot
  BY <1>2 DEF OnSlots, Good, FireRecord
<1> HIDE DEF k
<1>5. Good(k)
  BY <1>2, <1>4, KeptOK DEF OnSlots
<1>6. OnSlots(k, SyncStateFromSlots(k))
  BY <1>5, SyncOK
<1> QED BY <1>2, <1>3, <1>4, <1>6 DEF OnSlots

LEMMA ClearSlotOK ==
  ASSUME NEW g, Good(g), NEW z \in Zones
  PROVE  Good(ClearSlot(g, z))
<1> DEFINE h == ClearSlot(g, z)
<1>1. ZeroSlot \in Slot /\ SlotConsistent(ZeroSlot)
  BY DEF ZeroSlot, Slot, SlotConsistent
<1>2. /\ h \in FireRecord
      /\ h.table = [i \in Places |-> IF g.table[i] = z THEN NoZone ELSE g.table[i]]
      /\ h.slot = [g.slot EXCEPT ![z] = ZeroSlot]
  BY <1>1 DEF ClearSlot, Good, FireRecord
<1> HIDE DEF h
<1>3. \A y \in Zones : h.slot[y] = IF y = z THEN ZeroSlot ELSE g.slot[y]
  BY <1>2 DEF Good, FireRecord
<1>4. \A y \in Zones \ {z} : Active(g, y) => Active(h, y)
  BY <1>2, ZonesAssumption DEF Active
<1>5. Consistent(h)
  BY <1>1, <1>3, <1>4 DEF Good, Consistent
<1>6. Distinct(h)
  BY <1>2 DEF Distinct, Good
<1> QED BY <1>2, <1>5, <1>6 DEF Good, h

LEMMA ResetZoneOK ==
  ASSUME NEW g, Good(g), NEW z \in Zones
  PROVE  Good(ResetZone(g, z))
<1>1. Good(SuppressSlot(g, z))
  BY SuppressSlotOK DEF Aside, OnSlots
<1>2. Good(SendStopZone(SuppressSlot(g, z), z))
  BY <1>1, SendStopZoneOK DEF OnSlots
<1> QED BY <1>2, ClearSlotOK DEF ResetZone

LEMMA ResetAllOK ==
  ASSUME NEW g, Good(g)
  PROVE  Good(ResetAll(g)) /\ IdleIffEmpty(ResetAll(g))
<1> DEFINE keys(z) == IF g.slot[z].sources = {} THEN {AnyKey} ELSE g.slot[z].sources
           more == UNION {{z} \X keys(z) : z \in {y \in Zones : Active(g, y)}}
           q == SendStopAll(g)
           h == [EmptyFire EXCEPT !.suppress = g.suppress \cup more, !.sent = q.sent]
<1>1. ResetAll(g) = h
  BY DEF ResetAll
<1>2. \A z \in Zones : keys(z) \subseteq Sources \cup {AnyKey}
  BY SlotOK DEF Slot
<1> HIDE DEF keys
<1>3. more \subseteq Zones \X (Sources \cup {AnyKey})
  BY <1>2
<1> HIDE DEF more
<1>4. q.sent \in SUBSET (Kind \X Zones)
  BY SendStopAllOK DEF Aside, OnSlots, Good, FireRecord
<1> HIDE DEF q
<1>5. /\ h \in FireRecord /\ h.table = EmptyFire.table
      /\ h.slot = EmptyFire.slot /\ h.state = EmptyFire.state
  BY <1>3, <1>4, EmptyOK DEF Good, FireRecord
<1> HIDE DEF h
<1>6. Good(h)
  BY <1>5, EmptyOK, KeptOK
<1>7. IdleIffEmpty(h)
  BY <1>5, EmptyOK DEF IdleIffEmpty, AnyActive, Active, EmptyFire
<1> QED BY <1>1, <1>6, <1>7
-----------------------------------------------------------------------------
(* Reports of fire and the passing of time. *)

LEMMA WithSourceOK ==
  ASSUME NEW s \in Slot, SlotConsistent(s), NEW k \in Sources
  PROVE  WithSource(s, k) \in Slot /\ SlotConsistent(WithSource(s, k))
BY DEF WithSource, Slot, SlotConsistent

LEMMA ConfirmedOK ==
  ASSUME NEW s \in Slot, SlotConsistent(s), ~s.extinguish_locked, NEW z \in Zones
  PROVE  Confirmed(s, z) \in Slot /\ SlotConsistent(Confirmed(s, z))
<1>1. Delay[z] \in Nat
  BY BoundsAssumption
<1> QED BY <1>1 DEF Confirmed, Slot, SlotConsistent

LEMMA NewSlotOK ==
  ASSUME NEW z \in Zones, NEW k \in Sources, mode[z] \in Mode,
         andEffective[z] \in BOOLEAN
  PROVE  NewSlot(z, k) \in Slot /\ SlotConsistent(NewSlot(z, k))
<1> DEFINE s == WithSource(ZeroSlot, k)
<1>1. /\ s \in Slot /\ SlotConsistent(s)
      /\ ~s.phase2_sent /\ ~s.extinguish_locked /\ ~s.extinguish_aborted
      /\ ~s.launch_stopped /\ ~s.countdown_paused /\ ~s.fire1_waiting
  BY DEF WithSource, ZeroSlot, Slot, SlotConsistent
<1>2. Delay[z] \in Nat
  BY BoundsAssumption
<1>3. NewSlot(z, k) \in {s, [s EXCEPT !.launch_stopped = TRUE],
                         [s EXCEPT !.fire1_waiting = TRUE],
                         [s EXCEPT !.deadline_left = Delay[z]]}
  <2>1. CASE mode[z] = "blocked"
    BY <2>1 DEF NewSlot
  <2>2. CASE mode[z] = "manual"
    BY <2>2 DEF NewSlot
  <2>3. CASE mode[z] = "auto" /\ andEffective[z]
    BY <2>3 DEF NewSlot
  <2>4. CASE mode[z] = "auto" /\ ~andEffective[z]
    BY <2>4 DEF NewSlot
  <2> QED BY <2>1, <2>2, <2>3, <2>4 DEF Mode
<1> HIDE DEF s
<1> QED BY <1>1, <1>2, <1>3 DEF Slot, SlotConsistent

LEMMA KnownZoneOK ==
  ASSUME NEW g, Good(g), IdleIffEmpty(g), NEW z \in Zones, Active(g, z),
         NEW k \in Sources
  PROVE  Good(KnownZone(g, z, k)) /\ IdleIffEmpty(KnownZone(g, z, k))
<1> DEFINE s == WithSource(g.slot[z], k)
           Put(t) == [g EXCEPT !.slot[z] = t]
           b == [s EXCEPT !.fire1_waiting = FALSE, !.deadline_left = 0]
           c == Confirmed(s, z)
<1>1. s \in Slot /\ SlotConsistent(s)
  BY SlotOK, WithSourceOK
<1>2. \/ s.extinguish_locked /\ KnownZone(g, z, k) = Settle(Redisplay(Put(s)))
      \/ KnownZone(g, z, k) = Put(b)
      \/ ~s.extinguish_locked /\ KnownZone(g, z, k) = Settle(StatusFire(Put(c)))
      \/ KnownZone(g, z, k) = Put(s)
  BY DEF KnownZone
<1> HIDE DEF s
<1>3. b \in Slot /\ SlotConsistent(b)
  BY <1>1 DEF Slot, SlotConsistent
<1>4. ~s.extinguish_locked => c \in Slot /\ SlotConsistent(c)
  BY <1>1, ConfirmedOK
<1>5. ASSUME NEW t \in Slot, SlotConsistent(t)
      PROVE  OnSlots(g, Put(t)) /\ IdleIffEmpty(Put(t))
  <2>1. OnSlots(g, Put(t))
    BY <1>5, WriteOneOK
  <2>2. Put(t).state = g.state
    BY DEF Good, FireRecord
  <2> HIDE DEF Put
  <2> QED BY <2>1, <2>2 DEF OnSlots, IdleIffEmpty, AnyActive, Active
<1> HIDE DEF b, c, Put
<1>6. ASSUME NEW t \in Slot, SlotConsistent(t)
      PROVE  /\ Good(Settle(Redisplay(Put(t)))) /\ IdleIffEmpty(Settle(Redisplay(Put(t))))
             /\ Good(Settle(StatusFire(Put(t)))) /\ IdleIffEmpty(Settle(StatusFire(Put(t))))
  BY <1>5, <1>6, RedisplayOK, StatusFireOK, SettleOK DEF OnSlots
<1> QED BY <1>1, <1>2, <1>3, <1>4, <1>5, <1>6 DEF OnSlots

LEMMA AgedOK ==
  ASSUME NEW g, Good(g)
  PROVE  OnSlots(g, Aged(g)) /\ Aged(g).state = g.state
<1> DEFINE t == [z \in Zones |-> IF Active(g, z) THEN Older(g.slot[z]) ELSE g.slot[z]]
<1>1. ASSUME NEW s \in Slot, SlotConsistent(s)
      PROVE  Older(s) \in Slot /\ SlotConsistent(Older(s))
  <2>1. \A n \in Nat : Less(n) \in Nat
    BY DEF Less
  <2>2. Less(s.deadline_left) \in Nat /\ Less(s.ext_retry_left) \in Nat
    BY <2>1 DEF Slot
  <2> QED BY <1>1, <2>2 DEF Older, Slot, SlotConsistent
<1>2. Aged(g) = [g EXCEPT !.slot = t]
  BY DEF Aged
<1>3. t \in [Zones -> Slot]
  BY <1>1, SlotOK
<1>4. \A z \in Zones : t[z] = g.slot[z] \/ (Active(g, z) /\ SlotConsistent(t[z]))
  BY <1>1, SlotOK
<1> HIDE DEF t
<1>5. [g EXCEPT !.slot = t].state = g.state
  BY DEF Good, FireRecord
<1> QED BY <1>2, <1>3, <1>4, <1>5, WriteOK DEF OnSlots

LEMMA PromotedOK ==
  ASSUME NEW g, Good(g)
  PROVE  Good(Promoted(g))
<1> DEFINE up == {z \in Zones : /\ Active(g, z) /\ g.slot[z].fire1_waiting
                                /\ mode[z] # "blocked" /\ ~andEffective[z]}
           t == [z \in Zones |-> IF z \in up THEN Confirmed(g.slot[z], z) ELSE g.slot[z]]
           h == [g EXCEPT !.slot = t]
<1>1. \A z \in up : Active(g, z) /\ g.slot[z].fire1_waiting
  OBVIOUS
<1>2. Promoted(g) = IF up = {} THEN g ELSE Settle(StatusFire(h))
  BY DEF Promoted
<1>3. up \subseteq Zones
  OBVIOUS
<1> HIDE DEF up
<1>4. \A z \in up : Confirmed(g.slot[z], z) \in Slot /\ SlotConsistent(Confirmed(g.slot[z], z))
  <2> TAKE z \in up
  <2>1. g.slot[z] \in Slot /\ SlotConsistent(g.slot[z]) /\ z \in Zones
    BY <1>3, SlotOK
  <2>2. ~g.slot[z].extinguish_locked
    BY <1>1, <2>1 DEF SlotConsistent, Slot
  <2> QED BY <2>1, <2>2, ConfirmedOK
<1>5. t \in [Zones -> Slot]
  BY <1>4, SlotOK
<1>6. \A z \in Zones : t[z] = g.slot[z] \/ (Active(g, z) /\ SlotConsistent(t[z]))
  <2> TAKE z \in Zones
  <2>1. t[z] = IF z \in up THEN Confirmed(g.slot[z], z) ELSE g.slot[z]
    OBVIOUS
  <2> QED BY <1>1, <1>4, <2>1
<1> HIDE DEF t
<1>7. Good(h)
  BY <1>5, <1>6, WriteOK
<1> HIDE DEF h
<1>8. Good(Settle(StatusFire(h)))
  BY <1>7, StatusFireOK, SettleOK DEF OnSlots
<1> QED BY <1>2, <1>8
-----------------------------------------------------------------------------
(* The invariant, one action at a time. *)

Inv == TypeOK /\ Consistent(fire) /\ Distinct(fire) /\ IdleIffEmpty(fire)

\* What every action establishes of the new record.
Keeps == Good(fire') /\ IdleIffEmpty(fire')

LEMMA TickOK ==
  ASSUME Inv, Tick
  PROVE  Keeps
<1> DEFINE q == Quiet(fire)
           g == Aged(q)
<1>1. Good(q) /\ q.table = fire.table /\ q.state = fire.state
  BY QuietOK DEF Inv, TypeOK, Good, Aside, OnSlots
<1> HIDE DEF q
<1>2. Good(g) /\ g.table = fire.table /\ g.state = fire.state
  BY <1>1, AgedOK DEF OnSlots
<1>3. IdleIffEmpty(g)
  BY <1>2 DEF Inv, IdleIffEmpty, AnyActive, Active
<1>4. fire' \in {g, Settle(Promoted(g))}
  BY DEF Tick, q
<1> HIDE DEF g
<1>5. Good(Settle(Promoted(g))) /\ IdleIffEmpty(Settle(Promoted(g)))
  BY <1>2, PromotedOK, SettleOK DEF OnSlots
<1> QED BY <1>2, <1>3, <1>4, <1>5 DEF Keeps

\* The record the handlers start from.
LEMMA StartOK ==
  ASSUME Inv
  PROVE  /\ Good(Quiet(fire)) /\ IdleIffEmpty(Quiet(fire))
         /\ \A z \in Zones : Active(Quiet(fire), z) <=> Active(fire, z)
         /\ Quiet(fire).slot = fire.slot
BY QuietOK DEF Inv, TypeOK, Good, Aside, OnSlots, IdleIffEmpty, AnyActive, Active

LEMMA OnStatusFireOK ==
  ASSUME Inv, NEW z \in Zones, NEW k \in SourcesOf[z], OnStatusFire(z, k)
  PROVE  Keeps
<1> DEFINE g == Quiet(fire)
           s == NewSlot(z, k)
           p == PutSlot(g, z, s)
<1>1. Good(g) /\ IdleIffEmpty(g) /\ (Active(g, z) <=> Active(fire, z))
  BY StartOK
<1>2. k \in Sources
  BY SurroundingsAssumption
<1>3. s \in Slot /\ SlotConsistent(s)
  BY <1>2, NewSlotOK DEF Inv, TypeOK
<1>4. fire' = IF Active(fire, z) THEN KnownZone(g, z, k) ELSE Settle(StatusFire(p))
  BY DEF OnStatusFire
<1> HIDE DEF g, s
<1>5. CASE Active(fire, z)
  BY <1>1, <1>2, <1>4, <1>5, KnownZoneOK DEF Keeps
<1>6. CASE ~Active(fire, z)
  <2>1. Good(p)
    BY <1>1, <1>3, <1>6, PutSlotOK
  <2> HIDE DEF p
  <2>2. Good(Settle(StatusFire(p))) /\ IdleIffEmpty(Settle(StatusFire(p)))
    BY <2>1, StatusFireOK, SettleOK DEF OnSlots
  <2> QED BY <1>4, <1>6, <2>2 DEF Keeps
<1> QED BY <1>5, <1>6

LEMMA ButtonsOK ==
  ASSUME Inv, BtnStartSp \/ BtnStartAll \/ BtnStopPressed \/ TransitionOnly
  PROVE  Keeps
<1> DEFINE g == Quiet(fire)
<1>1. Good(g) /\ \A z \in Zones : Active(g, z) <=> Active(fire, z)
  BY StartOK
<1>2. ASSUME NEW h, Good(h), fire' = Settle(h)
      PROVE  Keeps
  BY <1>2, SettleOK DEF Keeps, OnSlots
<1>3. CASE BtnStartSp
  <2>1. PICK sel \in Zones \cup {NoZone} : fire' = Settle(StartSp(g, sel))
    BY <1>3 DEF BtnStartSp, Choices
  <2> HIDE DEF g
  <2> QED BY <1>1, <1>2, <2>1, StartSpOK DEF OnSlots
<1>4. CASE BtnStartAll
  <2>1. fire' = Settle(StartAll(g))
    BY <1>4 DEF BtnStartAll
  <2> HIDE DEF g
  <2> QED BY <1>1, <1>2, <2>1, StartAllOK
<1>5. CASE BtnStopPressed
  <2>1. PICK z \in Zones : Active(fire, z) /\ fire' = Settle(BtnStop(g, z))
    BY <1>5 DEF BtnStopPressed
  <2> HIDE DEF g
  <2> QED BY <1>1, <1>2, <2>1, BtnStopOK DEF OnSlots
<1>6. CASE TransitionOnly
  BY <1>1, <1>2, <1>6 DEF TransitionOnly
<1> QED BY <1>3, <1>4, <1>5, <1>6

LEMMA GostResetOK ==
  ASSUME Inv, GostReset
  PROVE  Keeps
<1> DEFINE q == Quiet(fire)
           r(sel) == [ResetZone(q, sel) EXCEPT !.start_latched = FALSE]
           g(sel) == SyncStateFromSlots(r(sel))
           e(sel) == [g(sel) EXCEPT !.zone_countdown_stopped = FALSE,
                                    !.zone_countdown_paused = FALSE]
<1>1. PICK sel \in Zones \cup {NoZone} :
        fire' = IF sel = NoZone THEN ResetAll(q)
                ELSE IF AnyActive(g(sel)) THEN Settle(g(sel)) ELSE e(sel)
  BY DEF GostReset, Choices
<1>2. Good(q)
  BY StartOK
<1> HIDE DEF q
<1>3. CASE sel = NoZone
  BY <1>1, <1>2, <1>3, ResetAllOK DEF Keeps
<1>4. CASE sel # NoZone
  <2>1. Good(ResetZone(q, sel))
    BY <1>2, <1>4, ResetZoneOK
  <2>2. /\ r(sel) \in FireRecord /\ r(sel).table = ResetZone(q, sel).table
        /\ r(sel).slot = ResetZone(q, sel).slot
    BY <2>1 DEF Good, FireRecord
  <2> HIDE DEF r
  <2>3. Good(r(sel))
    BY <2>1, <2>2, KeptOK
  <2>4. Good(g(sel)) /\ IdleIffEmpty(g(sel))
    BY <2>3, SyncOK DEF OnSlots
  <2> HIDE DEF g
  <2>5. Good(Settle(g(sel))) /\ IdleIffEmpty(Settle(g(sel)))
    BY <2>4, SettleOK DEF OnSlots
  <2>6. /\ e(sel) \in FireRecord /\ e(sel).table = g(sel).table
        /\ e(sel).slot = g(sel).slot /\ e(sel).state = g(sel).state
    BY <2>4 DEF Good, FireRecord
  <2> HIDE DEF e
  <2>7. Good(e(sel)) /\ IdleIffEmpty(e(sel))
    BY <2>4, <2>6, KeptOK DEF IdleIffEmpty, AnyActive, Active
  <2> QED BY <1>1, <1>4, <2>5, <2>7 DEF Keeps
<1> QED BY <1>3, <1>4

LEMMA BusOK ==
  ASSUME Inv, (\E z \in Zones \cup {NoZone} : OnStartExtinguishment(z)) \/ OnStopExtinguishment
  PROVE  Keeps
<1> DEFINE g == Quiet(fire)
<1>1. Good(g)
  BY StartOK
<1>2. ASSUME NEW h, Good(h), fire' = Settle(h)
      PROVE  Keeps
  BY <1>2, SettleOK DEF Keeps, OnSlots
<1>3. ASSUME NEW z \in Zones \cup {NoZone}, OnStartExtinguishment(z)
      PROVE  Keeps
  <2>1. fire' = Settle(BusStart(g, z))
    BY <1>3 DEF OnStartExtinguishment
  <2> HIDE DEF g
  <2> QED BY <1>1, <1>2, <2>1, BusStartOK
<1>4. CASE OnStopExtinguishment
  <2>1. fire' = Settle(StopExt(g))
    BY <1>4 DEF OnStopExtinguishment
  <2> HIDE DEF g
  <2> QED BY <1>1, <1>2, <2>1, StopExtOK DEF OnSlots
<1> QED BY <1>3, <1>4

LEMMA PauseResumeOK ==
  ASSUME Inv, OnPauseExtinguishmentTimer \/ OnResumeExtinguishmentTimer
  PROVE  Keeps
<1> DEFINE g == Quiet(fire)
           Z == CountingSlots(fire)
           Changed(h, p, t) ==
             /\ h \in FireRecord /\ h.table = g.table /\ h.state = g.state
             /\ h.slot = t
<1>1. /\ Good(g) /\ IdleIffEmpty(g) /\ g.slot = fire.slot
      /\ \A z \in Zones : Active(g, z) <=> Active(fire, z)
  BY StartOK
<1>2. /\ Z \in SUBSET Zones /\ "PAUSE" \in Kind /\ "RESUME" \in Kind
      /\ \A z \in Z : /\ Active(g, z) /\ ~g.slot[z].phase2_sent
                       /\ ~g.slot[z].fire1_waiting
  BY <1>1 DEF CountingSlots, Kind
<1> HIDE DEF g, Z
<1>3. ASSUME NEW h, h \in FireRecord, h.table = g.table, h.state = g.state,
             \A z \in Zones : h.slot[z] = g.slot[z] \/ (Active(g, z) /\ SlotConsistent(h.slot[z])),
             NEW k \in Kind, fire' = Queue(h, k, Z)
      PROVE  Keeps
  <2>1. Good(h)
    BY <1>1, <1>3, KeptOK
  <2>2. Aside(h, Queue(h, k, Z))
    BY <1>2, <2>1, QueueOK
  <2> QED BY <1>1, <1>3, <2>2
          DEF Keeps, Aside, OnSlots, IdleIffEmpty, AnyActive, Active
<1>4. CASE OnPauseExtinguishmentTimer
  <2> DEFINE t == [z \in Zones |-> IF z \in Z THEN PauseSlot(g.slot[z]) ELSE g.slot[z]]
             h == [g EXCEPT !.zone_countdown_paused = TRUE, !.slot = t]
  <2>1. fire' = Queue(h, "PAUSE", Z)
    BY <1>4 DEF OnPauseExtinguishmentTimer, g, Z
  <2>2. t \in [Zones -> Slot]
    BY <1>1, SlotOK, PauseResumeSlotOK
  <2>3. \A z \in Zones : t[z] = g.slot[z] \/ (Active(g, z) /\ SlotConsistent(t[z]))
    BY <1>1, <1>2, SlotOK, PauseResumeSlotOK
  <2> HIDE DEF t
  <2>4. h \in FireRecord /\ h.table = g.table /\ h.state = g.state /\ h.slot = t
    BY <1>1, <2>2 DEF Good, FireRecord
  <2> HIDE DEF h
  <2> QED BY <1>2, <1>3, <2>1, <2>3, <2>4
<1>5. CASE OnResumeExtinguishmentTimer
  <2> DEFINE t == [z \in Zones |-> IF z \in Z THEN ResumeSlot(g.slot[z]) ELSE g.slot[z]]
             h == [g EXCEPT !.zone_countdown_paused = FALSE, !.slot = t]
  <2>1. fire' = Queue(h, "RESUME", Z)
    BY <1>5 DEF OnResumeExtinguishmentTimer, g, Z
  <2>2. t \in [Zones -> Slot]
    BY <1>1, SlotOK, PauseResumeSlotOK
  <2>3. \A z \in Zones : t[z] = g.slot[z] \/ (Active(g, z) /\ SlotConsistent(t[z]))
    BY <1>1, <1>2, SlotOK, PauseResumeSlotOK
  <2> HIDE DEF t
  <2>4. h \in FireRecord /\ h.table = g.table /\ h.state = g.state /\ h.slot = t
    BY <1>1, <2>2 DEF Good, FireRecord
  <2> HIDE DEF h
  <2> QED BY <1>2, <1>3, <2>1, <2>3, <2>4
<1> QED BY <1>4, <1>5

\* The actions that change nothing of the record but sent and start_retry,
\* and the restart.
LEMMA SurroundingsOK ==
  ASSUME Inv,
         \/ \E z \in Zones : StartSettled(z)
         \/ Fire_Init
         \/ \E z \in Zones : IgnitersSeen(z)
         \/ Configured \/ ConfigSession
  PROVE  Keeps
<1> DEFINE g == Quiet(fire)
<1>1. Good(g) /\ IdleIffEmpty(g)
  BY StartOK
<1>2. CASE \E z \in Zones : StartSettled(z)
  <2>1. PICK z \in Zones : fire' = [g EXCEPT !.start_retry = @ \ {z}]
    BY <1>2 DEF StartSettled
  <2> HIDE DEF g
  <2>2. /\ fire' \in FireRecord /\ fire'.table = g.table
        /\ fire'.slot = g.slot /\ fire'.state = g.state
    BY <1>1, <2>1 DEF Good, FireRecord
  <2>3. Good(fire')
    BY <1>1, <2>2, KeptOK
  <2> QED BY <1>1, <2>2, <2>3 DEF Keeps, IdleIffEmpty, AnyActive, Active
<1>3. CASE Fire_Init
  <2>1. fire' = EmptyFire /\ EmptyFire.state = "IDLE"
    BY <1>3 DEF Fire_Init, EmptyFire
  <2>2. \A z \in Zones : ~Active(EmptyFire, z)
    BY EmptyOK
  <2> QED BY <2>1, <2>2, EmptyOK DEF Keeps, IdleIffEmpty, AnyActive
<1>4. CASE (\E z \in Zones : IgnitersSeen(z)) \/ Configured \/ ConfigSession
  <2>1. fire' = g
    BY <1>4 DEF IgnitersSeen, Configured, ConfigSession
  <2> QED BY <1>1, <2>1 DEF Keeps
<1> QED BY <1>2, <1>3, <1>4

LEMMA NextOK ==
  ASSUME Inv, [Next]_vars
  PROVE  Inv'
<1>1. CASE UNCHANGED vars
  BY <1>1 DEF Inv, TypeOK, Consistent, Distinct, IdleIffEmpty, AnyActive, Active, vars
<1>2. CASE Next
  <2>1. Keeps
    BY <1>2, TickOK, OnStatusFireOK, ButtonsOK, GostResetOK, BusOK,
       PauseResumeOK, SurroundingsOK DEF Next
  <2>2. TypeOK'
    <3>1. fire' \in FireRecord
      BY <2>1 DEF Keeps, Good
    <3>2. CASE UNCHANGED settings
      BY <3>1, <3>2 DEF Inv, TypeOK, settings
    <3>3. CASE Fire_Init \/ ConfigSession
      BY <3>1, <3>3, SurroundingsAssumption
         DEF Inv, TypeOK, Fire_Init, ConfigSession
    <3>4. CASE Configured
      BY <3>1, <3>4, SurroundingsAssumption DEF Inv, TypeOK, Configured
    <3>5. ASSUME NEW z \in Zones, IgnitersSeen(z)
          PROVE  TypeOK'
      BY <3>1, <3>5, SurroundingsAssumption DEF Inv, TypeOK, IgnitersSeen
    <3> QED BY <1>2, <3>2, <3>3, <3>4, <3>5
            DEF Next, Tick, OnStatusFire, BtnStartSp, BtnStartAll,
                BtnStopPressed, TransitionOnly, GostReset, OnStartExtinguishment,
                OnStopExtinguishment, OnPauseExtinguishmentTimer,
                OnResumeExtinguishmentTimer, StartSettled
  <2>3. Consistent(fire)' /\ Distinct(fire)' /\ IdleIffEmpty(fire)'
    BY <2>1 DEF Keeps, Good
  <2> QED BY <2>2, <2>3 DEF Inv
<1> QED BY <1>1, <1>2

LEMMA InitOK ==
  ASSUME Init
  PROVE  Inv
<1>1. /\ Consistent(fire) /\ Distinct(fire)
      /\ fire \in FireRecord /\ ~AnyActive(fire)
  BY EmptyOK DEF Init, Good, AnyActive
<1>2. fire.state = "IDLE"
  BY DEF Init, EmptyFire
<1>3. TypeOK
  BY <1>1, SurroundingsAssumption DEF Init, TypeOK
<1> QED BY <1>1, <1>2, <1>3 DEF Inv, IdleIffEmpty

\* The inductive invariant: every handler of fire.c, buttons, reports, commands
\* from the bus and timers alike, keeps the slots typed, consistent with the
\* table, and the state of the FSM in agreement with the table.
THEOREM Invariance == Spec => []Inv
<1>1. Init => Inv
  BY InitOK
<1>2. Inv /\ [Next]_vars => Inv'
  BY NextOK
<1> QED BY <1>1, <1>2, PTL DEF Spec
-----------------------------------------------------------------------------
\* The handlers never leave g_fire, the slots, the acknowledged sources or the
\* retry pool with a value outside their types: no time left below zero, no
\* zone that is not of the train in a slot.
THEOREM TypeCorrectness == Spec => []TypeOK
BY Invariance, PTL DEF Inv

\* Whatever sequence of reports, buttons, bus commands, pauses and resets
\* writes the slots, their flags never contradict each other.
THEOREM SlotsAreConsistent == Spec => []SlotsConsistent
<1>1. Inv => SlotsConsistent
  BY DEF Inv, SlotsConsistent
<1> QED BY <1>1, Invariance, PTL

\* No zone gets a second slot, however reports, launches of all zones and
\* external STARTs fill the places (Fire_EnsureSlots, Fire_TryAddNewFireZone).
THEOREM OneSlotPerZoneAlways == Spec => []OneSlotPerZone
<1>1. Inv => OneSlotPerZone
  BY DEF Inv, OneSlotPerZone
<1> QED BY <1>1, Invariance, PTL

\* After every handler the FSM is idle exactly when no zone has a slot, also
\* when the table overflowed or was partly reset in between.
THEOREM IdleExactlyWithoutFire == Spec => []IdleMeansNoFire
<1>1. Inv => IdleMeansNoFire
  BY DEF Inv, IdleMeansNoFire
<1> QED BY <1>1, Invariance, PTL
-----------------------------------------------------------------------------
(* The STARTs.  f is the record before a handler, g the record somewhere   *)
(* in it: the slot in f tells what the slot in g and a START sent so far   *)
(* may be.                                                                 *)

\* The retries of an extinguishing are not over.
MayRetry(s) ==
  /\ s.phase2_sent /\ ~s.extinguish_aborted /\ ~s.ext_retry_failed
  /\ s.ext_retry_attempts < MaxAttempts

Starts(g) == {z \in Zones : <<"START", z>> \in g.sent}

\* A zone with retries left is not stopped.
Halted(g) == \A z \in Zones : MayRetry(g.slot[z]) => ~g.slot[z].launch_stopped

\* With a place for every zone, a START in the retry pool belongs to a slot
\* that is not stopped.
Hushed(g) ==
  Cardinality(Zones) <= MaxSlots =>
    \A z \in g.start_retry : Active(g, z) /\ ~g.slot[z].launch_stopped

Sound(g) == Good(g) /\ Halted(g) /\ Hushed(g)

\* Nothing was launched on the way from f to g.
Calm(f, g) ==
  \A z \in Zones :
    /\ z \notin Starts(g)
    /\ f.slot[z].phase2_sent =>
         /\ ~g.slot[z].phase2_sent => ~Active(g, z)
         /\ MayRetry(g.slot[z]) => MayRetry(f.slot[z])
         /\ g.slot[z].phase2_sent /\ f.slot[z].extinguish_aborted
              => g.slot[z].extinguish_aborted

\* A zone launched in f gets a START, or a slot with retries left, only as a
\* retry or after its launch was aborted ...
Led(f, g) ==
  \A z \in Zones : f.slot[z].phase2_sent =>
    /\ z \in Starts(g) \/ MayRetry(g.slot[z])
         => MayRetry(f.slot[z]) \/ f.slot[z].extinguish_aborted
    /\ ~g.slot[z].phase2_sent => ~Active(g, z) \/ f.slot[z].extinguish_aborted

\* ... and then a START was asked for.
Bound(f, g) ==
  /\ Led(f, g)
  /\ \A z \in Zones :
       /\ f.slot[z].phase2_sent /\ f.slot[z].extinguish_aborted
       /\ z \in Starts(g) \/ MayRetry(g.slot[z])
       => g.start_latched

\* The slots, the table, the latch and the orders of g are those of h.
SameButState(g, h) ==
  /\ h.table = g.table /\ h.slot = g.slot /\ h.sent = g.sent
  /\ h.start_retry = g.start_retry /\ h.start_latched = g.start_latched

\* No START is added.
NoMore(g, h) == Starts(h) \subseteq Starts(g) /\ h.start_retry \subseteq g.start_retry

LEMMA CalmIsLed ==
  ASSUME NEW f, NEW g, Calm(f, g)
  PROVE  Led(f, g)
BY DEF Calm, Led

LEMMA CalmIsBound ==
  ASSUME NEW f, NEW g, Calm(f, g)
  PROVE  Bound(f, g)
<1>1. Led(f, g)
  BY CalmIsLed
<1>2. ASSUME NEW z \in Zones, f.slot[z].phase2_sent, f.slot[z].extinguish_aborted,
             z \in Starts(g) \/ MayRetry(g.slot[z])
      PROVE  FALSE
  BY <1>2 DEF Calm, MayRetry
<1> QED BY <1>1, <1>2 DEF Bound

LEMMA LatchedIsBound ==
  ASSUME NEW f, NEW g, Led(f, g), g.start_latched
  PROVE  Bound(f, g)
BY DEF Bound

\* What only the state of the FSM changes.
LEMMA StateApart ==
  ASSUME NEW f, NEW g, NEW h, Sound(g), Good(h), SameButState(g, h)
  PROVE  Sound(h) /\ (Bound(f, g) => Bound(f, h)) /\ (Led(f, g) => Led(f, h))
         /\ (Calm(f, g) => Calm(f, h))
<1>1. /\ h.slot = g.slot /\ Starts(h) = Starts(g)
      /\ h.start_retry = g.start_retry /\ h.start_latched = g.start_latched
      /\ \A z \in Zones : Active(h, z) <=> Active(g, z)
  BY DEF SameButState, Starts, Active
<1>2. Sound(h)
  <2>1. \A z \in g.start_retry : z \in Zones
    BY DEF Sound, Good, FireRecord
  <2> QED BY <1>1, <2>1 DEF Sound, Halted, Hushed
<1>3. Led(f, g) => Led(f, h)
  BY <1>1 DEF Led
<1>4. Bound(f, g) => Bound(f, h)
  BY <1>1, <1>3 DEF Bound
<1>5. Calm(f, g) => Calm(f, h)
  BY <1>1 DEF Calm
<1> QED BY <1>2, <1>3, <1>4, <1>5

\* A slot does not get retries back, nor an aborted launch.
Mild(s, t) ==
  /\ MayRetry(t) => ~t.launch_stopped
  /\ s.phase2_sent =>
       /\ t.phase2_sent
       /\ MayRetry(t) => MayRetry(s)
       /\ s.extinguish_aborted => t.extinguish_aborted

\* An operator that launches nothing: the table is kept, the slots change
\* mildly, and none is stopped with a START in the pool.
LEMMA Gentle ==
  ASSUME NEW f, NEW g, NEW h, Sound(g), Good(h), h.table = g.table, NoMore(g, h),
         \A z \in Zones :
           /\ Mild(g.slot[z], h.slot[z])
           /\ h.slot[z].launch_stopped => g.slot[z].launch_stopped \/ z \notin h.start_retry
  PROVE  Sound(h) /\ (Calm(f, g) => Calm(f, h))
<1>1. \A z \in Zones : Active(h, z) <=> Active(g, z)
  BY DEF Active
<1>2. Sound(h)
  <2>1. h.start_retry \subseteq Zones /\ h.start_retry \subseteq g.start_retry
    BY DEF Good, FireRecord, NoMore
  <2> QED BY <1>1, <2>1 DEF Sound, Halted, Hushed, Mild
<1>3. ASSUME Calm(f, g), NEW z \in Zones, f.slot[z].phase2_sent
      PROVE  /\ ~h.slot[z].phase2_sent => ~Active(h, z)
             /\ MayRetry(h.slot[z]) => MayRetry(f.slot[z])
             /\ h.slot[z].phase2_sent /\ f.slot[z].extinguish_aborted
                  => h.slot[z].extinguish_aborted
  <2>1. CASE g.slot[z].phase2_sent
    BY <1>3, <2>1 DEF Calm, Mild
  <2>2. CASE ~g.slot[z].phase2_sent
    <3>1. ~Active(h, z)
      BY <1>1, <1>3, <2>2 DEF Calm
    <3>2. ~h.slot[z].phase2_sent
      BY <3>1 DEF Good, Consistent, ZeroSlot
    <3> QED BY <3>1, <3>2 DEF MayRetry
  <2> QED BY <2>1, <2>2
<1>4. Calm(f, g) => Calm(f, h)
  BY <1>3 DEF Calm, NoMore
<1> QED BY <1>2, <1>4

\* Where the slots are the same, too.
LEMMA Sideways ==
  ASSUME NEW f, NEW g, NEW h, Sound(g), Good(h), h.table = g.table,
         h.slot = g.slot, NoMore(g, h)
  PROVE  Sound(h) /\ (Calm(f, g) => Calm(f, h))
<1>1. \A z \in Zones : Mild(g.slot[z], h.slot[z])
  BY DEF Mild, Sound, Halted
<1> QED BY <1>1, Gentle
-----------------------------------------------------------------------------
(* What the commands do to the orders. *)

LEMMA QuietOrders ==
  ASSUME NEW g, Good(g)
  PROVE  /\ Starts(Quiet(g)) = {} /\ Quiet(g).start_retry = g.start_retry
         /\ Quiet(g).slot = g.slot /\ Quiet(g).table = g.table
BY DEF Good, FireRecord, Quiet, Starts

LEMMA QueueOrders ==
  ASSUME NEW g, Good(g), NEW k \in Kind \ {"START"}, NEW Z \in SUBSET Zones
  PROVE  /\ NoMore(g, Queue(g, k, Z)) /\ Queue(g, k, Z).start_latched = g.start_latched
         /\ Queue(g, k, Z).slot = g.slot /\ Queue(g, k, Z).table = g.table
<1> DEFINE h == Queue(g, k, Z)
           new == {k} \X {z \in Z : igniters[z] # "offline"}
<1>1. /\ h.sent = g.sent \cup new /\ h.start_retry = g.start_retry
      /\ h.slot = g.slot /\ h.table = g.table /\ h.start_latched = g.start_latched
  BY DEF Good, FireRecord, Queue
<1>2. \A z \in Zones : <<"START", z>> \notin new
  OBVIOUS
<1> HIDE DEF h, new
<1>3. NoMore(g, h)
  BY <1>1, <1>2 DEF NoMore, Starts
<1> QED BY <1>1, <1>3 DEF h

LEMMA CancelOrders ==
  ASSUME NEW g, Good(g)
  PROVE  /\ NoMore(g, CancelStarts(g)) /\ CancelStarts(g).start_retry = {}
         /\ CancelStarts(g).slot = g.slot /\ CancelStarts(g).table = g.table
BY DEF Good, FireRecord, CancelStarts, NoMore, Starts

LEMMA QueueStartOrders ==
  ASSUME NEW g, Good(g), NEW Z \in SUBSET Zones
  PROVE  /\ Starts(QueueStart(g, Z)) \subseteq Starts(g) \cup Z
         /\ QueueStart(g, Z).start_retry \subseteq g.start_retry \cup Z
         /\ QueueStart(g, Z).start_latched = g.start_latched
         /\ QueueStart(g, Z).slot = g.slot /\ QueueStart(g, Z).table = g.table
<1> DEFINE ready == {z \in Z : igniters[z] = "ready"}
           q == Queue(g, "START", ready)
           h == QueueStart(g, Z)
           new == {"START"} \X {z \in ready : igniters[z] # "offline"}
<1>1. /\ q.sent = g.sent \cup new /\ q.start_retry = g.start_retry
      /\ q.slot = g.slot /\ q.table = g.table /\ q.start_latched = g.start_latched
      /\ q \in FireRecord
  <2>1. Good(q)
    BY QueueOK DEF Aside, OnSlots, Kind
  <2> QED BY <2>1 DEF Good, FireRecord, Queue
<1>2. h = [q EXCEPT !.start_retry = @ \cup ready]
  BY DEF QueueStart
<1>3. \A z \in Zones : <<"START", z>> \in new => z \in Z
  OBVIOUS
<1> HIDE DEF q, h, new
<1>4. /\ h.sent = g.sent \cup new /\ h.start_retry = g.start_retry \cup ready
      /\ h.slot = g.slot /\ h.table = g.table /\ h.start_latched = g.start_latched
  BY <1>1, <1>2 DEF FireRecord
<1>5. Starts(h) \subseteq Starts(g) \cup Z
  BY <1>3, <1>4 DEF Starts
<1> QED BY <1>4, <1>5 DEF h

LEMMA MarkOrders ==
  ASSUME NEW g, Good(g), NEW Z
  PROVE  /\ Starts(MarkPhase2Sent(g, Z)) = Starts(g)
         /\ MarkPhase2Sent(g, Z).start_retry = g.start_retry
         /\ MarkPhase2Sent(g, Z).start_latched = g.start_latched
         /\ MarkPhase2Sent(g, Z).table = g.table
         /\ \A z \in Zones : MarkPhase2Sent(g, Z).slot[z] =
                IF z \in Z THEN Phase2Sent(g.slot[z]) ELSE g.slot[z]
BY DEF Good, FireRecord, MarkPhase2Sent, Starts

LEMMA Phase2SentIs ==
  ASSUME NEW s \in Slot
  PROVE  /\ Phase2Sent(s).phase2_sent /\ ~Phase2Sent(s).launch_stopped
         /\ ~Phase2Sent(s).extinguish_aborted
BY DEF Phase2Sent, Slot

\* Slots of active zones are marked as launched.
LEMMA MarkSound ==
  ASSUME NEW g, Sound(g), NEW Z, \A z \in Z : Active(g, z)
  PROVE  Sound(MarkPhase2Sent(g, Z))
<1> DEFINE h == MarkPhase2Sent(g, Z)
<1>1. Good(g)
  BY DEF Sound
<1>2. Good(h)
  BY <1>1, MarkPhase2SentOK DEF OnSlots
<1>3. /\ h.start_retry = g.start_retry /\ h.table = g.table
      /\ \A z \in Zones : h.slot[z] = IF z \in Z THEN Phase2Sent(g.slot[z]) ELSE g.slot[z]
  BY <1>1, MarkOrders
<1>4. \A z \in Zones : Phase2Sent(g.slot[z]).launch_stopped = FALSE
  BY <1>1, SlotOK, Phase2SentIs, Phase2SentOK DEF Slot
<1>5. g.start_retry \subseteq Zones
  BY <1>1 DEF Good, FireRecord
<1> HIDE DEF h
<1>6. Halted(h)
  BY <1>3, <1>4 DEF Sound, Halted
<1>7. Hushed(h)
  BY <1>3, <1>4, <1>5 DEF Sound, Hushed, Active
<1> QED BY <1>2, <1>6, <1>7 DEF Sound, h

\* Phase 2 is sent to active zones.
LEMMA LaunchSound ==
  ASSUME NEW g, Sound(g), NEW Z \in SUBSET Zones, \A z \in Z : Active(g, z)
  PROVE  Sound(Launch(g, Z))
<1> DEFINE go == {z \in Z : Launchable(g, z)}
           q == QueueStart(g, go)
           h == MarkPhase2Sent(q, go)
<1>1. Good(g) /\ go \in SUBSET Zones /\ \A z \in go : Active(g, z)
  BY DEF Sound
<1>2. Launch(g, Z) = h
  BY DEF Launch
<1> HIDE DEF go
<1>3. /\ Good(q) /\ q.slot = g.slot /\ q.table = g.table
      /\ q.start_retry \subseteq g.start_retry \cup go
  BY <1>1, QueueStartOK, QueueStartOrders DEF Aside, OnSlots
<1> HIDE DEF q
<1>4. \A z \in go : Active(q, z)
  BY <1>1, <1>3 DEF Active
<1>5. Good(h) 
  BY <1>3, <1>4, MarkPhase2SentOK DEF OnSlots
<1>6. /\ h.start_retry = q.start_retry /\ h.table = q.table
      /\ \A z \in Zones : h.slot[z] = IF z \in go THEN Phase2Sent(q.slot[z]) ELSE q.slot[z]
  BY <1>3, MarkOrders
<1>7. \A z \in Zones : Phase2Sent(q.slot[z]).launch_stopped = FALSE
  BY <1>3, SlotOK, Phase2SentIs, Phase2SentOK DEF Slot
<1>8. g.start_retry \subseteq Zones
  BY <1>1 DEF Good, FireRecord
<1> HIDE DEF h
<1>9. Halted(h)
  BY <1>3, <1>6, <1>7 DEF Sound, Halted
<1>10. Hushed(h)
  BY <1>1, <1>3, <1>6, <1>7, <1>8 DEF Sound, Hushed, Active
<1> QED BY <1>2, <1>5, <1>9, <1>10 DEF Sound

\* Only a zone that was not launched, or whose launch was aborted and taken up
\* again, is launched.
LEMMA LaunchLed ==
  ASSUME NEW f, NEW g, Good(g), Led(f, g),
         NEW Z \in SUBSET Zones, \A z \in Z : Active(g, z)
  PROVE  Led(f, Launch(g, Z))
<1> DEFINE go == {z \in Z : Launchable(g, z)}
           q == QueueStart(g, go)
           h == MarkPhase2Sent(q, go)
<1>1. /\ go \in SUBSET Zones /\ \A z \in go : Active(g, z)
      /\ \A z \in go : ~g.slot[z].extinguish_locked
  BY DEF Launchable
<1>2. Launch(g, Z) = h
  BY DEF Launch
<1> HIDE DEF go
<1>3. /\ Good(q) /\ q.slot = g.slot /\ q.table = g.table
      /\ Starts(q) \subseteq Starts(g) \cup go
  BY <1>1, QueueStartOK, QueueStartOrders DEF Aside, OnSlots
<1> HIDE DEF q
<1>4. /\ Starts(h) = Starts(q) /\ h.table = q.table
      /\ \A z \in Zones : h.slot[z] = IF z \in go THEN Phase2Sent(q.slot[z]) ELSE q.slot[z]
  BY <1>3, MarkOrders
<1>5. \A z \in Zones : Phase2Sent(q.slot[z]).phase2_sent
  BY <1>3, SlotOK, Phase2SentIs
<1>6. \A z \in go : ~g.slot[z].phase2_sent
  BY <1>1, SlotOK DEF SlotConsistent
<1>7. \A z \in Zones : Active(h, z) <=> Active(g, z)
  BY <1>3, <1>4 DEF Active
<1> HIDE DEF h
<1>8. Led(f, h)
  <2> SUFFICES ASSUME NEW z \in Zones, f.slot[z].phase2_sent
               PROVE  /\ z \in Starts(h) \/ MayRetry(h.slot[z])
                           => MayRetry(f.slot[z]) \/ f.slot[z].extinguish_aborted
                      /\ ~h.slot[z].phase2_sent
                           => ~Active(h, z) \/ f.slot[z].extinguish_aborted
    BY DEF Led
  <2>1. CASE z \in go
    BY <1>1, <1>6, <2>1 DEF Led
  <2>2. CASE z \notin go
    BY <1>3, <1>4, <1>7, <2>2 DEF Led
  <2> QED BY <2>1, <2>2
<1> QED BY <1>2, <1>8
-----------------------------------------------------------------------------
(* The tail of Fire_Transition. *)

LEMMA AutoDeadlinesSound ==
  ASSUME NEW f, NEW g, Sound(g), Bound(f, g)
  PROVE  Sound(ProcessAutoDeadlines(g)) /\ Bound(f, ProcessAutoDeadlines(g))
<1> DEFINE due == {z \in Zones : Due(g, z) /\ Launchable(g, z)}
           l == Launch(g, due)
           h == [l EXCEPT !.start_latched = TRUE]
<1>1. due \in SUBSET Zones /\ \A z \in due : Active(g, z)
  BY DEF Due
<1>2. ProcessAutoDeadlines(g) = g \/ ProcessAutoDeadlines(g) = h
  BY DEF ProcessAutoDeadlines
<1> HIDE DEF due
<1>3. Sound(l) /\ Led(f, l)
  BY <1>1, LaunchSound, LaunchLed DEF Bound, Sound
<1> HIDE DEF l
<1>4. /\ h.table = l.table /\ h.slot = l.slot /\ h.sent = l.sent
      /\ h.start_retry = l.start_retry /\ h.start_latched = TRUE /\ h.state = l.state
      /\ h \in FireRecord
  BY <1>3 DEF Sound, Good, FireRecord
<1> HIDE DEF h
<1>5. Good(h)
  BY <1>3, <1>4, KeptOK DEF Sound
<1>6. NoMore(l, h) /\ Starts(h) = Starts(l)
  BY <1>4 DEF NoMore, Starts
<1>7. Sound(h)
  BY <1>3, <1>4, <1>5, <1>6, Sideways
<1>8. Led(f, h)
  BY <1>3, <1>4, <1>6 DEF Led, Active
<1>9. Bound(f, h)
  BY <1>4, <1>8, LatchedIsBound
<1> QED BY <1>2, <1>7, <1>9

LEMMA RetriedIs ==
  ASSUME NEW s \in Slot, ~s.ext_retry_failed
  PROVE  /\ MayRetry(Retried(s)) => MayRetry(s)
         /\ Retried(s).phase2_sent = s.phase2_sent
         /\ Retried(s).launch_stopped = s.launch_stopped
<1>1. CASE s.ext_retry_attempts >= MaxAttempts
  BY <1>1 DEF Retried, Slot, MayRetry
<1>2. CASE ~(s.ext_retry_attempts >= MaxAttempts)
  <2> DEFINE n == s.ext_retry_attempts + 1
             e == n >= MaxAttempts
             r == [s EXCEPT !.ext_retry_attempts = n, !.ext_retry_left = Grace,
                            !.ext_retry_failed = e]
  <2>1. /\ n \in Nat /\ e \in BOOLEAN /\ s.ext_retry_attempts \in Nat /\ MaxAttempts \in Nat
    BY BoundsAssumption DEF Slot
  <2>2. Retried(s) = r
    BY <1>2 DEF Retried
  <2>3. s.ext_retry_attempts < MaxAttempts
    BY <1>2, <2>1
  <2> HIDE DEF n, e
  <2>4. /\ r.phase2_sent = s.phase2_sent /\ r.launch_stopped = s.launch_stopped
        /\ r.extinguish_aborted = s.extinguish_aborted /\ r.ext_retry_failed = e
    BY DEF Slot
  <2> HIDE DEF r
  <2>5. MayRetry(r) => s.phase2_sent /\ ~s.extinguish_aborted /\ ~e
    BY <2>4 DEF MayRetry
  <2>6. MayRetry(r) => MayRetry(s)
    BY <2>3, <2>5 DEF MayRetry
  <2> QED BY <2>2, <2>4, <2>6
<1> QED BY <1>1, <1>2

LEMMA RetriesSound ==
  ASSUME NEW f, NEW g, Sound(g), Bound(f, g)
  PROVE  Sound(ProcessExtinguishRetries(g)) /\ Bound(f, ProcessExtinguishRetries(g))
<1> DEFINE due == {z \in Zones : RetryDue(g, z)}
           again == {z \in due : g.slot[z].ext_retry_attempts < MaxAttempts}
           q == QueueStart(g, again)
           s == [z \in Zones |-> IF z \in due THEN Retried(q.slot[z]) ELSE q.slot[z]]
           h == [q EXCEPT !.slot = s]
<1>1. /\ due \subseteq Zones /\ again \in SUBSET Zones
      /\ \A z \in due : /\ Active(g, z) /\ g.slot[z].phase2_sent
                        /\ ~g.slot[z].ext_retry_failed
      /\ \A z \in again : Active(g, z) /\ MayRetry(g.slot[z])
  BY DEF RetryDue, MayRetry
<1>2. ProcessExtinguishRetries(g) = g \/ ProcessExtinguishRetries(g) = h
  BY DEF ProcessExtinguishRetries
<1>3. Good(ProcessExtinguishRetries(g))
  BY ProcessExtinguishRetriesOK DEF Sound, OnSlots
<1> HIDE DEF due, again
<1>4. /\ Good(q) /\ q.slot = g.slot /\ q.table = g.table
      /\ Starts(q) \subseteq Starts(g) \cup again
      /\ q.start_retry \subseteq g.start_retry \cup again
      /\ q.start_latched = g.start_latched
  BY <1>1, QueueStartOK, QueueStartOrders DEF Sound, Aside, OnSlots
<1> HIDE DEF q
<1>5. /\ h.table = g.table /\ h.start_latched = g.start_latched
      /\ Starts(h) \subseteq Starts(g) \cup again
      /\ h.start_retry \subseteq g.start_retry \cup again
      /\ \A z \in Zones : h.slot[z] = IF z \in due THEN Retried(g.slot[z]) ELSE g.slot[z]
  BY <1>4 DEF Good, FireRecord, Starts
<1> HIDE DEF h, s
<1>6. \A z \in Zones : /\ MayRetry(h.slot[z]) => MayRetry(g.slot[z])
                       /\ h.slot[z].phase2_sent = g.slot[z].phase2_sent
                       /\ h.slot[z].launch_stopped = g.slot[z].launch_stopped
  BY <1>1, <1>5, SlotOK, RetriedIs DEF Sound
<1>7. \A z \in Zones : Active(h, z) <=> Active(g, z)
  BY <1>5 DEF Active
<1>8. Halted(h)
  BY <1>6 DEF Sound, Halted
<1>9. Hushed(h)
  <2>1. g.start_retry \subseteq Zones
    BY DEF Sound, Good, FireRecord
  <2>2. \A z \in again : Active(g, z) /\ ~g.slot[z].launch_stopped
    BY <1>1 DEF Sound, Halted
  <2> QED BY <1>1, <1>5, <1>6, <1>7, <2>1, <2>2 DEF Sound, Hushed
<1>10. \A z \in Zones : z \in Starts(h) \/ MayRetry(h.slot[z])
                          => z \in Starts(g) \/ MayRetry(g.slot[z])
  BY <1>1, <1>5, <1>6
<1>11. Led(f, h)
  BY <1>6, <1>7, <1>10 DEF Bound, Led
<1>12. Bound(f, h)
  BY <1>5, <1>10, <1>11 DEF Bound
<1> QED BY <1>2, <1>3, <1>8, <1>9, <1>12 DEF Sound

LEMMA SyncSound ==
  ASSUME NEW f, NEW g, Sound(g)
  PROVE  /\ Sound(SyncStateFromSlots(g))
         /\ Bound(f, g) => Bound(f, SyncStateFromSlots(g))
         /\ Calm(f, g) => Calm(f, SyncStateFromSlots(g))
<1> DEFINE h == SyncStateFromSlots(g)
<1>1. Good(h)
  BY SyncOK DEF Sound, OnSlots
<1>2. SameButState(g, h)
  BY DEF Sound, Good, FireRecord, SyncStateFromSlots, SameButState
<1> HIDE DEF h
<1>3. Sound(h) /\ (Bound(f, g) => Bound(f, h)) /\ (Calm(f, g) => Calm(f, h))
  BY <1>1, <1>2, StateApart
<1> QED BY <1>3 DEF h

LEMMA SettleSound ==
  ASSUME NEW f, NEW g, Sound(g), Bound(f, g)
  PROVE  Sound(Settle(g)) /\ Bound(f, Settle(g))
<1> DEFINE a == ProcessAutoDeadlines(g)
           b == ProcessExtinguishRetries(a)
<1>1. Sound(a) /\ Bound(f, a)
  BY AutoDeadlinesSound
<1> HIDE DEF a
<1>2. Sound(b) /\ Bound(f, b)
  BY <1>1, RetriesSound
<1> HIDE DEF b
<1> QED BY <1>2, SyncSound DEF Settle, a, b

\* A START was asked for.
LEMMA StartedSound ==
  ASSUME NEW f, NEW g, Sound(g), Led(f, g)
  PROVE  Sound(Started(g)) /\ Bound(f, Started(g))
<1> DEFINE h == [g EXCEPT !.start_latched = TRUE]
<1>1. /\ h.table = g.table /\ h.slot = g.slot /\ h.sent = g.sent
      /\ h.start_retry = g.start_retry /\ h.start_latched = TRUE
      /\ h \in FireRecord
  BY DEF Sound, Good, FireRecord
<1>2. Started(g) = SyncStateFromSlots(h)
  BY DEF Started
<1> HIDE DEF h
<1>3. Good(h) /\ NoMore(g, h) /\ Starts(h) = Starts(g)
  BY <1>1, KeptOK DEF Sound, NoMore, Starts
<1>4. Sound(h)
  BY <1>1, <1>3, Sideways
<1>5. Bound(f, h)
  <2>1. Led(f, h)
    BY <1>1, <1>3 DEF Led, Active
  <2> QED BY <1>1, <2>1, LatchedIsBound
<1> QED BY <1>2, <1>4, <1>5, SyncSound
-----------------------------------------------------------------------------
(* The operators that launch nothing. *)

\* Every handler begins with the orders of the one before forgotten.
LEMMA QuietSound ==
  ASSUME NEW f, Sound(f)
  PROVE  Sound(Quiet(f)) /\ Calm(f, Quiet(f))
<1> DEFINE h == Quiet(f)
<1>1. /\ Starts(h) = {} /\ h.start_retry = f.start_retry
      /\ h.slot = f.slot /\ h.table = f.table /\ Good(h)
  BY QuietOrders, QuietOK DEF Sound, Aside, OnSlots
<1> HIDE DEF h
<1>2. NoMore(f, h)
  BY <1>1 DEF NoMore
<1>3. Sound(h)
  BY <1>1, <1>2, Sideways
<1>4. Calm(f, h)
  BY <1>1 DEF Calm
<1> QED BY <1>3, <1>4 DEF h

LEMMA QueueSound ==
  ASSUME NEW f, NEW g, Sound(g), NEW k \in Kind \ {"START"}, NEW Z \in SUBSET Zones
  PROVE  /\ Sound(Queue(g, k, Z))
         /\ Calm(f, g) => Calm(f, Queue(g, k, Z))
<1> DEFINE h == Queue(g, k, Z)
<1>1. Good(h) /\ NoMore(g, h) /\ h.slot = g.slot /\ h.table = g.table
  BY QueueOK, QueueOrders DEF Sound, Aside, OnSlots
<1> HIDE DEF h
<1>2. Sound(h) /\ (Calm(f, g) => Calm(f, h))
  BY <1>1, Sideways
<1> QED BY <1>2 DEF h

LEMMA CancelSound ==
  ASSUME NEW f, NEW g, Sound(g)
  PROVE  /\ Sound(CancelStarts(g))
         /\ Calm(f, g) => Calm(f, CancelStarts(g))
<1> DEFINE h == CancelStarts(g)
<1>1. Good(h) /\ NoMore(g, h) /\ h.slot = g.slot /\ h.table = g.table
  BY CancelStartsOK, CancelOrders DEF Sound, Aside, OnSlots
<1> HIDE DEF h
<1>2. Sound(h) /\ (Calm(f, g) => Calm(f, h))
  BY <1>1, Sideways
<1> QED BY <1>2 DEF h

LEMMA SuppressSound ==
  ASSUME NEW f, NEW g, Sound(g), NEW z \in Zones
  PROVE  /\ Sound(SuppressSlot(g, z))
         /\ Calm(f, g) => Calm(f, SuppressSlot(g, z))
<1> DEFINE h == SuppressSlot(g, z)
<1>1. Good(h) /\ h.slot = g.slot /\ h.table = g.table
  BY SuppressSlotOK DEF Sound, Aside, OnSlots
<1>2. NoMore(g, h)
  BY DEF Sound, Good, FireRecord, SuppressSlot, NoMore, Starts
<1> HIDE DEF h
<1>3. Sound(h) /\ (Calm(f, g) => Calm(f, h))
  BY <1>1, <1>2, Sideways
<1> QED BY <1>3 DEF h

\* The slots are written.
LEMMA WriteSound ==
  ASSUME NEW f, NEW g, Sound(g), NEW s \in [Zones -> Slot],
         \A z \in Zones :
           \/ s[z] = g.slot[z]
           \/ /\ Active(g, z) /\ SlotConsistent(s[z]) /\ Mild(g.slot[z], s[z])
              /\ s[z].launch_stopped => g.slot[z].launch_stopped \/ z \notin g.start_retry
  PROVE  /\ Sound([g EXCEPT !.slot = s])
         /\ Calm(f, g) => Calm(f, [g EXCEPT !.slot = s])
<1> DEFINE h == [g EXCEPT !.slot = s]
<1>1. Good(h) /\ h.table = g.table
  BY WriteOK DEF Sound
<1>2. h.slot = s /\ NoMore(g, h) /\ h.start_retry = g.start_retry
  BY DEF Sound, Good, FireRecord, NoMore, Starts
<1> HIDE DEF h
<1>3. \A z \in Zones : Mild(g.slot[z], g.slot[z])
  BY DEF Sound, Halted, Mild
<1>4. Sound(h) /\ (Calm(f, g) => Calm(f, h))
  BY <1>1, <1>2, <1>3, Gentle
<1> QED BY <1>4 DEF h

LEMMA WriteOneSound ==
  ASSUME NEW f, NEW g, Sound(g), NEW z \in Zones, NEW s \in Slot,
         Active(g, z), SlotConsistent(s), Mild(g.slot[z], s),
         s.launch_stopped => g.slot[z].launch_stopped \/ z \notin g.start_retry
  PROVE  /\ Sound([g EXCEPT !.slot[z] = s])
         /\ Calm(f, g) => Calm(f, [g EXCEPT !.slot[z] = s])
<1> DEFINE t == [g.slot EXCEPT ![z] = s]
<1>1. g.slot \in [Zones -> Slot]
  BY DEF Sound, Good, FireRecord
<1>2. [g EXCEPT !.slot[z] = s] = [g EXCEPT !.slot = t]
  BY DEF Sound, Good, FireRecord
<1>3. t \in [Zones -> Slot] /\ t[z] = s /\ \A y \in Zones \ {z} : t[y] = g.slot[y]
  BY <1>1
<1> HIDE DEF t
<1>4. /\ Sound([g EXCEPT !.slot = t])
      /\ Calm(f, g) => Calm(f, [g EXCEPT !.slot = t])
  BY <1>3, WriteSound
<1> QED BY <1>2, <1>4

LEMMA RetriesOverIs ==
  ASSUME NEW s \in Slot
  PROVE  /\ ~MayRetry(RetriesOver(s))
         /\ RetriesOver(s).phase2_sent = s.phase2_sent
         /\ RetriesOver(s).launch_stopped = s.launch_stopped
         /\ RetriesOver(s).extinguish_aborted = s.extinguish_aborted
<1>1. ~(MaxAttempts < MaxAttempts)
  BY BoundsAssumption
<1> QED BY <1>1 DEF RetriesOver, Slot, MayRetry

LEMMA AbortAllSound ==
  ASSUME NEW f, NEW g, Sound(g)
  PROVE  /\ Sound(AbortRetriesAll(g))
         /\ Calm(f, g) => Calm(f, AbortRetriesAll(g))
<1> DEFINE s == [z \in Zones |-> IF Active(g, z) THEN RetriesOver(g.slot[z]) ELSE g.slot[z]]
<1>1. Good(g)
  BY DEF Sound
<1>2. s \in [Zones -> Slot]
  BY <1>1, SlotOK, RetriesOverOK
<1>3. \A z \in Zones :
         \/ s[z] = g.slot[z]
         \/ /\ Active(g, z) /\ SlotConsistent(s[z]) /\ Mild(g.slot[z], s[z])
            /\ s[z].launch_stopped => g.slot[z].launch_stopped
  BY <1>1, SlotOK, RetriesOverOK, RetriesOverIs DEF Mild
<1>4. AbortRetriesAll(g) = [g EXCEPT !.slot = s]
  BY DEF AbortRetriesAll
<1> HIDE DEF s
<1> QED BY <1>2, <1>3, <1>4, WriteSound

\* One slot has its retries ended and perhaps its launch stopped, with no START
\* left in the pool.
LEMMA SendStopZoneSound ==
  ASSUME NEW f, NEW g, Sound(g), NEW z \in Zones
  PROVE  /\ Sound(SendStopZone(g, z))
         /\ Calm(f, g) => Calm(f, SendStopZone(g, z))
         /\ SendStopZone(g, z).start_retry = {}
<1> DEFINE c == CancelStarts(g)
           q == Queue(c, "STOP", {z})
           s == [RetriesOver(q.slot[z]) EXCEPT !.fire1_waiting = FALSE]
           t == [s EXCEPT !.launch_stopped = TRUE]
           h == [q EXCEPT !.slot[z] = t]
<1>1. Sound(c) /\ (Calm(f, g) => Calm(f, c)) /\ c.start_retry = {} /\ c.table = g.table
  BY CancelSound, CancelOrders DEF Sound
<1> HIDE DEF c
<1>2. /\ Sound(q) /\ (Calm(f, g) => Calm(f, q)) /\ q.table = g.table
      /\ q.start_retry \subseteq {}
  BY <1>1, QueueSound, QueueOrders DEF Kind, NoMore, Sound
<1>3. SendStopZone(g, z) = IF Active(g, z) THEN h ELSE q
  <2>1. SendStopZone(g, z) = LET a == AbortRetriesForZone(q, z)
                             IN  IF Active(g, z) THEN [a EXCEPT !.slot[z].launch_stopped = TRUE]
                                 ELSE a
    BY DEF SendStopZone, q, c
  <2>2. Active(q, z) <=> Active(g, z)
    BY <1>2 DEF Active
  <2>3. CASE Active(g, z)
    <3>1. AbortRetriesForZone(q, z) = [q EXCEPT !.slot[z] = s]
      BY <2>2, <2>3, <1>2 DEF AbortRetriesForZone, Sound, Good, FireRecord
    <3> QED BY <1>2, <2>1, <2>3, <3>1 DEF Sound, Good, FireRecord
  <2>4. CASE ~Active(g, z)
    BY <2>1, <2>2, <2>4 DEF AbortRetriesForZone
  <2> QED BY <2>3, <2>4
<1> HIDE DEF q
<1>4. q.slot[z] \in Slot /\ SlotConsistent(q.slot[z])
  BY <1>2, SlotOK DEF Sound
<1>5. RetriesOver(q.slot[z]) \in Slot /\ SlotConsistent(RetriesOver(q.slot[z]))
  BY <1>4, RetriesOverOK
<1>6. t \in Slot /\ SlotConsistent(t) /\ Mild(q.slot[z], t)
  <2> DEFINE r == RetriesOver(q.slot[z])
  <2>1. /\ ~MayRetry(r) /\ r.phase2_sent = q.slot[z].phase2_sent
        /\ r.extinguish_aborted = q.slot[z].extinguish_aborted
    BY <1>4, RetriesOverIs
  <2>2. r \in Slot /\ SlotConsistent(r)
    BY <1>5
  <2> HIDE DEF r
  <2>3. /\ s \in Slot /\ SlotConsistent(s) /\ s.phase2_sent = r.phase2_sent
        /\ s.extinguish_aborted = r.extinguish_aborted
        /\ s.ext_retry_failed = r.ext_retry_failed
        /\ s.ext_retry_attempts = r.ext_retry_attempts /\ ~s.fire1_waiting
    BY <2>2 DEF Slot, SlotConsistent, r
  <2> HIDE DEF s
  <2>4. /\ t \in Slot /\ SlotConsistent(t) /\ t.phase2_sent = r.phase2_sent
        /\ t.extinguish_aborted = r.extinguish_aborted
        /\ t.ext_retry_failed = r.ext_retry_failed
        /\ t.ext_retry_attempts = r.ext_retry_attempts
    BY <2>3 DEF Slot, SlotConsistent
  <2> HIDE DEF t
  <2> QED BY <2>1, <2>4 DEF Mild, MayRetry
<1> HIDE DEF s, t
<1>7. CASE Active(g, z)
  <2>1. Active(q, z)
    BY <1>2, <1>7 DEF Active
  <2>2. Sound(h) /\ (Calm(f, q) => Calm(f, h))
    BY <1>2, <1>6, <2>1, WriteOneSound
  <2>3. h.start_retry = q.start_retry
    BY <1>2 DEF Sound, Good, FireRecord
  <2> QED BY <1>2, <1>3, <1>7, <2>2, <2>3
<1>8. CASE ~Active(g, z)
  BY <1>2, <1>3, <1>8
<1> QED BY <1>7, <1>8
-----------------------------------------------------------------------------
(* The events of Fire_Transition. *)

LEMMA StatusFireSound ==
  ASSUME NEW f, NEW g, Sound(g)
  PROVE  /\ Sound(StatusFire(g))
         /\ Calm(f, g) => Calm(f, StatusFire(g))
<1> DEFINE h == StatusFire(g)
<1>1. Good(h) /\ h.table = g.table
  BY StatusFireOK DEF Sound, OnSlots
<1>2. h.slot = g.slot /\ NoMore(g, h)
  BY DEF Sound, Good, FireRecord, StatusFire, NoMore, Starts
<1> HIDE DEF h
<1>3. Sound(h) /\ (Calm(f, g) => Calm(f, h))
  BY <1>1, <1>2, Sideways
<1> QED BY <1>3 DEF h

LEMMA RedisplaySound ==
  ASSUME NEW f, NEW g, Sound(g)
  PROVE  /\ Sound(Redisplay(g))
         /\ Calm(f, g) => Calm(f, Redisplay(g))
<1> DEFINE h == Redisplay(g)
<1>1. Good(h) /\ h.table = g.table
  BY RedisplayOK DEF Sound, OnSlots
<1>2. h.slot = g.slot /\ NoMore(g, h)
  BY DEF Sound, Good, FireRecord, Redisplay, NoMore, Starts
<1> HIDE DEF h
<1>3. Sound(h) /\ (Calm(f, g) => Calm(f, h))
  BY <1>1, <1>2, Sideways
<1> QED BY <1>3 DEF h

LEMMA StopExtSound ==
  ASSUME NEW f, NEW g, Sound(g)
  PROVE  /\ Sound(StopExt(g))
         /\ Calm(f, g) => Calm(f, StopExt(g))
<1> DEFINE c == CancelStarts(g)
           q == Queue(c, "STOP", Zones)
           r == AbortRetriesAll(q)
           h == [r EXCEPT !.zone_countdown_stopped = TRUE,
                          !.zone_countdown_paused = FALSE, !.start_latched = FALSE]
           k == [h EXCEPT !.state = ManualOrAuto]
<1>1. Sound(c) /\ (Calm(f, g) => Calm(f, c))
  BY CancelSound
<1>2. StopExt(g) = h \/ StopExt(g) = k
  BY DEF StopExt, SendStopAll
<1> HIDE DEF c
<1>3. Sound(q) /\ (Calm(f, c) => Calm(f, q))
  BY <1>1, QueueSound DEF Kind
<1> HIDE DEF q
<1>4. Sound(r) /\ (Calm(f, q) => Calm(f, r))
  BY <1>3, AbortAllSound
<1> HIDE DEF r
<1>5. Good(h) /\ h.table = r.table /\ h.slot = r.slot
  BY <1>4, FlagsOK DEF Sound, Aside, OnSlots
<1>6. NoMore(r, h)
  BY <1>4 DEF Sound, Good, FireRecord, NoMore, Starts
<1> HIDE DEF h
<1>7. Sound(h) /\ (Calm(f, r) => Calm(f, h))
  BY <1>4, <1>5, <1>6, Sideways
<1>8. Good(k) /\ k.table = h.table /\ k.slot = h.slot
  BY <1>5, ManualOrAutoOK, StateOK DEF OnSlots
<1>9. NoMore(h, k)
  BY <1>5 DEF Good, FireRecord, NoMore, Starts
<1> HIDE DEF k
<1>10. Sound(k) /\ (Calm(f, h) => Calm(f, k))
  BY <1>7, <1>8, <1>9, Sideways
<1> QED BY <1>1, <1>2, <1>3, <1>4, <1>7, <1>10

LEMMA TakenUpIs ==
  ASSUME NEW s \in Slot, SlotConsistent(s), s.phase2_sent => s.extinguish_aborted
  PROVE  ~TakenUp(s).phase2_sent /\ ~TakenUp(s).launch_stopped
<1> DEFINE u == IF s.extinguish_aborted
                THEN [s EXCEPT !.extinguish_aborted = FALSE, !.phase2_sent = FALSE,
                               !.extinguish_locked = FALSE, !.ext_retry_failed = FALSE]
                ELSE s
<1>1. u \in Slot /\ ~u.phase2_sent
  BY DEF Slot
<1> HIDE DEF u
<1>2. TakenUp(s) = [u EXCEPT !.launch_stopped = FALSE, !.countdown_paused = FALSE]
  BY DEF TakenUp, u
<1> QED BY <1>1, <1>2 DEF Slot

\* A PUSK takes up the slots of Z that wait or were aborted, and launches those
\* the commands reach.
LEMMA Phase2PendingSound ==
  ASSUME NEW f, NEW g, Sound(g), Led(f, g),
         \A z \in Zones : f.slot[z].phase2_sent /\ g.slot[z].extinguish_aborted
                            => f.slot[z].extinguish_aborted,
         NEW Z \in SUBSET Zones
  PROVE  /\ Sound(Phase2Pending(g, Z)) /\ Led(f, Phase2Pending(g, Z))
         /\ \A z \in Zones :
              z \in Starts(Phase2Pending(g, Z)) \/ MayRetry(Phase2Pending(g, Z).slot[z])
              => \/ z \in Z /\ Startable(g, z) /\ Phase2Pending(g, Z).slot[z].phase2_sent
                 \/ z \in Starts(g) \/ MayRetry(g.slot[z])
<1> DEFINE go == {z \in Z : Startable(g, z)}
           s == [z \in Zones |-> IF z \in go THEN TakenUp(g.slot[z]) ELSE g.slot[z]]
           h == [g EXCEPT !.slot = s]
           on == {z \in go : Launchable(h, z)}
           q == QueueStart(h, on)
           l == MarkPhase2Sent(q, on)
<1>1. /\ \A z \in go : Active(g, z) /\ (g.slot[z].phase2_sent => g.slot[z].extinguish_aborted)
      /\ go \in SUBSET Zones
  BY DEF Startable
<1>3. go \subseteq Z /\ \A z \in go : Startable(g, z)
  OBVIOUS
<1>2. Phase2Pending(g, Z) = Launch(h, go) /\ Launch(h, go) = l
  BY DEF Phase2Pending, Launch
<1> HIDE DEF go
<1>4. Good(g)
  BY DEF Sound
<1>5. s \in [Zones -> Slot]
  BY <1>4, SlotOK, TakenUpOK
<1>6. \A z \in go : ~s[z].phase2_sent /\ ~s[z].launch_stopped /\ SlotConsistent(s[z])
  BY <1>1, <1>4, SlotOK, TakenUpIs, TakenUpOK
<1>7. \A z \in Zones \ go : s[z] = g.slot[z]
  OBVIOUS
<1> HIDE DEF s
<1>8. \A z \in Zones : s[z] = g.slot[z] \/ (Active(g, z) /\ SlotConsistent(s[z]))
  BY <1>1, <1>6, <1>7
<1>9. Good(h) /\ h.table = g.table
  BY <1>4, <1>5, <1>8, WriteOK
<1>10. h.slot = s /\ Starts(h) = Starts(g) /\ h.start_retry = g.start_retry
  BY <1>4, <1>5 DEF Good, FireRecord, Starts
<1> HIDE DEF h
<1>11. \A z \in Zones : Active(h, z) <=> Active(g, z)
  BY <1>9 DEF Active
<1>12. Sound(h)
  <2>1. Halted(h)
    BY <1>6, <1>7, <1>10 DEF Sound, Halted, MayRetry
  <2>2. g.start_retry \subseteq Zones
    BY <1>4 DEF Good, FireRecord
  <2>3. Hushed(h)
    BY <1>6, <1>7, <1>10, <1>11, <2>2 DEF Sound, Hushed
  <2> QED BY <1>9, <2>1, <2>3 DEF Sound
<1>13. Led(f, h)
  <2> SUFFICES ASSUME NEW z \in Zones, f.slot[z].phase2_sent
               PROVE  /\ z \in Starts(h) \/ MayRetry(h.slot[z])
                           => MayRetry(f.slot[z]) \/ f.slot[z].extinguish_aborted
                      /\ ~h.slot[z].phase2_sent
                           => ~Active(h, z) \/ f.slot[z].extinguish_aborted
    BY DEF Led
  <2>2. CASE z \notin go
    BY <1>7, <1>10, <1>11, <2>2 DEF Led
  <2>3. CASE z \in go
    <3>1. ~MayRetry(h.slot[z])
      BY <1>6, <1>10, <2>3 DEF MayRetry
    <3>2. ~Active(g, z) \/ f.slot[z].extinguish_aborted
      BY <1>1, <2>3 DEF Led
    <3> QED BY <1>10, <1>11, <3>1, <3>2 DEF Led
  <2> QED BY <2>2, <2>3
<1>14. \A z \in go : Active(h, z)
  BY <1>1, <1>11
<1>15. Sound(l) /\ Led(f, l)
  BY <1>1, <1>2, <1>9, <1>12, <1>13, <1>14, LaunchSound, LaunchLed
<1>16. on \in SUBSET Zones /\ on \subseteq go
  BY <1>1
<1> HIDE DEF on
<1>17. Good(q) /\ q.slot = h.slot /\ Starts(q) \subseteq Starts(h) \cup on
  BY <1>9, <1>16, QueueStartOK, QueueStartOrders DEF Aside, OnSlots
<1> HIDE DEF q
<1>18. /\ Starts(l) = Starts(q)
       /\ \A z \in Zones : l.slot[z] = IF z \in on THEN Phase2Sent(q.slot[z]) ELSE q.slot[z]
  BY <1>17, MarkOrders
<1>19. \A z \in on : z \in Z /\ Startable(g, z) /\ l.slot[z].phase2_sent
  BY <1>3, <1>16, <1>17, <1>18, SlotOK, Phase2SentIs
<1> HIDE DEF l
<1>20. \A z \in Zones \ on : MayRetry(l.slot[z]) => MayRetry(g.slot[z])
  BY <1>6, <1>7, <1>10, <1>17, <1>18 DEF MayRetry
<1> QED BY <1>2, <1>10, <1>15, <1>17, <1>18, <1>19, <1>20

\* PUSK SP: a START was asked for, or nothing was launched.
LEMMA StartSpSound ==
  ASSUME NEW f, Sound(f), NEW sel \in Zones \cup {NoZone}
  PROVE  /\ Sound(StartSp(Quiet(f), sel))
         /\ Bound(f, StartSp(Quiet(f), sel))
<1> DEFINE g == Quiet(f)
<1>1. Sound(g) /\ Calm(f, g) /\ g.slot = f.slot /\ Starts(g) = {}
  BY QuietSound, QuietOrders DEF Sound
<1> HIDE DEF g
<1>2. Led(f, g) /\ Bound(f, g)
  BY <1>1, CalmIsLed, CalmIsBound
<1>3. CASE sel = NoZone
  <2> DEFINE p == Phase2AllPending(g)
  <2>1. Sound(p) /\ Led(f, p)
    BY <1>1, <1>2, Phase2PendingSound DEF Phase2AllPending
  <2>2. StartSp(g, sel) = g \/ StartSp(g, sel) = Started(p)
    BY <1>3 DEF StartSp
  <2> HIDE DEF p
  <2> QED BY <1>1, <1>2, <2>1, <2>2, StartedSound DEF g
<1>4. CASE sel # NoZone
  <2> DEFINE p == Phase2Pending(g, {sel})
  <2>1. /\ Sound(p) /\ Led(f, p)
        /\ \A z \in Zones :
             z \in Starts(p) \/ MayRetry(p.slot[z])
             => (z = sel /\ Startable(g, z) /\ p.slot[z].phase2_sent) \/ MayRetry(f.slot[z])
    BY <1>1, <1>2, <1>4, Phase2PendingSound
  <2>2. StartSp(g, sel) = IF Startable(g, sel) /\ p.slot[sel].phase2_sent THEN Started(p) ELSE p
    BY <1>4 DEF StartSp
  <2> HIDE DEF p
  <2>3. CASE Startable(g, sel) /\ p.slot[sel].phase2_sent
    BY <2>1, <2>2, <2>3, StartedSound DEF g
  <2>4. CASE ~(Startable(g, sel) /\ p.slot[sel].phase2_sent)
    <3>1. \A z \in Zones : z \in Starts(p) \/ MayRetry(p.slot[z]) => MayRetry(f.slot[z])
      BY <2>1, <2>4
    <3>2. Bound(f, p)
      BY <2>1, <3>1 DEF Bound, MayRetry
    <3> QED BY <2>1, <2>2, <2>4, <3>2 DEF g
  <2> QED BY <2>3, <2>4
<1> QED BY <1>3, <1>4
-----------------------------------------------------------------------------
(* A place for every zone. *)

LEMMA RankBelow ==
  ASSUME NEW S \in SUBSET Nat, IsFiniteSet(S), NEW x \in S
  PROVE  Rank(S, x) \in 0 .. Cardinality(S) - 1
<1> DEFINE T == {y \in S : y < x}
<1>1. T \in SUBSET S /\ x \notin T
  BY SMT
<1>2. /\ IsFiniteSet(T) /\ Cardinality(T) <= Cardinality(S)
      /\ Cardinality(T) # Cardinality(S)
  BY <1>1, FS_Subset
<1>3. Cardinality(T) \in Nat /\ Cardinality(S) \in Nat
  BY <1>2, FS_CardinalityType
<1> QED BY <1>2, <1>3 DEF Rank

LEMMA RanksUnique ==
  ASSUME NEW S \in SUBSET Nat, IsFiniteSet(S), NEW x \in S, NEW y \in S,
         Rank(S, x) = Rank(S, y)
  PROVE  x = y
<1>1. ~(x < y) /\ ~(y < x)
  BY RanksDiffer
<1>2. x \in Nat /\ y \in Nat
  OBVIOUS
<1> QED BY <1>1, <1>2

\* Every rank below the number of elements is taken.
LEMMA RankTaken ==
  ASSUME NEW S \in SUBSET Nat, IsFiniteSet(S), NEW n \in Nat, n < Cardinality(S)
  PROVE  \E x \in S : Rank(S, x) = n
<1> DEFINE T == 0 .. Cardinality(S) - 1
           r == [x \in S |-> Rank(S, x)]
<1>1. Cardinality(S) \in Nat
  BY FS_CardinalityType
<1>2. 0 \in Int /\ Cardinality(S) - 1 \in Int /\ ~(0 > Cardinality(S) - 1)
      /\ Cardinality(S) - 1 - 0 + 1 = Cardinality(S)
  BY <1>1
<1>3. IsFiniteSet(T) /\ Cardinality(T) = Cardinality(S)
  BY <1>2, FS_Interval
<1>4. r \in [S -> T]
  BY RankBelow
<1>5. \A x, y \in S : r[x] = r[y] => x = y
  BY RanksUnique
<1>6. n \in T
  BY <1>1
<1> HIDE DEF T, r
<1>7. r \in Injection(S, T)
  BY <1>4, <1>5 DEF Injection, IsInjective
<1>8. r \in Surjection(S, T)
  BY <1>3, <1>7, FS_Injection
<1>9. PICK x \in S : r[x] = n
  BY <1>6, <1>8 DEF Surjection
<1> QED BY <1>9 DEF r

Occupied(g) == Places \ FreePlaces(g)
Engaged(g) == {z \in Zones : Active(g, z)}

\* No more places are occupied than zones have one.
LEMMA PlacesCounted ==
  ASSUME NEW g, Good(g)
  PROVE  /\ IsFiniteSet(Engaged(g)) /\ IsFiniteSet(FreePlaces(g))
         /\ Cardinality(Engaged(g)) \in Nat /\ Cardinality(FreePlaces(g)) \in Nat
         /\ MaxSlots <= Cardinality(FreePlaces(g)) + Cardinality(Engaged(g))
<1> DEFINE t == [i \in Occupied(g) |-> g.table[i]]
<1>1. IsFiniteSet(Engaged(g))
  BY ZonesAssumption, FS_Subset DEF Engaged
<1>2. t \in [Occupied(g) -> Engaged(g)]
  BY DEF Occupied, FreePlaces, Engaged, Active, Good, FireRecord
<1>3. \A i, j \in Occupied(g) : t[i] = t[j] => i = j
  BY DEF Occupied, FreePlaces, Good, Distinct
<1> HIDE DEF t
<1>4. t \in Injection(Occupied(g), Engaged(g))
  BY <1>2, <1>3 DEF Injection, IsInjective
<1>5. /\ IsFiniteSet(Occupied(g))
      /\ Cardinality(Occupied(g)) <= Cardinality(Engaged(g))
  BY <1>1, <1>4, FS_Injection
<1>6. /\ IsFiniteSet(Places) /\ Cardinality(Places) = MaxSlots
  <2>1. 1 \in Int /\ MaxSlots \in Int /\ ~(1 > MaxSlots) /\ MaxSlots - 1 + 1 = MaxSlots
    BY BoundsAssumption
  <2> QED BY <2>1, FS_Interval DEF Places
<1>7. FreePlaces(g) \in SUBSET Places /\ Occupied(g) \in SUBSET Places
      /\ Places = FreePlaces(g) \cup Occupied(g) /\ FreePlaces(g) \cap Occupied(g) = {}
  BY DEF FreePlaces, Occupied
<1>8. IsFiniteSet(FreePlaces(g))
  BY <1>6, <1>7, FS_Subset
<1>9. Cardinality(Places) = Cardinality(FreePlaces(g)) + Cardinality(Occupied(g))
                              - Cardinality(FreePlaces(g) \cap Occupied(g))
  BY <1>5, <1>7, <1>8, FS_Union
<1>10. Cardinality(FreePlaces(g) \cap Occupied(g)) = 0
  BY <1>7, FS_EmptySet
<1>11. /\ Cardinality(Engaged(g)) \in Nat /\ Cardinality(FreePlaces(g)) \in Nat
       /\ Cardinality(Occupied(g)) \in Nat
  BY <1>1, <1>5, <1>8, FS_CardinalityType
<1> QED BY <1>1, <1>5, <1>6, <1>8, <1>9, <1>10, <1>11, BoundsAssumption

\* With a place for every zone, a zone without one finds one.
LEMMA PlaceLeft ==
  ASSUME NEW g, Good(g), Cardinality(Zones) <= MaxSlots, NEW z \in Zones, ~Active(g, z)
  PROVE  FreePlaces(g) # {}
<1>1. Engaged(g) \in SUBSET (Zones \ {z})
  BY DEF Engaged
<1>2. IsFiniteSet(Zones \ {z}) /\ Cardinality(Zones \ {z}) = Cardinality(Zones) - 1
  BY ZonesAssumption, FS_RemoveElement
<1>3. Cardinality(Engaged(g)) <= Cardinality(Zones) - 1
  BY <1>1, <1>2, FS_Subset
<1>4. Cardinality(Zones) \in Nat
  BY ZonesAssumption, FS_CardinalityType
<1>5. Cardinality(FreePlaces(g)) # 0
  BY <1>3, <1>4, PlacesCounted, BoundsAssumption
<1> QED BY <1>5, FS_EmptySet

LEMMA EnsureFits ==
  ASSUME NEW g, Good(g), Cardinality(Zones) <= MaxSlots, NEW Z \in SUBSET Zones, NEW z \in Z
  PROVE  Active(EnsureSlots(g, Z), z)
<1> DEFINE new == {y \in Z : ~Active(g, y)}
           free == FreePlaces(g)
           At(i) == {y \in new : Rank(new, y) = Rank(free, i)}
<1>1. CASE Active(g, z)
  BY <1>1, EnsureSlotsOK
<1>2. CASE ~Active(g, z)
  <2>1. new \in SUBSET Zones /\ new \cap Engaged(g) = {} /\ z \in new
        /\ new \cup Engaged(g) \in SUBSET Zones
    BY <1>2 DEF Engaged
  <2>2. new \in SUBSET Nat /\ IsFiniteSet(new)
    BY <2>1, ZonesAssumption, FS_Subset
  <2>3. \A i \in Places : EnsureSlots(g, Z).table[i] =
              IF i \in free /\ At(i) # {} THEN CHOOSE y \in At(i) : TRUE ELSE g.table[i]
    BY DEF EnsureSlots, Good, FireRecord
  <2>4. free \in SUBSET Nat /\ free \subseteq Places
    BY BoundsAssumption DEF FreePlaces, Places
  <2> HIDE DEF new
  <2>5. /\ IsFiniteSet(Engaged(g)) /\ IsFiniteSet(free)
        /\ Cardinality(Engaged(g)) \in Nat /\ Cardinality(free) \in Nat
        /\ MaxSlots <= Cardinality(free) + Cardinality(Engaged(g))
    BY PlacesCounted
  <2> HIDE DEF free
  <2>6. Cardinality(new \cup Engaged(g)) = Cardinality(new) + Cardinality(Engaged(g))
                                            - Cardinality(new \cap Engaged(g))
    BY <2>2, <2>5, FS_Union
  <2>7. Cardinality(new \cap Engaged(g)) = 0
    BY <2>1, FS_EmptySet
  <2>8. Cardinality(new \cup Engaged(g)) <= Cardinality(Zones)
    BY <2>1, ZonesAssumption, FS_Subset
  <2>9. Cardinality(new) \in Nat /\ Cardinality(Zones) \in Nat
    BY <2>2, ZonesAssumption, FS_CardinalityType
  <2>10. Cardinality(new) <= Cardinality(free)
    BY <2>5, <2>6, <2>7, <2>8, <2>9, BoundsAssumption
  <2>11. Rank(new, z) \in 0 .. Cardinality(new) - 1
    BY <2>1, <2>2, RankBelow
  <2>12. Rank(new, z) \in Nat /\ Rank(new, z) < Cardinality(free)
    BY <2>5, <2>9, <2>10, <2>11
  <2>13. PICK i \in free : Rank(free, i) = Rank(new, z)
    BY <2>4, <2>5, <2>12, RankTaken
  <2>14. At(i) = {z}
    <3>1. z \in At(i)
      BY <2>1, <2>13
    <3>2. ASSUME NEW y \in At(i) PROVE y = z
      <4>1. y \in new /\ Rank(new, y) = Rank(new, z)
        BY <2>13
      <4> QED BY <2>1, <2>2, <4>1, RanksUnique
    <3> HIDE DEF At
    <3> QED BY <3>1, <3>2
  <2> HIDE DEF At
  <2>15. EnsureSlots(g, Z).table[i] = z
    BY <2>3, <2>4, <2>13, <2>14
  <2> QED BY <2>4, <2>13, <2>15 DEF Active
<1> QED BY <1>1, <1>2
-----------------------------------------------------------------------------
(* The operators that give slots. *)

\* A zone launched in f has its slot in g and is launched there.
Firm(f, g) == \A z \in Zones : f.slot[z].phase2_sent => Active(g, z) /\ g.slot[z].phase2_sent

LEMMA QuietFirm ==
  ASSUME NEW f, Sound(f)
  PROVE  Firm(f, Quiet(f))
BY QuietOrders DEF Firm, Sound, Good, Consistent, ZeroSlot, Active

\* More zones have slots.
LEMMA EnsureSound ==
  ASSUME NEW f, NEW g, Sound(g), Firm(f, g), NEW Z \in SUBSET Zones
  PROVE  /\ Sound(EnsureSlots(g, Z)) /\ Firm(f, EnsureSlots(g, Z))
         /\ Calm(f, g) => Calm(f, EnsureSlots(g, Z))
<1> DEFINE h == EnsureSlots(g, Z)
<1>1. Good(h) /\ h.slot = g.slot /\ \A z \in Zones : Active(g, z) => Active(h, z)
  BY EnsureSlotsOK DEF Sound
<1>2. Starts(h) = Starts(g) /\ h.start_retry = g.start_retry
  BY DEF Sound, Good, FireRecord, EnsureSlots, Starts
<1> HIDE DEF h
<1>3. g.start_retry \subseteq Zones
  BY DEF Sound, Good, FireRecord
<1>4. Sound(h)
  BY <1>1, <1>2, <1>3 DEF Sound, Halted, Hushed
<1>5. Firm(f, h)
  BY <1>1 DEF Firm
<1>6. Calm(f, g) => Calm(f, h)
  BY <1>1, <1>2 DEF Calm, Firm
<1> QED BY <1>4, <1>5, <1>6 DEF h

\* Zones not launched before are marked as launched, with no START sent.
LEMMA MarkCalm ==
  ASSUME NEW f, NEW g, Sound(g), Firm(f, g), Calm(f, g), NEW Z,
         \A z \in Z : Active(g, z) /\ ~f.slot[z].phase2_sent
  PROVE  /\ Sound(MarkPhase2Sent(g, Z)) /\ Firm(f, MarkPhase2Sent(g, Z))
         /\ Calm(f, MarkPhase2Sent(g, Z))
<1> DEFINE h == MarkPhase2Sent(g, Z)
<1>1. Sound(h)
  BY MarkSound
<1>2. /\ Starts(h) = Starts(g) /\ h.table = g.table
      /\ \A z \in Zones : h.slot[z] = IF z \in Z THEN Phase2Sent(g.slot[z]) ELSE g.slot[z]
  BY MarkOrders DEF Sound
<1> HIDE DEF h
<1>3. \A z \in Zones : f.slot[z].phase2_sent => h.slot[z] = g.slot[z]
  BY <1>2
<1>4. Firm(f, h)
  BY <1>2, <1>3 DEF Firm, Active
<1>5. Calm(f, h)
  BY <1>2, <1>3 DEF Calm, Active
<1> QED BY <1>1, <1>4, <1>5 DEF h

LEMMA MarkExternalSound ==
  ASSUME NEW f, NEW g, Sound(g), Firm(f, g), Calm(f, g), NEW Z \in SUBSET Zones
  PROVE  /\ Sound(MarkExternal(g, Z)) /\ Firm(f, MarkExternal(g, Z))
         /\ Calm(f, MarkExternal(g, Z))
<1> DEFINE ok == {z \in Z : mode[z] # "blocked" /\ ~g.slot[z].extinguish_locked}
           h == EnsureSlots(g, ok)
           Y == {z \in ok : Active(h, z) /\ ~h.slot[z].phase2_sent}
<1>1. MarkExternal(g, Z) = MarkPhase2Sent(h, Y)
  BY DEF MarkExternal
<1>2. Sound(h) /\ Firm(f, h) /\ Calm(f, h)
  BY EnsureSound
<1>3. \A z \in Y : z \in Zones /\ Active(h, z) /\ ~h.slot[z].phase2_sent
  OBVIOUS
<1> HIDE DEF h, Y
<1>4. \A z \in Y : Active(h, z) /\ ~f.slot[z].phase2_sent
  BY <1>2, <1>3 DEF Firm
<1> QED BY <1>1, <1>2, <1>4, MarkCalm

LEMMA MarkExternalAllSound ==
  ASSUME NEW f, NEW g, Sound(g), Firm(f, g), Calm(f, g)
  PROVE  Sound(MarkExternalAll(g)) /\ Calm(f, MarkExternalAll(g))
<1> DEFINE Z == {z \in Zones : igniters[z] # "offline"}
           h == MarkExternal(g, Z)
           rest == {z \in Z : ~Active(h, z)}
           k == EnsureSlots(h, rest)
           Y == {z \in rest : Active(k, z)}
<1>1. MarkExternalAll(g) = MarkPhase2Sent(k, Y)
  BY DEF MarkExternalAll
<1>2. Sound(h) /\ Firm(f, h) /\ Calm(f, h)
  BY MarkExternalSound
<1>3. rest \in SUBSET Zones /\ \A z \in rest : ~Active(h, z)
  OBVIOUS
<1>4. Y \subseteq rest /\ \A z \in Y : Active(k, z)
  OBVIOUS
<1> HIDE DEF h, rest
<1>5. Sound(k) /\ Firm(f, k) /\ Calm(f, k)
  BY <1>2, <1>3, EnsureSound
<1> HIDE DEF k, Y
<1>6. \A z \in Y : Active(k, z) /\ ~f.slot[z].phase2_sent
  BY <1>2, <1>3, <1>4 DEF Firm
<1> QED BY <1>1, <1>5, <1>6, MarkCalm

\* A START from the bus launches nothing that was launched already.
LEMMA BusStartSound ==
  ASSUME NEW f, NEW g, Sound(g), Firm(f, g), Calm(f, g), NEW z \in Zones \cup {NoZone}
  PROVE  Sound(BusStart(g, z)) /\ Bound(f, BusStart(g, z))
<1> DEFINE h == IF z = NoZone THEN MarkExternalAll(g) ELSE MarkExternal(g, {z})
<1>1. Sound(h) /\ Calm(f, h)
  BY MarkExternalSound, MarkExternalAllSound
<1>2. BusStart(g, z) \in {h, Started(h)}
  BY DEF BusStart
<1> HIDE DEF h
<1> QED BY <1>1, <1>2, CalmIsLed, CalmIsBound, StartedSound

\* PUSK OBSHCHIY sends START to zones that are not locked, with a slot or not.
LEMMA StartAllExistingSound ==
  ASSUME NEW f, Sound(f)
  PROVE  /\ Sound(StartAllExisting(Quiet(f))) /\ Led(f, StartAllExisting(Quiet(f)))
         /\ \A z \in Zones : f.slot[z].phase2_sent =>
              /\ StartAllExisting(Quiet(f)).slot[z] = f.slot[z]
              /\ z \notin Starts(StartAllExisting(Quiet(f)))
<1> DEFINE g == Quiet(f)
           go == {z \in Zones : Launchable(g, z)}
           q == QueueStart(g, go)
           h == EnsureSlots(q, go)
           Y == {z \in go : Active(h, z)}
           l == MarkPhase2Sent(h, Y)
<1>1. StartAllExisting(g) = l
  BY DEF StartAllExisting
<1>2. /\ Sound(g) /\ Starts(g) = {} /\ g.slot = f.slot /\ Firm(f, g) /\ Calm(f, g)
      /\ g.start_retry = f.start_retry
  BY QuietSound, QuietFirm, QuietOrders DEF Sound
<1> HIDE DEF g
<1>3. /\ go \in SUBSET Zones
      /\ \A z \in go : ~f.slot[z].extinguish_locked
  BY <1>2 DEF Launchable
<1>4. \A z \in go : ~f.slot[z].phase2_sent
  BY <1>3, SlotOK DEF Sound, SlotConsistent
<1>5. Y \subseteq go /\ (\A z \in Y : Active(h, z)) /\ \A z \in go : Active(h, z) => z \in Y
  OBVIOUS
<1> HIDE DEF go
<1>6. /\ Good(q) /\ q.slot = f.slot /\ q.table = g.table
      /\ Starts(q) \subseteq go /\ q.start_retry \subseteq g.start_retry \cup go
  BY <1>2, <1>3, QueueStartOK, QueueStartOrders DEF Sound, Aside, OnSlots
<1> HIDE DEF q
<1>7. /\ Good(h) /\ h.slot = f.slot /\ \A z \in Zones : Active(q, z) => Active(h, z)
  BY <1>3, <1>6, EnsureSlotsOK
<1>8. Starts(h) = Starts(q) /\ h.start_retry = q.start_retry
  BY <1>6 DEF Good, FireRecord, EnsureSlots, Starts
<1>9. ASSUME Cardinality(Zones) <= MaxSlots, NEW z \in go
      PROVE  Active(h, z)
  BY <1>3, <1>6, <1>9, EnsureFits
<1> HIDE DEF h, Y
<1>10. /\ Starts(l) = Starts(h) /\ l.start_retry = h.start_retry /\ l.table = h.table
       /\ \A z \in Zones : l.slot[z] = IF z \in Y THEN Phase2Sent(h.slot[z]) ELSE h.slot[z]
  BY <1>7, MarkOrders
<1>11. Good(l)
  BY <1>5, <1>7, MarkPhase2SentOK DEF OnSlots
<1>12. \A z \in Zones : Phase2Sent(h.slot[z]).launch_stopped = FALSE
  BY <1>7, SlotOK, Phase2SentIs, Phase2SentOK DEF Slot
<1> HIDE DEF l
<1>13. \A z \in Zones : f.slot[z].phase2_sent => l.slot[z] = f.slot[z] /\ z \notin Starts(l)
  BY <1>4, <1>5, <1>6, <1>7, <1>8, <1>10
<1>14. \A z \in Zones : Active(g, z) => Active(l, z)
  BY <1>6, <1>7, <1>10 DEF Active
<1>15. Halted(l)
  BY <1>2, <1>7, <1>10, <1>12 DEF Sound, Halted
<1>16. Hushed(l)
  <2> SUFFICES ASSUME Cardinality(Zones) <= MaxSlots, NEW z \in l.start_retry
               PROVE  Active(l, z) /\ ~l.slot[z].launch_stopped
    BY DEF Hushed
  <2>1. z \in Zones
    BY <1>11 DEF Good, FireRecord
  <2>2. CASE z \in go
    BY <1>5, <1>9, <1>10, <1>12, <2>1, <2>2 DEF Active
  <2>3. CASE z \notin go
    <3>1. z \in g.start_retry
      BY <1>6, <1>8, <1>10, <2>3
    <3> QED BY <1>2, <1>5, <1>7, <1>10, <1>14, <2>1, <2>3, <3>1 DEF Sound, Hushed
  <2> QED BY <2>2, <2>3
<1>17. Led(f, l)
  BY <1>13 DEF Led
<1> QED BY <1>1, <1>11, <1>13, <1>15, <1>16, <1>17 DEF Sound, g

LEMMA StartAllSound ==
  ASSUME NEW f, Sound(f)
  PROVE  Sound(StartAll(Quiet(f))) /\ Bound(f, StartAll(Quiet(f)))
<1> DEFINE g == Quiet(f)
           h == StartAllExisting(g)
           p == Phase2AllPending(h)
<1>1. /\ Sound(h) /\ Led(f, h)
      /\ \A z \in Zones : f.slot[z].phase2_sent => h.slot[z] = f.slot[z] /\ z \notin Starts(h)
  BY StartAllExistingSound
<1>2. StartAll(g) \in {Started(p), Started(h), h}
  BY DEF StartAll
<1> HIDE DEF h
<1>3. Sound(p) /\ Led(f, p)
  BY <1>1, Phase2PendingSound DEF Phase2AllPending
<1> HIDE DEF p
<1>4. Bound(f, h)
  BY <1>1 DEF Bound, MayRetry
<1> QED BY <1>1, <1>2, <1>3, <1>4, StartedSound

\* A new fire takes a free place, or the first one of a full table.
LEMMA PutSlotSound ==
  ASSUME NEW f, Sound(f), NEW z \in Zones, NEW s \in Slot, SlotConsistent(s),
         ~Active(f, z), ~s.phase2_sent
  PROVE  Sound(PutSlot(Quiet(f), z, s)) /\ Calm(f, PutSlot(Quiet(f), z, s))
<1> DEFINE g == Quiet(f)
           i == IF FreePlaces(g) = {} THEN 1 ELSE First(FreePlaces(g))
           lost == g.table[i]
           h == PutSlot(g, z, s)
<1>1. /\ Sound(g) /\ Starts(g) = {} /\ g.slot = f.slot /\ Good(g)
      /\ g.start_retry = f.start_retry /\ g.table = f.table
  BY QuietSound, QuietOrders DEF Sound
<1> HIDE DEF g
<1>2. ~Active(g, z) /\ i \in Places /\ \A y \in Zones : Active(g, y) <=> Active(f, y)
  BY <1>1, FirstOK, BoundsAssumption DEF FreePlaces, Places, Active
<1>3. Good(h)
  BY <1>1, <1>2, PutSlotOK
<1>4. Cardinality(Zones) <= MaxSlots => lost = NoZone
  BY <1>1, <1>2, PlaceLeft, FirstOK, BoundsAssumption DEF FreePlaces, Places
<1> HIDE DEF i
<1>5. /\ h.table = [g.table EXCEPT ![i] = z]
      /\ \A y \in Zones : h.slot[y] = IF y = z THEN s ELSE IF y = lost THEN ZeroSlot ELSE f.slot[y]
      /\ Starts(h) = {} /\ h.start_retry = g.start_retry
  BY <1>1, <1>2 DEF Good, FireRecord, PutSlot, Starts, i
<1> HIDE DEF h
<1>6. Active(h, z) /\ \A y \in Zones : Active(g, y) /\ y # lost => Active(h, y)
  BY <1>1, <1>2, <1>5 DEF Active, Good, FireRecord
<1>7. lost \in Zones => ~Active(h, lost)
  <2> SUFFICES ASSUME lost \in Zones, NEW j \in Places, h.table[j] = lost
               PROVE  FALSE
    BY DEF Active
  <2>1. lost # z
    BY <1>2 DEF Active
  <2>2. g.table \in [Places -> Zones \cup {NoZone}]
    BY <1>1 DEF Good, FireRecord
  <2>3. j # i /\ g.table[j] = g.table[i]
    BY <1>2, <1>5, <2>1, <2>2
  <2> QED BY <1>1, <1>2, <2>3, ZonesAssumption DEF Good, Distinct
<1>8. ~MayRetry(s) /\ ~MayRetry(ZeroSlot) /\ ~ZeroSlot.phase2_sent /\ ZeroSlot.launch_stopped = FALSE
  BY DEF MayRetry, ZeroSlot
<1>9. Halted(h)
  BY <1>1, <1>5, <1>8 DEF Sound, Halted
<1>10. Hushed(h)
  <2> SUFFICES ASSUME Cardinality(Zones) <= MaxSlots, NEW y \in h.start_retry
               PROVE  Active(h, y) /\ ~h.slot[y].launch_stopped
    BY DEF Hushed
  <2>1. y \in Zones /\ y \in g.start_retry /\ lost = NoZone
    BY <1>3, <1>4, <1>5 DEF Good, FireRecord
  <2>2. Active(g, y) /\ ~g.slot[y].launch_stopped
    BY <1>1, <2>1 DEF Sound, Hushed
  <2>3. y # z /\ y # lost
    BY <1>2, <2>1, <2>2, ZonesAssumption
  <2> QED BY <1>1, <1>5, <1>6, <2>1, <2>2, <2>3
<1>11. Calm(f, h)
  <2> SUFFICES ASSUME NEW y \in Zones, f.slot[y].phase2_sent
               PROVE  /\ ~h.slot[y].phase2_sent => ~Active(h, y)
                      /\ MayRetry(h.slot[y]) => MayRetry(f.slot[y])
                      /\ h.slot[y].phase2_sent /\ f.slot[y].extinguish_aborted
                           => h.slot[y].extinguish_aborted
    BY <1>5 DEF Calm
  <2>1. y # z
    BY <1>8 DEF Sound, Good, Consistent
  <2> QED BY <1>5, <1>7, <1>8, <2>1
<1> QED BY <1>3, <1>9, <1>10, <1>11 DEF Sound, h, g
-----------------------------------------------------------------------------
(* The operators that launch nothing. *)

\* A slot written without a change of what its retries depend on.
LEMMA EvenIsMild ==
  ASSUME NEW g, Sound(g), NEW z \in Zones, NEW t,
         t.phase2_sent = g.slot[z].phase2_sent,
         t.launch_stopped = g.slot[z].launch_stopped,
         t.extinguish_aborted = g.slot[z].extinguish_aborted,
         MayRetry(t) => MayRetry(g.slot[z])
  PROVE  Mild(g.slot[z], t)
BY DEF Mild, Sound, Halted

LEMMA UnlatchedSound ==
  ASSUME NEW f, NEW g, Sound(g), NEW a \in BOOLEAN, NEW b \in BOOLEAN, NEW c \in BOOLEAN
  PROVE  LET h == [g EXCEPT !.zone_countdown_stopped = a,
                            !.zone_countdown_paused = b, !.start_latched = c]
         IN  /\ Sound(h) /\ h.slot = g.slot /\ h.table = g.table
             /\ Calm(f, g) => Calm(f, h)
<1> DEFINE h == [g EXCEPT !.zone_countdown_stopped = a,
                          !.zone_countdown_paused = b, !.start_latched = c]
<1>0. Good(g) /\ Aside(g, h)
  BY FlagsOK DEF Sound
<1>2. NoMore(g, h)
  BY DEF Sound, Good, FireRecord, NoMore, Starts
<1> HIDE DEF h
<1>1. Good(h) /\ h.slot = g.slot /\ h.table = g.table
  BY <1>0 DEF Aside, OnSlots
<1>3. Sound(h) /\ (Calm(f, g) => Calm(f, h))
  BY <1>1, <1>2, Sideways
<1> QED BY <1>1, <1>3 DEF h

LEMMA PauseResumeIs ==
  ASSUME NEW s \in Slot
  PROVE  /\ PauseSlot(s).phase2_sent = s.phase2_sent
         /\ PauseSlot(s).launch_stopped = s.launch_stopped
         /\ PauseSlot(s).extinguish_aborted = s.extinguish_aborted
         /\ MayRetry(PauseSlot(s)) => MayRetry(s)
         /\ ResumeSlot(s).phase2_sent = s.phase2_sent
         /\ ResumeSlot(s).launch_stopped = s.launch_stopped
         /\ ResumeSlot(s).extinguish_aborted = s.extinguish_aborted
         /\ MayRetry(ResumeSlot(s)) => MayRetry(s)
BY DEF PauseSlot, ResumeSlot, Slot, MayRetry

LEMMA PauseZoneSound ==
  ASSUME NEW f, NEW g, Sound(g), Calm(f, g), NEW z \in Zones, Active(g, z), Waiting(g, z)
  PROVE  Sound(PauseZone(g, z)) /\ Calm(f, PauseZone(g, z))
<1> DEFINE s == PauseSlot(g.slot[z])
           h == [g EXCEPT !.slot[z] = s]
<1>1. s \in Slot /\ SlotConsistent(s)
  BY SlotOK, PauseResumeSlotOK DEF Waiting, Sound
<1>2. Mild(g.slot[z], s) /\ s.launch_stopped = g.slot[z].launch_stopped
  BY SlotOK, PauseResumeIs, EvenIsMild DEF Sound
<1> HIDE DEF s
<1>3. Sound(h) /\ Calm(f, h)
  BY <1>1, <1>2, WriteOneSound
<1>4. PauseZone(g, z) \in {g, Queue(h, "PAUSE", {z})}
  BY DEF PauseZone, s
<1> HIDE DEF h
<1> QED BY <1>3, <1>4, QueueSound DEF Kind

LEMMA ResumeZoneSound ==
  ASSUME NEW f, NEW g, Sound(g), Calm(f, g), NEW z \in Zones, Active(g, z)
  PROVE  Sound(ResumeZone(g, z)) /\ Calm(f, ResumeZone(g, z))
<1> DEFINE s == ResumeSlot(g.slot[z])
           h == [g EXCEPT !.slot[z] = s]
<1>1. s \in Slot /\ SlotConsistent(s)
  BY SlotOK, PauseResumeSlotOK DEF Sound
<1>2. Mild(g.slot[z], s) /\ s.launch_stopped = g.slot[z].launch_stopped
  BY SlotOK, PauseResumeIs, EvenIsMild DEF Sound
<1> HIDE DEF s
<1>3. Sound(h) /\ Calm(f, h)
  BY <1>1, <1>2, WriteOneSound
<1>4. ResumeZone(g, z) = Queue(h, "RESUME", {z})
  BY DEF ResumeZone, s
<1> HIDE DEF h
<1> QED BY <1>3, <1>4, QueueSound DEF Kind

LEMMA AbortZoneSound ==
  ASSUME NEW f, NEW g, Sound(g), Calm(f, g), NEW z \in Zones, Active(g, z), Extinguishing(g, z)
  PROVE  Sound(AbortZone(g, z)) /\ Calm(f, AbortZone(g, z))
<1> DEFINE a == SuppressSlot(g, z)
           h == SendStopZone(a, z)
           s == [h.slot[z] EXCEPT !.extinguish_aborted = TRUE,
                                  !.ext_retry_failed = FALSE, !.ext_retry_left = 0]
<1>1. Aside(g, a) /\ Sound(a) /\ Calm(f, a)
  BY SuppressSlotOK, SuppressSound DEF Sound
<1>2. AbortZone(g, z) = [h EXCEPT !.slot[z].extinguish_aborted = TRUE,
                                  !.slot[z].ext_retry_failed = FALSE,
                                  !.slot[z].ext_retry_left = 0]
  BY DEF AbortZone
<1> HIDE DEF a
<1>3. Active(a, z) /\ a.slot[z].phase2_sent
  BY <1>1 DEF Aside, OnSlots, Active, Extinguishing
<1>4. /\ Sound(h) /\ Calm(f, h) /\ h.start_retry = {} /\ h.table = a.table
      /\ h.slot[z].launch_stopped /\ h.slot[z].phase2_sent
  BY <1>1, <1>3, SendStopZoneOK, SendStopZoneSound DEF Sound, OnSlots
<1> HIDE DEF h
<1>5. /\ s \in Slot /\ SlotConsistent(s)
      /\ s.phase2_sent = h.slot[z].phase2_sent /\ s.extinguish_aborted
  BY <1>4, SlotOK, ZenonT(40) DEF Sound, Slot, SlotConsistent
<1>6. AbortZone(g, z) = [h EXCEPT !.slot[z] = s]
  BY <1>2, <1>4, SlotOK, ZenonT(40) DEF Sound, Good, FireRecord
<1> HIDE DEF s
<1>7. Active(h, z) /\ Mild(h.slot[z], s) /\ z \notin h.start_retry
  BY <1>3, <1>4, <1>5 DEF Active, Mild, MayRetry
<1> QED BY <1>4, <1>5, <1>6, <1>7, WriteOneSound

LEMMA BtnStopSound ==
  ASSUME NEW f, NEW g, Sound(g), Calm(f, g), NEW z \in Zones, Active(g, z)
  PROVE  Sound(BtnStop(g, z)) /\ Calm(f, BtnStop(g, z))
<1> DEFINE h == CASE Extinguishing(g, z) -> AbortZone(g, z)
                  [] Waiting(g, z) -> IF g.slot[z].countdown_paused
                                      THEN ResumeZone(g, z) ELSE PauseZone(g, z)
                  [] ~Extinguishing(g, z) /\ ~Waiting(g, z) -> SendStopZone(g, z)
           k == [h EXCEPT !.start_latched = FALSE]
<1>1. \/ h = AbortZone(g, z) /\ Extinguishing(g, z)
      \/ h = ResumeZone(g, z)
      \/ h = PauseZone(g, z) /\ Waiting(g, z)
      \/ h = SendStopZone(g, z)
  BY DEF Extinguishing, Waiting
<1>2. Sound(h) /\ Calm(f, h)
  BY <1>1, AbortZoneSound, ResumeZoneSound, PauseZoneSound, SendStopZoneSound
<1>3. BtnStop(g, z) \in {g, SyncStateFromSlots(k)}
  BY DEF BtnStop, StopOn
<1> HIDE DEF h
<1>4. Good(h) /\ h \in FireRecord
  BY <1>2 DEF Sound, Good
<1>5. k = [h EXCEPT !.zone_countdown_stopped = h.zone_countdown_stopped,
                    !.zone_countdown_paused = h.zone_countdown_paused,
                    !.start_latched = FALSE]
  BY <1>4 DEF FireRecord
<1>6. h.zone_countdown_stopped \in BOOLEAN /\ h.zone_countdown_paused \in BOOLEAN
  BY <1>4 DEF FireRecord
<1> HIDE DEF k
<1>7. Sound(k) /\ Calm(f, k)
  BY <1>2, <1>5, <1>6, UnlatchedSound
<1> QED BY <1>3, <1>7, SyncSound

\* A slot is given back when nothing is left in the pool.
LEMMA ClearSlotSound ==
  ASSUME NEW f, NEW g, Sound(g), Calm(f, g), NEW z \in Zones, g.start_retry = {}
  PROVE  Sound(ClearSlot(g, z)) /\ Calm(f, ClearSlot(g, z))
<1> DEFINE h == ClearSlot(g, z)
<1>1. Good(h)
  BY ClearSlotOK DEF Sound
<1>2. /\ h.table = [i \in Places |-> IF g.table[i] = z THEN NoZone ELSE g.table[i]]
      /\ \A y \in Zones : h.slot[y] = IF y = z THEN ZeroSlot ELSE g.slot[y]
      /\ h.start_retry = {} /\ Starts(h) = Starts(g)
  BY DEF ClearSlot, Sound, Good, FireRecord, Starts
<1> HIDE DEF h
<1>3. ~Active(h, z) /\ \A y \in Zones : Active(h, y) => Active(g, y)
  BY <1>2, ZonesAssumption DEF Active
<1>4. ~MayRetry(ZeroSlot) /\ ~ZeroSlot.phase2_sent
  BY DEF MayRetry, ZeroSlot
<1>5. Sound(h)
  BY <1>1, <1>2, <1>4 DEF Sound, Halted, Hushed
<1>6. Calm(f, h)
  BY <1>2, <1>3, <1>4 DEF Calm
<1> QED BY <1>5, <1>6 DEF h

LEMMA ResetZoneSound ==
  ASSUME NEW f, NEW g, Sound(g), Calm(f, g), NEW z \in Zones
  PROVE  Sound(ResetZone(g, z)) /\ Calm(f, ResetZone(g, z))
<1> DEFINE a == SuppressSlot(g, z)
           h == SendStopZone(a, z)
<1>1. Sound(a) /\ Calm(f, a)
  BY SuppressSound
<1> HIDE DEF a
<1>2. Sound(h) /\ Calm(f, h) /\ h.start_retry = {}
  BY <1>1, SendStopZoneSound
<1>3. ResetZone(g, z) = ClearSlot(h, z)
  BY DEF ResetZone, a
<1> HIDE DEF h
<1> QED BY <1>2, <1>3, ClearSlotSound

\* An empty table.
LEMMA BlankSound ==
  ASSUME NEW f, NEW h, Good(h), h.table = EmptyFire.table, h.slot = EmptyFire.slot,
         h.start_retry = {}, Starts(h) = {}
  PROVE  Sound(h) /\ Calm(f, h)
<1>1. \A z \in Zones : ~Active(h, z) /\ ~MayRetry(h.slot[z]) /\ ~h.slot[z].phase2_sent
  BY EmptyOK DEF Active, MayRetry, EmptyFire, ZeroSlot
<1> QED BY <1>1 DEF Sound, Halted, Hushed, Calm

LEMMA EmptySound ==
  ASSUME NEW f
  PROVE  Sound(EmptyFire) /\ Calm(f, EmptyFire)
<1>1. Starts(EmptyFire) = {} /\ EmptyFire.start_retry = {}
  BY DEF EmptyFire, Starts
<1> QED BY <1>1, EmptyOK, BlankSound

LEMMA ResetAllSound ==
  ASSUME NEW f, NEW g, Sound(g), Starts(g) = {}
  PROVE  Sound(ResetAll(g)) /\ Calm(f, ResetAll(g))
<1> DEFINE keys(z) == IF g.slot[z].sources = {} THEN {AnyKey} ELSE g.slot[z].sources
           more == UNION {{z} \X keys(z) : z \in {y \in Zones : Active(g, y)}}
           c == CancelStarts(g)
           q == Queue(c, "STOP", Zones)
           h == [EmptyFire EXCEPT !.suppress = g.suppress \cup more, !.sent = q.sent]
<1>1. ResetAll(g) = h
  BY DEF ResetAll, SendStopAll
<1>2. Good(ResetAll(g))
  BY ResetAllOK DEF Sound
<1>3. Good(c) /\ NoMore(g, c)
  BY CancelSound, CancelOrders DEF Sound
<1> HIDE DEF c
<1>4. NoMore(c, q)
  BY <1>3, QueueOrders DEF Kind
<1> HIDE DEF q, more
<1>5. /\ h.table = EmptyFire.table /\ h.slot = EmptyFire.slot
      /\ h.start_retry = {} /\ Starts(h) = Starts(q)
  BY DEF EmptyFire, Starts
<1> HIDE DEF h
<1>6. Starts(h) = {}
  BY <1>3, <1>4, <1>5 DEF NoMore
<1> QED BY <1>1, <1>2, <1>5, <1>6, BlankSound
-----------------------------------------------------------------------------
(* Reports of fire and the passing of time. *)

LEMMA WithSourceIs ==
  ASSUME NEW s \in Slot, NEW k \in Sources
  PROVE  LET t == WithSource(s, k)
         IN  /\ t.phase2_sent = s.phase2_sent /\ t.launch_stopped = s.launch_stopped
             /\ t.extinguish_aborted = s.extinguish_aborted
             /\ t.extinguish_locked = s.extinguish_locked
             /\ MayRetry(t) => MayRetry(s)
BY DEF WithSource, Slot, MayRetry

LEMMA ConfirmedIs ==
  ASSUME NEW s \in Slot, NEW z \in Zones
  PROVE  /\ ~Confirmed(s, z).phase2_sent
         /\ Confirmed(s, z).launch_stopped = s.launch_stopped
BY DEF Confirmed, Slot

LEMMA NewSlotIs ==
  ASSUME NEW z \in Zones, NEW k \in Sources, mode[z] \in Mode,
         andEffective[z] \in BOOLEAN
  PROVE  ~NewSlot(z, k).phase2_sent
<1> DEFINE s == WithSource(ZeroSlot, k)
<1>1. s \in Slot /\ ~s.phase2_sent
  BY DEF WithSource, ZeroSlot, Slot
<1>2. NewSlot(z, k) \in {s, [s EXCEPT !.launch_stopped = TRUE],
                         [s EXCEPT !.fire1_waiting = TRUE],
                         [s EXCEPT !.deadline_left = Delay[z]]}
  <2>1. CASE mode[z] = "blocked"
    BY <2>1 DEF NewSlot
  <2>2. CASE mode[z] = "manual"
    BY <2>2 DEF NewSlot
  <2>3. CASE mode[z] = "auto" /\ andEffective[z]
    BY <2>3 DEF NewSlot
  <2>4. CASE mode[z] = "auto" /\ ~andEffective[z]
    BY <2>4 DEF NewSlot
  <2> QED BY <2>1, <2>2, <2>3, <2>4 DEF Mode
<1> HIDE DEF s
<1> QED BY <1>1, <1>2 DEF Slot

LEMMA KnownZoneSound ==
  ASSUME NEW f, NEW g, Sound(g), Calm(f, g), NEW z \in Zones, Active(g, z),
         NEW k \in Sources
  PROVE  Sound(KnownZone(g, z, k)) /\ Bound(f, KnownZone(g, z, k))
<1> DEFINE s == WithSource(g.slot[z], k)
           Put(t) == [g EXCEPT !.slot[z] = t]
           b == [s EXCEPT !.fire1_waiting = FALSE, !.deadline_left = 0]
           c == Confirmed(s, z)
<1>0. g.slot[z] \in Slot /\ SlotConsistent(g.slot[z])
  BY SlotOK DEF Sound
<1>1. /\ s \in Slot /\ SlotConsistent(s)
      /\ s.phase2_sent = g.slot[z].phase2_sent
      /\ s.launch_stopped = g.slot[z].launch_stopped
      /\ s.extinguish_aborted = g.slot[z].extinguish_aborted
      /\ MayRetry(s) => MayRetry(g.slot[z])
  BY <1>0, WithSourceOK, WithSourceIs
<1>2. \/ s.extinguish_locked /\ KnownZone(g, z, k) = Settle(Redisplay(Put(s)))
      \/ KnownZone(g, z, k) = Put(b)
      \/ ~s.extinguish_locked /\ KnownZone(g, z, k) = Settle(StatusFire(Put(c)))
      \/ KnownZone(g, z, k) = Put(s)
  BY DEF KnownZone
<1> HIDE DEF s
<1>3. /\ b \in Slot /\ SlotConsistent(b)
      /\ b.phase2_sent = s.phase2_sent /\ b.launch_stopped = s.launch_stopped
      /\ b.extinguish_aborted = s.extinguish_aborted
      /\ MayRetry(b) => MayRetry(s)
  BY <1>1 DEF Slot, SlotConsistent, MayRetry
<1>4. ~s.extinguish_locked => c \in Slot /\ SlotConsistent(c)
  BY <1>1, ConfirmedOK
<1>5. ~c.phase2_sent /\ c.launch_stopped = s.launch_stopped
  BY <1>1, ConfirmedIs
<1> HIDE DEF b, c
<1>6. Mild(g.slot[z], s) /\ Mild(g.slot[z], b)
  BY <1>1, <1>3, EvenIsMild
<1>7. ~s.extinguish_locked => Mild(g.slot[z], c)
  BY <1>1, <1>5 DEF Mild, MayRetry, SlotConsistent
<1>8. ASSUME NEW t \in Slot, SlotConsistent(t), Mild(g.slot[z], t),
             t.launch_stopped = g.slot[z].launch_stopped
      PROVE  /\ Sound(Put(t)) /\ Bound(f, Put(t))
             /\ Sound(Settle(Redisplay(Put(t)))) /\ Bound(f, Settle(Redisplay(Put(t))))
             /\ Sound(Settle(StatusFire(Put(t)))) /\ Bound(f, Settle(StatusFire(Put(t))))
  <2>1. Sound(Put(t)) /\ Calm(f, Put(t))
    BY <1>8, WriteOneSound
  <2> HIDE DEF Put
  <2>2. /\ Sound(Redisplay(Put(t))) /\ Calm(f, Redisplay(Put(t)))
        /\ Sound(StatusFire(Put(t))) /\ Calm(f, StatusFire(Put(t)))
    BY <2>1, RedisplaySound, StatusFireSound
  <2> QED BY <2>1, <2>2, CalmIsBound, SettleSound
<1> HIDE DEF Put
<1> QED BY <1>1, <1>2, <1>3, <1>4, <1>5, <1>6, <1>7, <1>8

LEMMA AgedSound ==
  ASSUME NEW f, NEW g, Sound(g), Calm(f, g)
  PROVE  Sound(Aged(g)) /\ Calm(f, Aged(g))
<1> DEFINE t == [z \in Zones |-> IF Active(g, z) THEN Older(g.slot[z]) ELSE g.slot[z]]
<1>1. ASSUME NEW s \in Slot, SlotConsistent(s)
      PROVE  /\ Older(s) \in Slot /\ SlotConsistent(Older(s))
             /\ Older(s).phase2_sent = s.phase2_sent
             /\ Older(s).launch_stopped = s.launch_stopped
             /\ Older(s).extinguish_aborted = s.extinguish_aborted
             /\ MayRetry(Older(s)) => MayRetry(s)
  <2>1. \A n \in Nat : Less(n) \in Nat
    BY DEF Less
  <2>2. Less(s.deadline_left) \in Nat /\ Less(s.ext_retry_left) \in Nat
    BY <2>1 DEF Slot
  <2> QED BY <1>1, <2>2 DEF Older, Slot, SlotConsistent, MayRetry
<1>2. Aged(g) = [g EXCEPT !.slot = t]
  BY DEF Aged
<1>3. \A z \in Zones : g.slot[z] \in Slot /\ SlotConsistent(g.slot[z])
  BY SlotOK DEF Sound
<1>4. t \in [Zones -> Slot]
  BY <1>1, <1>3
<1>5. ASSUME NEW z \in Zones, Active(g, z)
      PROVE  /\ SlotConsistent(t[z]) /\ Mild(g.slot[z], t[z])
             /\ t[z].launch_stopped = g.slot[z].launch_stopped
  <2>1. t[z] = Older(g.slot[z])
    BY <1>5
  <2> HIDE DEF t
  <2> QED BY <1>1, <1>3, <2>1, EvenIsMild
<1>6. \A z \in Zones : ~Active(g, z) => t[z] = g.slot[z]
  OBVIOUS
<1> HIDE DEF t
<1>7. \A z \in Zones :
           \/ t[z] = g.slot[z]
           \/ /\ Active(g, z) /\ SlotConsistent(t[z]) /\ Mild(g.slot[z], t[z])
              /\ t[z].launch_stopped => g.slot[z].launch_stopped \/ z \notin g.start_retry
  BY <1>5, <1>6
<1> QED BY <1>2, <1>4, <1>7, WriteSound

LEMMA PromotedSound ==
  ASSUME NEW f, NEW g, Sound(g), Calm(f, g)
  PROVE  Sound(Promoted(g)) /\ Bound(f, Promoted(g))
<1> DEFINE up == {z \in Zones : /\ Active(g, z) /\ g.slot[z].fire1_waiting
                                /\ mode[z] # "blocked" /\ ~andEffective[z]}
           t == [z \in Zones |-> IF z \in up THEN Confirmed(g.slot[z], z) ELSE g.slot[z]]
           h == [g EXCEPT !.slot = t]
<1>1. up \subseteq Zones /\ \A z \in up : Active(g, z) /\ g.slot[z].fire1_waiting
  OBVIOUS
<1>2. Promoted(g) = IF up = {} THEN g ELSE Settle(StatusFire(h))
  BY DEF Promoted
<1>3. \A z \in Zones : g.slot[z] \in Slot /\ SlotConsistent(g.slot[z])
  BY SlotOK DEF Sound
<1> HIDE DEF up
<1>4. ASSUME NEW z \in up
      PROVE  /\ Confirmed(g.slot[z], z) \in Slot /\ SlotConsistent(Confirmed(g.slot[z], z))
             /\ Mild(g.slot[z], Confirmed(g.slot[z], z))
             /\ Confirmed(g.slot[z], z).launch_stopped = g.slot[z].launch_stopped
  <2>1. g.slot[z] \in Slot /\ SlotConsistent(g.slot[z]) /\ z \in Zones
    BY <1>1, <1>3
  <2>2. ~g.slot[z].extinguish_locked /\ ~g.slot[z].phase2_sent
    BY <1>1, <2>1 DEF SlotConsistent, Slot
  <2>3. ~Confirmed(g.slot[z], z).phase2_sent
    BY <2>1, ConfirmedIs
  <2> QED BY <2>1, <2>2, <2>3, ConfirmedIs, ConfirmedOK DEF Mild, MayRetry
<1>5. t \in [Zones -> Slot]
  BY <1>3, <1>4
<1>6. \A z \in Zones :
           \/ t[z] = g.slot[z]
           \/ /\ Active(g, z) /\ SlotConsistent(t[z]) /\ Mild(g.slot[z], t[z])
              /\ t[z].launch_stopped => g.slot[z].launch_stopped \/ z \notin g.start_retry
  <2> TAKE z \in Zones
  <2>1. t[z] = IF z \in up THEN Confirmed(g.slot[z], z) ELSE g.slot[z]
    OBVIOUS
  <2> QED BY <1>1, <1>4, <2>1
<1> HIDE DEF t
<1>7. Sound(h) /\ Calm(f, h)
  BY <1>5, <1>6, WriteSound
<1> HIDE DEF h
<1>8. Sound(StatusFire(h)) /\ Calm(f, StatusFire(h))
  BY <1>7, StatusFireSound
<1> QED BY <1>2, <1>8, CalmIsBound, SettleSound
-----------------------------------------------------------------------------
(* The STARTs of every action. *)

\* What every action establishes of the new record.
Bounded == Sound(fire') /\ Bound(fire, fire')

\* The record the handlers start from.
LEMMA StartSound ==
  ASSUME Sound(fire)
  PROVE  /\ Sound(Quiet(fire)) /\ Calm(fire, Quiet(fire)) /\ Starts(Quiet(fire)) = {}
         /\ Quiet(fire).slot = fire.slot
         /\ \A z \in Zones : Active(Quiet(fire), z) <=> Active(fire, z)
BY QuietSound, QuietOrders DEF Sound, Active

LEMMA SettledBounded ==
  ASSUME NEW h, Sound(h), Bound(fire, h), fire' = Settle(h)
  PROVE  Bounded
BY SettleSound DEF Bounded

LEMMA TickBounded ==
  ASSUME Sound(fire), Tick
  PROVE  Bounded
<1> DEFINE q == Quiet(fire)
           g == Aged(q)
<1>1. Sound(q) /\ Calm(fire, q)
  BY StartSound
<1> HIDE DEF q
<1>2. Sound(g) /\ Calm(fire, g)
  BY <1>1, AgedSound
<1>3. fire' \in {g, Settle(Promoted(g))}
  BY DEF Tick, q
<1> HIDE DEF g
<1>4. Sound(Promoted(g)) /\ Bound(fire, Promoted(g))
  BY <1>2, PromotedSound
<1> QED BY <1>2, <1>3, <1>4, CalmIsBound, SettledBounded DEF Bounded

LEMMA OnStatusFireBounded ==
  ASSUME Inv, Sound(fire), NEW z \in Zones, NEW k \in SourcesOf[z], OnStatusFire(z, k)
  PROVE  Bounded
<1> DEFINE g == Quiet(fire)
           s == NewSlot(z, k)
           p == PutSlot(g, z, s)
<1>1. Sound(g) /\ Calm(fire, g) /\ (Active(g, z) <=> Active(fire, z))
  BY StartSound
<1>2. k \in Sources
  BY SurroundingsAssumption
<1>3. s \in Slot /\ SlotConsistent(s) /\ ~s.phase2_sent
  BY <1>2, NewSlotOK, NewSlotIs DEF Inv, TypeOK
<1>4. fire' = IF Active(fire, z) THEN KnownZone(g, z, k) ELSE Settle(StatusFire(p))
  BY DEF OnStatusFire
<1> HIDE DEF s
<1>5. CASE Active(fire, z)
  <2> HIDE DEF g
  <2> QED BY <1>1, <1>2, <1>4, <1>5, KnownZoneSound DEF Bounded
<1>6. CASE ~Active(fire, z)
  <2>1. Sound(p) /\ Calm(fire, p)
    BY <1>3, <1>6, PutSlotSound
  <2> HIDE DEF p
  <2>2. Sound(StatusFire(p)) /\ Calm(fire, StatusFire(p))
    BY <2>1, StatusFireSound
  <2> QED BY <1>4, <1>6, <2>2, CalmIsBound, SettledBounded
<1> QED BY <1>5, <1>6

LEMMA ButtonsBounded ==
  ASSUME Sound(fire), BtnStartSp \/ BtnStartAll \/ BtnStopPressed \/ TransitionOnly
  PROVE  Bounded
<1> DEFINE g == Quiet(fire)
<1>1. Sound(g) /\ Calm(fire, g) /\ \A z \in Zones : Active(g, z) <=> Active(fire, z)
  BY StartSound
<1>2. CASE BtnStartSp
  <2>1. PICK sel \in Zones \cup {NoZone} : fire' = Settle(StartSp(g, sel))
    BY <1>2 DEF BtnStartSp, Choices
  <2> QED BY <2>1, StartSpSound, SettledBounded
<1>3. CASE BtnStartAll
  <2>1. fire' = Settle(StartAll(g))
    BY <1>3 DEF BtnStartAll
  <2> QED BY <2>1, StartAllSound, SettledBounded
<1>4. CASE BtnStopPressed
  <2>1. PICK z \in Zones : Active(fire, z) /\ fire' = Settle(BtnStop(g, z))
    BY <1>4 DEF BtnStopPressed
  <2> HIDE DEF g
  <2>2. Sound(BtnStop(g, z)) /\ Calm(fire, BtnStop(g, z))
    BY <1>1, <2>1, BtnStopSound
  <2> QED BY <2>1, <2>2, CalmIsBound, SettledBounded
<1>5. CASE TransitionOnly
  BY <1>1, <1>5, CalmIsBound, SettledBounded DEF TransitionOnly
<1> QED BY <1>2, <1>3, <1>4, <1>5

LEMMA GostResetBounded ==
  ASSUME Sound(fire), GostReset
  PROVE  Bounded
<1> DEFINE q == Quiet(fire)
<1>1. PICK sel \in Zones \cup {NoZone} :
        fire' = IF sel = NoZone THEN ResetAll(q)
                ELSE LET g == SyncStateFromSlots([ResetZone(q, sel) EXCEPT !.start_latched = FALSE])
                     IN  IF AnyActive(g) THEN Settle(g)
                         ELSE [g EXCEPT !.zone_countdown_stopped = FALSE,
                                        !.zone_countdown_paused = FALSE]
  BY DEF GostReset, Choices
<1>2. Sound(q) /\ Calm(fire, q) /\ Starts(q) = {}
  BY StartSound
<1> HIDE DEF q
<1>3. CASE sel = NoZone
  BY <1>1, <1>2, <1>3, ResetAllSound, CalmIsBound DEF Bounded
<1>4. CASE sel # NoZone
  <2> DEFINE h == ResetZone(q, sel)
             r == [h EXCEPT !.start_latched = FALSE]
             g == SyncStateFromSlots(r)
             e == [g EXCEPT !.zone_countdown_stopped = FALSE,
                            !.zone_countdown_paused = FALSE]
  <2>1. Sound(h) /\ Calm(fire, h)
    BY <1>2, <1>4, ResetZoneSound
  <2>2. fire' = IF AnyActive(g) THEN Settle(g) ELSE e
    BY <1>1, <1>4
  <2> HIDE DEF h
  <2>3. /\ r = [h EXCEPT !.zone_countdown_stopped = h.zone_countdown_stopped,
                         !.zone_countdown_paused = h.zone_countdown_paused,
                         !.start_latched = FALSE]
        /\ h.zone_countdown_stopped \in BOOLEAN /\ h.zone_countdown_paused \in BOOLEAN
    BY <2>1 DEF Sound, Good, FireRecord
  <2> HIDE DEF r
  <2>4. Sound(r) /\ Calm(fire, r)
    BY <2>1, <2>3, UnlatchedSound
  <2>5. Sound(g) /\ Calm(fire, g)
    BY <2>4, SyncSound
  <2> HIDE DEF g
  <2>6. /\ e = [g EXCEPT !.zone_countdown_stopped = FALSE,
                         !.zone_countdown_paused = FALSE,
                         !.start_latched = g.start_latched]
        /\ g.start_latched \in BOOLEAN
    BY <2>5 DEF Sound, Good, FireRecord
  <2> HIDE DEF e
  <2>7. Sound(e) /\ Calm(fire, e)
    BY <2>5, <2>6, UnlatchedSound
  <2> QED BY <2>2, <2>5, <2>7, CalmIsBound, SettledBounded DEF Bounded
<1> QED BY <1>3, <1>4

LEMMA BusBounded ==
  ASSUME Sound(fire),
         (\E z \in Zones \cup {NoZone} : OnStartExtinguishment(z)) \/ OnStopExtinguishment
  PROVE  Bounded
<1> DEFINE g == Quiet(fire)
<1>1. Sound(g) /\ Calm(fire, g) /\ Firm(fire, g)
  BY StartSound, QuietFirm
<1>2. ASSUME NEW z \in Zones \cup {NoZone}, OnStartExtinguishment(z)
      PROVE  Bounded
  <2>1. fire' = Settle(BusStart(g, z))
    BY <1>2 DEF OnStartExtinguishment
  <2> HIDE DEF g
  <2> QED BY <1>1, <2>1, BusStartSound, SettledBounded
<1>3. CASE OnStopExtinguishment
  <2>1. fire' = Settle(StopExt(g))
    BY <1>3 DEF OnStopExtinguishment
  <2> HIDE DEF g
  <2> QED BY <1>1, <2>1, StopExtSound, CalmIsBound, SettledBounded
<1> QED BY <1>2, <1>3

LEMMA PauseResumeBounded ==
  ASSUME Sound(fire), OnPauseExtinguishmentTimer \/ OnResumeExtinguishmentTimer
  PROVE  Bounded
<1> DEFINE g == Quiet(fire)
           Z == CountingSlots(fire)
<1>1. /\ Sound(g) /\ Calm(fire, g) /\ g.slot = fire.slot
      /\ \A z \in Zones : Active(g, z) <=> Active(fire, z)
      /\ \A z \in Zones : g.slot[z] \in Slot /\ SlotConsistent(g.slot[z])
  BY StartSound, SlotOK DEF Sound
<1>2. /\ Z \in SUBSET Zones
      /\ \A z \in Z : /\ Active(g, z) /\ ~g.slot[z].phase2_sent
                       /\ ~g.slot[z].fire1_waiting
  BY <1>1 DEF CountingSlots
<1> HIDE DEF g, Z
<1>3. ASSUME NEW t \in [Zones -> Slot],
             \A z \in Zones :
                \/ t[z] = g.slot[z]
                \/ /\ z \in Z /\ SlotConsistent(t[z])
                   /\ t[z].phase2_sent = g.slot[z].phase2_sent
                   /\ t[z].launch_stopped = g.slot[z].launch_stopped
                   /\ t[z].extinguish_aborted = g.slot[z].extinguish_aborted
                   /\ MayRetry(t[z]) => MayRetry(g.slot[z]),
             NEW b \in BOOLEAN, NEW k \in Kind \ {"START"},
             fire' = Queue([g EXCEPT !.zone_countdown_paused = b, !.slot = t], k, Z)
      PROVE  Bounded
  <2> DEFINE w == [g EXCEPT !.slot = t]
             h == [g EXCEPT !.zone_countdown_paused = b, !.slot = t]
  <2>1. \A z \in Zones :
           \/ t[z] = g.slot[z]
           \/ /\ Active(g, z) /\ SlotConsistent(t[z]) /\ Mild(g.slot[z], t[z])
              /\ t[z].launch_stopped => g.slot[z].launch_stopped \/ z \notin g.start_retry
    BY <1>1, <1>2, <1>3, EvenIsMild
  <2>2. Sound(w) /\ Calm(fire, w)
    BY <1>1, <2>1, WriteSound
  <2>3. h = [w EXCEPT !.zone_countdown_stopped = w.zone_countdown_stopped,
                      !.zone_countdown_paused = b,
                      !.start_latched = w.start_latched]
    BY <1>1 DEF Sound, Good, FireRecord
  <2> HIDE DEF w
  <2>4. w.zone_countdown_stopped \in BOOLEAN /\ w.start_latched \in BOOLEAN
    BY <2>2 DEF Sound, Good, FireRecord
  <2>5. fire' = Queue(h, k, Z)
    BY <1>3
  <2> HIDE DEF h
  <2>6. Sound(h) /\ Calm(fire, h)
    BY <2>2, <2>3, <2>4, UnlatchedSound
  <2> QED BY <1>2, <2>5, <2>6, QueueSound, CalmIsBound DEF Bounded
<1>4. CASE OnPauseExtinguishmentTimer
  <2> DEFINE t == [z \in Zones |-> IF z \in Z THEN PauseSlot(g.slot[z]) ELSE g.slot[z]]
  <2>1. fire' = Queue([g EXCEPT !.zone_countdown_paused = TRUE, !.slot = t], "PAUSE", Z)
    BY <1>4 DEF OnPauseExtinguishmentTimer, g, Z
  <2>2. t \in [Zones -> Slot]
    BY <1>1, PauseResumeSlotOK
  <2>3. ASSUME NEW z \in Zones
        PROVE  \/ t[z] = g.slot[z]
               \/ /\ z \in Z /\ SlotConsistent(t[z])
                  /\ t[z].phase2_sent = g.slot[z].phase2_sent
                  /\ t[z].launch_stopped = g.slot[z].launch_stopped
                  /\ t[z].extinguish_aborted = g.slot[z].extinguish_aborted
                  /\ MayRetry(t[z]) => MayRetry(g.slot[z])
    BY <1>1, <1>2, PauseResumeSlotOK, PauseResumeIs
  <2> HIDE DEF t
  <2> QED BY <1>3, <2>1, <2>2, <2>3 DEF Kind
<1>5. CASE OnResumeExtinguishmentTimer
  <2> DEFINE t == [z \in Zones |-> IF z \in Z THEN ResumeSlot(g.slot[z]) ELSE g.slot[z]]
  <2>1. fire' = Queue([g EXCEPT !.zone_countdown_paused = FALSE, !.slot = t], "RESUME", Z)
    BY <1>5 DEF OnResumeExtinguishmentTimer, g, Z
  <2>2. t \in [Zones -> Slot]
    BY <1>1, PauseResumeSlotOK
  <2>3. ASSUME NEW z \in Zones
        PROVE  \/ t[z] = g.slot[z]
               \/ /\ z \in Z /\ SlotConsistent(t[z])
                  /\ t[z].phase2_sent = g.slot[z].phase2_sent
                  /\ t[z].launch_stopped = g.slot[z].launch_stopped
                  /\ t[z].extinguish_aborted = g.slot[z].extinguish_aborted
                  /\ MayRetry(t[z]) => MayRetry(g.slot[z])
    BY <1>1, <1>2, PauseResumeSlotOK, PauseResumeIs
  <2> HIDE DEF t
  <2> QED BY <1>3, <2>1, <2>2, <2>3 DEF Kind
<1> QED BY <1>4, <1>5

LEMMA SurroundingsBounded ==
  ASSUME Sound(fire),
         \/ \E z \in Zones : StartSettled(z)
         \/ Fire_Init
         \/ \E z \in Zones : IgnitersSeen(z)
         \/ Configured \/ ConfigSession
  PROVE  Bounded
<1> DEFINE g == Quiet(fire)
<1>1. Sound(g) /\ Calm(fire, g)
  BY StartSound
<1>2. ASSUME NEW z \in Zones, StartSettled(z)
      PROVE  Bounded
  <2> DEFINE h == [g EXCEPT !.start_retry = @ \ {z}]
  <2>1. fire' = h
    BY <1>2 DEF StartSettled
  <2> HIDE DEF g
  <2>2. /\ h \in FireRecord /\ h.table = g.table /\ h.slot = g.slot /\ NoMore(g, h)
    BY <1>1 DEF Sound, Good, FireRecord, NoMore, Starts
  <2> HIDE DEF h
  <2>3. Good(h)
    BY <1>1, <2>2, KeptOK DEF Sound
  <2> QED BY <1>1, <2>1, <2>2, <2>3, Sideways, CalmIsBound DEF Bounded
<1>3. CASE Fire_Init
  BY <1>3, EmptySound, CalmIsBound DEF Bounded, Fire_Init
<1>4. CASE (\E z \in Zones : IgnitersSeen(z)) \/ Configured \/ ConfigSession
  <2>1. fire' = g
    BY <1>4 DEF IgnitersSeen, Configured, ConfigSession
  <2> QED BY <1>1, <2>1, CalmIsBound DEF Bounded
<1> QED BY <1>2, <1>3, <1>4

LEMMA NextBounded ==
  ASSUME Inv, Sound(fire), Next
  PROVE  Bounded
BY TickBounded, OnStatusFireBounded, ButtonsBounded, GostResetBounded, BusBounded,
   PauseResumeBounded, SurroundingsBounded DEF Next

\* Inv with the retries and the retry pool.
SoundInv == Inv /\ Sound(fire)

\* The retries and the retry pool go with the slots: no retries for a zone
\* that is stopped and, with a place for every zone, no START in the pool for
\* one that is stopped or has no slot, after every handler of fire.c.
THEOREM SoundInvariance == Spec => []SoundInv
<1>1. Init => SoundInv
  BY InitOK, EmptySound DEF Init, SoundInv
<1>2. SoundInv /\ [Next]_vars => SoundInv'
  <2> SUFFICES ASSUME Inv, Sound(fire), [Next]_vars
               PROVE  Sound(fire')
    BY NextOK DEF SoundInv
  <2>1. CASE Next
    BY <2>1, NextBounded DEF Bounded
  <2>2. CASE UNCHANGED vars
    BY <2>2 DEF vars
  <2> QED BY <2>1, <2>2
<1> QED BY <1>1, <1>2, PTL DEF Spec

\* A launched zone gets another START only as a bounded retry of an unfinished
\* extinguishing that is not stopped, or when an aborted launch was taken up
\* again (Fire_ProcessExtinguishRetries, Fire_TransitionSendPhase2AllPending,
\* Fire_StartAllExistingZonesAndMarkSlots): for any number of zones, places,
\* detectors and attempts, and however the settings and the igniters change.
THEOREM NoSecondLaunchAlways == Spec => NoSecondLaunch
<1> DEFINE Once == \A z \in Zones : LET s == fire.slot[z] IN
                     s.phase2_sent /\ <<"START", z>> \in fire'.sent =>
                       \/ s.extinguish_aborted /\ fire'.start_latched
                       \/ /\ ~s.launch_stopped /\ ~s.ext_retry_failed
                          /\ s.ext_retry_attempts < MaxAttempts
<1>1. SoundInv /\ [Next]_vars => [Once]_vars
  <2> SUFFICES ASSUME Inv, Sound(fire), Next, NEW z \in Zones,
                      fire.slot[z].phase2_sent, <<"START", z>> \in fire'.sent
               PROVE  \/ fire.slot[z].extinguish_aborted /\ fire'.start_latched
                      \/ /\ ~fire.slot[z].launch_stopped
                         /\ ~fire.slot[z].ext_retry_failed
                         /\ fire.slot[z].ext_retry_attempts < MaxAttempts
    BY DEF SoundInv
  <2>1. Bound(fire, fire') /\ z \in Starts(fire')
    BY NextBounded DEF Bounded, Starts
  <2>2. CASE MayRetry(fire.slot[z])
    BY <2>2 DEF MayRetry, Sound, Halted
  <2>3. CASE fire.slot[z].extinguish_aborted
    BY <2>1, <2>3 DEF Bound
  <2> QED BY <2>1, <2>2, <2>3 DEF Bound, Led
<1> QED BY <1>1, SoundInvariance, PTL DEF Spec, NoSecondLaunch

\* With a place for every zone (fire.c has the 16 of FIRE_MAX_SLOTS) a zone that
\* the operator stopped, whose launch was aborted or that is in manual mode has
\* no START in the retry pool, whatever order reports, buttons and bus commands
\* come in.
THEOREM StoppedZoneIsQuietAlways ==
  ASSUME Cardinality(Zones) <= MaxSlots
  PROVE  Spec => []StoppedZoneIsQuiet
<1>1. SoundInv => StoppedZoneIsQuiet
  BY DEF SoundInv, Sound, Hushed, StoppedZoneIsQuiet
<1> QED BY <1>1, SoundInvariance, PTL
-----------------------------------------------------------------------------
(* The countdowns.  What an operator leaves pending was pending before,    *)
(* with the same time left.                                                *)

Frozen(g, h) ==
  \A z \in Zones : Pending(h, z) => Pending(g, z) /\ Remaining(h, z) = Remaining(g, z)

\* A zone pending before and after has the same time left.
Same(f, g) ==
  \A z \in Zones : Pending(f, z) /\ Pending(g, z) => Remaining(g, z) = Remaining(f, z)

LEMMA FrozenChain ==
  ASSUME NEW f, NEW g, NEW h, Frozen(g, h)
  PROVE  (Same(f, g) => Same(f, h)) /\ (Frozen(f, g) => Frozen(f, h))
BY DEF Frozen, Same

LEMMA FrozenIsSame ==
  ASSUME NEW f, NEW g, Frozen(f, g)
  PROVE  Same(f, g)
BY DEF Frozen, Same

\* The places and the slots are kept.
LEMMA KeptFrozen ==
  ASSUME NEW g, NEW h, h.table = g.table, h.slot = g.slot
  PROVE  Frozen(g, h)
BY DEF Frozen, Pending, Remaining, Active

\* So are the places, and the slots that change are launched, stopped or
\* have the flags and the time left they had.
LEMMA WrittenFrozen ==
  ASSUME NEW g, NEW h, h.table = g.table,
         \A z \in Zones :
           \/ h.slot[z] = g.slot[z]
           \/ h.slot[z].phase2_sent \/ h.slot[z].launch_stopped
           \/ /\ h.slot[z].phase2_sent = g.slot[z].phase2_sent
              /\ h.slot[z].fire1_waiting = g.slot[z].fire1_waiting
              /\ h.slot[z].launch_stopped = g.slot[z].launch_stopped
              /\ Remaining(h, z) = Remaining(g, z)
  PROVE  Frozen(g, h)
<1>1. \A z \in Zones : Active(h, z) <=> Active(g, z)
  BY DEF Active
<1>2. \A z \in Zones : h.slot[z] = g.slot[z] => Remaining(h, z) = Remaining(g, z)
  BY DEF Remaining
<1> QED BY <1>1, <1>2 DEF Frozen, Pending

LEMMA QuietFrozen ==
  ASSUME NEW g, Good(g)
  PROVE  Frozen(g, Quiet(g))
BY QuietOK, KeptFrozen DEF Aside, OnSlots

LEMMA SyncFrozen ==
  ASSUME NEW g, Good(g)
  PROVE  Frozen(g, SyncStateFromSlots(g))
BY SyncOK, KeptFrozen DEF OnSlots

LEMMA MarkFrozen ==
  ASSUME NEW g, Good(g), NEW Z
  PROVE  Frozen(g, MarkPhase2Sent(g, Z))
<1> DEFINE h == MarkPhase2Sent(g, Z)
<1>1. h.table = g.table
  BY MarkOrders
<1>2. \A z \in Zones : h.slot[z] = g.slot[z] \/ h.slot[z].phase2_sent
  BY MarkOrders, SlotOK, Phase2SentIs
<1> HIDE DEF h
<1> QED BY <1>1, <1>2, WrittenFrozen DEF h

LEMMA LaunchFrozen ==
  ASSUME NEW g, Good(g), NEW Z \in SUBSET Zones
  PROVE  Frozen(g, Launch(g, Z))
<1> DEFINE go == {z \in Z : Launchable(g, z)}
           q == QueueStart(g, go)
<1>1. Good(q) /\ q.table = g.table /\ q.slot = g.slot
  BY QueueStartOK DEF Aside, OnSlots
<1>2. Launch(g, Z) = MarkPhase2Sent(q, go)
  BY DEF Launch
<1> HIDE DEF q, go
<1> QED BY <1>1, <1>2, KeptFrozen, MarkFrozen, FrozenChain

LEMMA AutoDeadlinesFrozen ==
  ASSUME NEW g, Good(g)
  PROVE  Frozen(g, ProcessAutoDeadlines(g))
<1> DEFINE due == {z \in Zones : Due(g, z) /\ Launchable(g, z)}
           l == Launch(g, due)
           h == [l EXCEPT !.start_latched = TRUE]
<1>1. ProcessAutoDeadlines(g) \in {g, h}
  BY DEF ProcessAutoDeadlines
<1>2. \A z \in due : Active(g, z)
  BY DEF Due
<1>3. Frozen(g, l) /\ Good(l)
  BY <1>2, LaunchFrozen, LaunchOK DEF OnSlots
<1> HIDE DEF l
<1>4. h.table = l.table /\ h.slot = l.slot
  BY <1>3 DEF Good, FireRecord
<1> HIDE DEF h
<1>5. Frozen(g, h)
  BY <1>3, <1>4, KeptFrozen, FrozenChain
<1> QED BY <1>1, <1>5, KeptFrozen

LEMMA RetriesFrozen ==
  ASSUME NEW g, Good(g)
  PROVE  Frozen(g, ProcessExtinguishRetries(g))
<1> DEFINE due == {z \in Zones : RetryDue(g, z)}
           again == {z \in due : g.slot[z].ext_retry_attempts < MaxAttempts}
           q == QueueStart(g, again)
           s == [z \in Zones |-> IF z \in due THEN Retried(q.slot[z]) ELSE q.slot[z]]
           h == [q EXCEPT !.slot = s]
<1>1. ProcessExtinguishRetries(g) \in {g, h}
  BY Zenon DEF ProcessExtinguishRetries, QueueStart, Queue
<1>2. Good(q) /\ q.table = g.table /\ q.slot = g.slot
  BY QueueStartOK DEF Aside, OnSlots
<1>3. \A z \in due : z \in Zones /\ g.slot[z].phase2_sent /\ ~g.slot[z].ext_retry_failed
  BY DEF RetryDue
<1> HIDE DEF q, due
<1>4. \A z \in due : Retried(g.slot[z]).phase2_sent
  BY <1>3, SlotOK, RetriedIs
<1>5. \A z \in Zones : s[z] = g.slot[z] \/ s[z].phase2_sent
  BY <1>2, <1>4
<1> HIDE DEF s
<1>6. h.table = g.table /\ h.slot = s
  BY <1>2 DEF Good, FireRecord
<1> HIDE DEF h
<1>7. Frozen(g, h)
  BY <1>5, <1>6, WrittenFrozen
<1> QED BY <1>1, <1>7, KeptFrozen

LEMMA SettleFrozen ==
  ASSUME NEW g, Good(g)
  PROVE  Frozen(g, Settle(g))
<1> DEFINE a == ProcessAutoDeadlines(g)
           b == ProcessExtinguishRetries(a)
<1>1. Frozen(g, a) /\ Good(a)
  BY AutoDeadlinesFrozen, ProcessAutoDeadlinesOK DEF OnSlots
<1> HIDE DEF a
<1>2. Frozen(a, b) /\ Good(b)
  BY <1>1, RetriesFrozen, ProcessExtinguishRetriesOK DEF OnSlots
<1> HIDE DEF b
<1>3. Frozen(b, SyncStateFromSlots(b))
  BY <1>2, SyncFrozen
<1>4. Settle(g) = SyncStateFromSlots(b)
  BY DEF Settle, a, b
<1> QED BY <1>1, <1>2, <1>3, <1>4, FrozenChain

LEMMA StatusFireFrozen ==
  ASSUME NEW g, Good(g)
  PROVE  Frozen(g, StatusFire(g)) /\ Frozen(g, Redisplay(g))
<1>1. /\ StatusFire(g).table = g.table /\ StatusFire(g).slot = g.slot
      /\ Redisplay(g).table = g.table /\ Redisplay(g).slot = g.slot
  BY DEF Good, FireRecord, StatusFire, Redisplay
<1> QED BY <1>1, KeptFrozen

LEMMA StopExtFrozen ==
  ASSUME NEW g, Good(g)
  PROVE  Frozen(g, StopExt(g))
<1> DEFINE q == SendStopAll(g)
           r == AbortRetriesAll(q)
           h == [r EXCEPT !.zone_countdown_stopped = TRUE,
                          !.zone_countdown_paused = FALSE, !.start_latched = FALSE]
<1>1. Good(q) /\ q.table = g.table /\ q.slot = g.slot
  BY SendStopAllOK DEF Aside, OnSlots
<1> HIDE DEF q
<1>2. Good(r) /\ r.table = q.table
  BY <1>1, AbortRetriesAllOK DEF OnSlots
<1>3. \A z \in Zones : r.slot[z] = IF Active(q, z) THEN RetriesOver(q.slot[z]) ELSE q.slot[z]
  BY <1>1 DEF AbortRetriesAll, Good, FireRecord
<1>4. \A z \in Zones : RetriesOver(q.slot[z]) = q.slot[z] \/ RetriesOver(q.slot[z]).phase2_sent
  BY <1>1, SlotOK DEF RetriesOver, Slot
<1>5. StopExt(g) \in {h, [h EXCEPT !.state = ManualOrAuto]}
  BY DEF StopExt, q
<1> HIDE DEF r
<1>6. Frozen(q, r)
  BY <1>2, <1>3, <1>4, WrittenFrozen
<1>7. /\ h.table = r.table /\ h.slot = r.slot
      /\ [h EXCEPT !.state = ManualOrAuto].table = r.table
      /\ [h EXCEPT !.state = ManualOrAuto].slot = r.slot
  BY <1>2 DEF Good, FireRecord
<1>8. StopExt(g).table = r.table /\ StopExt(g).slot = r.slot
  BY <1>5, <1>7
<1> QED BY <1>1, <1>6, <1>8, KeptFrozen, FrozenChain

LEMMA QueueFrozen ==
  ASSUME NEW g, Good(g), NEW k \in Kind, NEW Z \in SUBSET Zones
  PROVE  Frozen(g, Queue(g, k, Z))
BY QueueOK, KeptFrozen DEF Aside, OnSlots

\* One slot is written.
LEMMA WrittenOneFrozen ==
  ASSUME NEW g, Good(g), NEW z \in Zones, NEW s \in Slot,
         \/ s.phase2_sent \/ s.launch_stopped
         \/ /\ s.phase2_sent = g.slot[z].phase2_sent
            /\ s.fire1_waiting = g.slot[z].fire1_waiting
            /\ s.launch_stopped = g.slot[z].launch_stopped
            /\ (IF s.countdown_paused THEN s.paused_remaining ELSE s.deadline_left)
                 = Remaining(g, z)
  PROVE  Frozen(g, [g EXCEPT !.slot[z] = s])
<1> DEFINE h == [g EXCEPT !.slot[z] = s]
<1>1. h.table = g.table /\ \A y \in Zones : h.slot[y] = IF y = z THEN s ELSE g.slot[y]
  BY DEF Good, FireRecord
<1> HIDE DEF h
<1>2. Remaining(h, z) = IF s.countdown_paused THEN s.paused_remaining ELSE s.deadline_left
  BY <1>1 DEF Remaining
<1>3. Frozen(g, h)
  BY <1>1, <1>2, WrittenFrozen
<1> QED BY <1>3 DEF h

LEMMA SendStopZoneFrozen ==
  ASSUME NEW g, Good(g), NEW z \in Zones
  PROVE  Frozen(g, SendStopZone(g, z))
<1> DEFINE c == CancelStarts(g)
           q == Queue(c, "STOP", {z})
           h == SendStopZone(g, z)
<1>1. Good(c) /\ c.table = g.table /\ c.slot = g.slot
  BY CancelStartsOK DEF Aside, OnSlots
<1> HIDE DEF c
<1>2. Good(q) /\ q.table = g.table /\ q.slot = g.slot
  BY <1>1, QueueOK DEF Aside, OnSlots, Kind
<1>3. h = LET r == AbortRetriesForZone(q, z)
          IN  IF Active(g, z) THEN [r EXCEPT !.slot[z].launch_stopped = TRUE] ELSE r
  BY DEF SendStopZone, c
<1>4. OnSlots(g, h) /\ (Active(g, z) => h.slot[z].launch_stopped)
  BY SendStopZoneOK
<1> HIDE DEF q, h
<1>5. Active(q, z) <=> Active(g, z)
  BY <1>2 DEF Active
<1>6. ASSUME NEW y \in Zones, y # z
      PROVE  h.slot[y] = g.slot[y]
  BY <1>2, <1>3, <1>5, <1>6 DEF AbortRetriesForZone, Good, FireRecord
<1>7. ~Active(g, z) => h.slot[z] = g.slot[z]
  BY <1>2, <1>3, <1>5 DEF AbortRetriesForZone
<1>8. Frozen(g, h)
  BY <1>4, <1>6, <1>7, WrittenFrozen DEF OnSlots
<1> QED BY <1>8 DEF h

\* The three ways OSTANOV takes with a zone.
LEMMA StopZonesFrozen ==
  ASSUME NEW g, Good(g), NEW z \in Zones, Active(g, z)
  PROVE  /\ Waiting(g, z) /\ ~g.slot[z].countdown_paused => Frozen(g, PauseZone(g, z))
         /\ g.slot[z].countdown_paused => Frozen(g, ResumeZone(g, z))
         /\ Extinguishing(g, z) => Frozen(g, AbortZone(g, z))
<1>1. g.slot[z] \in Slot
  BY SlotOK
<1>2. ASSUME Waiting(g, z), ~g.slot[z].countdown_paused
      PROVE  Frozen(g, PauseZone(g, z))
  <2> DEFINE s == PauseSlot(g.slot[z])
             h == [g EXCEPT !.slot[z] = s]
  <2>1. /\ s \in Slot /\ SlotConsistent(s)
        /\ s.phase2_sent = g.slot[z].phase2_sent
        /\ s.fire1_waiting = g.slot[z].fire1_waiting
        /\ s.launch_stopped = g.slot[z].launch_stopped
        /\ s.countdown_paused /\ s.paused_remaining = g.slot[z].deadline_left
    BY <1>1, <1>2, SlotOK, PauseResumeSlotOK DEF PauseSlot, Slot, Waiting
  <2>2. PauseZone(g, z) \in {g, Queue(h, "PAUSE", {z})}
    BY DEF PauseZone
  <2> HIDE DEF s
  <2>3. Frozen(g, h) /\ Good(h)
    BY <1>2, <2>1, WrittenOneFrozen, WriteOneOK DEF Remaining, OnSlots
  <2> HIDE DEF h
  <2> QED BY <2>2, <2>3, QueueFrozen, KeptFrozen, FrozenChain DEF Kind
<1>3. ASSUME g.slot[z].countdown_paused
      PROVE  Frozen(g, ResumeZone(g, z))
  <2> DEFINE s == ResumeSlot(g.slot[z])
             h == [g EXCEPT !.slot[z] = s]
  <2>1. /\ s \in Slot /\ SlotConsistent(s)
        /\ s.phase2_sent = g.slot[z].phase2_sent
        /\ s.fire1_waiting = g.slot[z].fire1_waiting
        /\ s.launch_stopped = g.slot[z].launch_stopped
        /\ ~s.countdown_paused /\ s.deadline_left = g.slot[z].paused_remaining
    BY <1>1, SlotOK, PauseResumeSlotOK DEF ResumeSlot, Slot
  <2>2. ResumeZone(g, z) = Queue(h, "RESUME", {z})
    BY DEF ResumeZone
  <2> HIDE DEF s
  <2>3. Frozen(g, h) /\ Good(h)
    BY <1>3, <2>1, WrittenOneFrozen, WriteOneOK DEF Remaining, OnSlots
  <2> HIDE DEF h
  <2> QED BY <2>2, <2>3, QueueFrozen, FrozenChain DEF Kind
<1>4. ASSUME Extinguishing(g, z)
      PROVE  Frozen(g, AbortZone(g, z))
  <2> DEFINE a == SuppressSlot(g, z)
             h == SendStopZone(a, z)
             s == [h.slot[z] EXCEPT !.extinguish_aborted = TRUE,
                                    !.ext_retry_failed = FALSE, !.ext_retry_left = 0]
  <2>1. Good(a) /\ a.table = g.table /\ a.slot = g.slot
    BY SuppressSlotOK DEF Aside, OnSlots
  <2>2. AbortZone(g, z) = [h EXCEPT !.slot[z].extinguish_aborted = TRUE,
                                    !.slot[z].ext_retry_failed = FALSE,
                                    !.slot[z].ext_retry_left = 0]
    BY DEF AbortZone
  <2> HIDE DEF a
  <2>3. Active(a, z)
    BY <2>1 DEF Active
  <2>4. Good(h) /\ h.slot[z].launch_stopped /\ Frozen(a, h)
    BY <2>1, <2>3, SendStopZoneOK, SendStopZoneFrozen DEF OnSlots
  <2> HIDE DEF h
  <2>5. s \in Slot /\ s.launch_stopped
    BY <2>4, SlotOK, ZenonT(40) DEF Slot
  <2>6. AbortZone(g, z) = [h EXCEPT !.slot[z] = s]
    BY <2>2, <2>4, SlotOK, ZenonT(40) DEF Good, FireRecord
  <2> HIDE DEF s
  <2>7. Frozen(h, [h EXCEPT !.slot[z] = s])
    BY <2>4, <2>5, WrittenOneFrozen
  <2> QED BY <2>1, <2>4, <2>6, <2>7, KeptFrozen, FrozenChain
<1> QED BY <1>2, <1>3, <1>4

LEMMA BtnStopFrozen ==
  ASSUME NEW g, Good(g), NEW z \in Zones, Active(g, z)
  PROVE  Frozen(g, BtnStop(g, z))
<1> DEFINE h == CASE Extinguishing(g, z) -> AbortZone(g, z)
                  [] Waiting(g, z) -> IF g.slot[z].countdown_paused
                                      THEN ResumeZone(g, z) ELSE PauseZone(g, z)
                  [] ~Extinguishing(g, z) /\ ~Waiting(g, z) -> SendStopZone(g, z)
           k == [h EXCEPT !.start_latched = FALSE]
<1>1. \/ h = AbortZone(g, z) /\ Extinguishing(g, z)
      \/ h = ResumeZone(g, z) /\ g.slot[z].countdown_paused
      \/ h = PauseZone(g, z) /\ Waiting(g, z) /\ ~g.slot[z].countdown_paused
      \/ h = SendStopZone(g, z)
  BY DEF Extinguishing, Waiting
<1>2. Frozen(g, h) /\ Good(h)
  BY <1>1, StopZonesFrozen, SendStopZoneFrozen,
     AbortZoneOK, ResumeZoneOK, PauseZoneOK, SendStopZoneOK DEF OnSlots
<1>3. BtnStop(g, z) \in {g, SyncStateFromSlots(k)}
  BY DEF BtnStop, StopOn
<1> HIDE DEF h
<1>4. k \in FireRecord /\ k.table = h.table /\ k.slot = h.slot
  BY <1>2 DEF Good, FireRecord
<1> HIDE DEF k
<1>5. Good(k) /\ Frozen(h, k)
  BY <1>2, <1>4, KeptOK, KeptFrozen
<1> QED BY <1>2, <1>3, <1>5, SyncFrozen, KeptFrozen, FrozenChain

\* A slot is given back.
LEMMA ResetZoneFrozen ==
  ASSUME NEW g, Good(g), NEW z \in Zones
  PROVE  Frozen(g, ResetZone(g, z))
<1> DEFINE a == SuppressSlot(g, z)
           b == SendStopZone(a, z)
           h == ClearSlot(b, z)
<1>1. Good(a) /\ a.table = g.table /\ a.slot = g.slot
  BY SuppressSlotOK DEF Aside, OnSlots
<1>2. ResetZone(g, z) = h
  BY DEF ResetZone
<1> HIDE DEF a
<1>3. Good(b) /\ Frozen(a, b)
  BY <1>1, SendStopZoneOK, SendStopZoneFrozen DEF OnSlots
<1> HIDE DEF b
<1>4. /\ h.table = [i \in Places |-> IF b.table[i] = z THEN NoZone ELSE b.table[i]]
      /\ \A y \in Zones : h.slot[y] = IF y = z THEN ZeroSlot ELSE b.slot[y]
  BY <1>3 DEF ClearSlot, Good, FireRecord
<1> HIDE DEF h
<1>5. ~Active(h, z) /\ \A y \in Zones : Active(h, y) => Active(b, y)
  BY <1>4, ZonesAssumption DEF Active
<1>6. Frozen(b, h)
  BY <1>4, <1>5 DEF Frozen, Pending, Remaining
<1> QED BY <1>1, <1>2, <1>3, <1>6, KeptFrozen, FrozenChain

\* An empty table has nothing pending.
LEMMA BlankFrozen ==
  ASSUME NEW g, NEW h, h.table = EmptyFire.table
  PROVE  Frozen(g, h)
BY EmptyOK DEF Frozen, Pending, Active

\* A fire is reported: of the zones that have slots only the reported one may
\* be given another countdown, and only out of FIRE1.
LEMMA KnownZoneSame ==
  ASSUME NEW g, Good(g), NEW z \in Zones, Active(g, z), NEW k \in Sources
  PROVE  Same(g, KnownZone(g, z, k))
<1> DEFINE s == WithSource(g.slot[z], k)
           Put(t) == [g EXCEPT !.slot[z] = t]
           b == [s EXCEPT !.fire1_waiting = FALSE, !.deadline_left = 0]
           c == Confirmed(s, z)
<1>1. g.slot[z] \in Slot /\ SlotConsistent(g.slot[z]) /\ s \in Slot /\ SlotConsistent(s)
  BY SlotOK, WithSourceOK
<1>2. /\ s.phase2_sent = g.slot[z].phase2_sent
      /\ s.fire1_waiting = g.slot[z].fire1_waiting
      /\ s.launch_stopped = g.slot[z].launch_stopped
      /\ (IF s.countdown_paused THEN s.paused_remaining ELSE s.deadline_left)
           = Remaining(g, z)
  BY <1>1 DEF WithSource, Slot, Remaining
<1>3. \/ KnownZone(g, z, k) = Settle(Redisplay(Put(s)))
      \/ KnownZone(g, z, k) = Put(b) /\ mode[z] = "blocked"
      \/ /\ KnownZone(g, z, k) = Settle(StatusFire(Put(c)))
         /\ s.fire1_waiting /\ ~s.extinguish_locked
      \/ KnownZone(g, z, k) = Put(s)
  BY DEF KnownZone
<1> HIDE DEF s
<1>4. ASSUME NEW t \in Slot, SlotConsistent(t)
      PROVE  /\ Good(Put(t)) /\ Good(Redisplay(Put(t))) /\ Good(StatusFire(Put(t)))
             /\ Frozen(Put(t), Settle(Redisplay(Put(t))))
             /\ Frozen(Put(t), Settle(StatusFire(Put(t))))
  <2>1. Good(Put(t))
    BY <1>4, WriteOneOK DEF OnSlots
  <2> HIDE DEF Put
  <2>2. Good(Redisplay(Put(t))) /\ Good(StatusFire(Put(t)))
    BY <2>1, RedisplayOK, StatusFireOK DEF OnSlots
  <2> QED BY <2>1, <2>2, SettleFrozen, StatusFireFrozen, FrozenChain
<1>5. /\ b \in Slot /\ SlotConsistent(b)
      /\ ~s.extinguish_locked => c \in Slot /\ SlotConsistent(c)
  BY <1>1, ConfirmedOK DEF Slot, SlotConsistent
<1> HIDE DEF b, c
<1>6. \A t : \A y \in Zones : y # z => Put(t).slot[y] = g.slot[y]
  BY DEF Good, FireRecord
<1>7. ASSUME NEW t, ~Pending(g, z) \/ mode[z] = "blocked"
      PROVE  Same(g, Put(t))
  BY <1>6, <1>7 DEF Same, Pending, Remaining
<1>8. Frozen(g, Put(s))
  BY <1>1, <1>2, WrittenOneFrozen
<1> HIDE DEF Put
<1>9. CASE KnownZone(g, z, k) = Settle(Redisplay(Put(s)))
  BY <1>1, <1>4, <1>8, <1>9, FrozenChain, FrozenIsSame
<1>10. CASE KnownZone(g, z, k) = Put(b) /\ mode[z] = "blocked"
  BY <1>7, <1>10
<1>11. CASE /\ KnownZone(g, z, k) = Settle(StatusFire(Put(c)))
            /\ s.fire1_waiting /\ ~s.extinguish_locked
  <2>1. Same(g, Put(c))
    BY <1>2, <1>7, <1>11 DEF Pending
  <2> QED BY <1>4, <1>5, <1>11, <2>1, FrozenChain
<1> QED BY <1>3, <1>8, <1>9, <1>10, <1>11, FrozenIsSame

LEMMA PutSlotSame ==
  ASSUME NEW g, Good(g), NEW z \in Zones, NEW s, ~Active(g, z)
  PROVE  Same(g, PutSlot(g, z, s))
<1> DEFINE i == IF FreePlaces(g) = {} THEN 1 ELSE First(FreePlaces(g))
           lost == g.table[i]
           h == PutSlot(g, z, s)
<1>1. i \in Places
  <2>1. FreePlaces(g) \in SUBSET Nat /\ FreePlaces(g) \subseteq Places
    BY DEF FreePlaces, Places
  <2>2. FreePlaces(g) # {} => First(FreePlaces(g)) \in Places
    BY <2>1, FirstOK
  <2>3. 1 \in Places
    BY BoundsAssumption DEF Places
  <2> QED BY <2>2, <2>3
<1> HIDE DEF i
<1>2. /\ h.table = [g.table EXCEPT ![i] = z]
      /\ \A y \in Zones : h.slot[y] = IF y = z THEN s ELSE IF y = lost THEN ZeroSlot ELSE g.slot[y]
  BY DEF Good, FireRecord, PutSlot, i
<1> HIDE DEF h
<1>3. lost \in Zones => ~Active(h, lost)
  <2> SUFFICES ASSUME lost \in Zones, NEW j \in Places, h.table[j] = lost
               PROVE  FALSE
    BY DEF Active
  <2>1. lost # z
    BY <1>1 DEF Active
  <2>2. g.table \in [Places -> Zones \cup {NoZone}]
    BY DEF Good, FireRecord
  <2>3. j # i /\ g.table[j] = g.table[i]
    BY <1>1, <1>2, <2>1, <2>2
  <2> QED BY <1>1, <2>3, ZonesAssumption DEF Good, Distinct
<1>4. \A y \in Zones : Pending(g, y) /\ Pending(h, y) => h.slot[y] = g.slot[y]
  BY <1>2, <1>3 DEF Pending
<1>5. Same(g, h)
  BY <1>4 DEF Same, Remaining
<1> QED BY <1>5 DEF h

\* FIRE1 becomes FIRE2.
LEMMA PromotedSame ==
  ASSUME NEW g, Good(g)
  PROVE  Same(g, Promoted(g))
<1> DEFINE up == {z \in Zones : /\ Active(g, z) /\ g.slot[z].fire1_waiting
                                /\ mode[z] # "blocked" /\ ~andEffective[z]}
           t == [z \in Zones |-> IF z \in up THEN Confirmed(g.slot[z], z) ELSE g.slot[z]]
           h == [g EXCEPT !.slot = t]
<1>1. \A z \in up : Active(g, z) /\ g.slot[z].fire1_waiting /\ z \in Zones
  OBVIOUS
<1>2. Promoted(g) = IF up = {} THEN g ELSE Settle(StatusFire(h))
  BY DEF Promoted
<1> HIDE DEF up
<1>3. \A z \in up : Confirmed(g.slot[z], z) \in Slot /\ SlotConsistent(Confirmed(g.slot[z], z))
  <2> TAKE z \in up
  <2>1. g.slot[z] \in Slot /\ SlotConsistent(g.slot[z]) /\ z \in Zones
    BY <1>1, SlotOK
  <2>2. ~g.slot[z].extinguish_locked
    BY <1>1, <2>1 DEF SlotConsistent, Slot
  <2> QED BY <2>1, <2>2, ConfirmedOK
<1>4. t \in [Zones -> Slot]
  BY <1>3, SlotOK
<1>5. \A z \in Zones : /\ t[z] = g.slot[z] \/ (Active(g, z) /\ SlotConsistent(t[z]))
                       /\ z \notin up => t[z] = g.slot[z]
  BY <1>1, <1>3
<1> HIDE DEF t
<1>6. Good(h) /\ h.slot = t
  BY <1>4, <1>5, WriteOK DEF Good, FireRecord
<1> HIDE DEF h
<1>7. Same(g, h)
  BY <1>1, <1>5, <1>6 DEF Same, Pending, Remaining
<1>8. Frozen(h, Settle(StatusFire(h)))
  <2>1. Good(StatusFire(h)) /\ Frozen(h, StatusFire(h))
    BY <1>6, StatusFireOK, StatusFireFrozen DEF OnSlots
  <2> QED BY <2>1, SettleFrozen, FrozenChain
<1> QED BY <1>2, <1>7, <1>8, FrozenChain, KeptFrozen, FrozenIsSame

\* A START from the bus launches slots and gives new ones.
Marked(f, g) ==
  \A z \in Zones : Active(f, z) =>
    Active(g, z) /\ (g.slot[z] = f.slot[z] \/ g.slot[z].phase2_sent)

LEMMA MarkedIsSame ==
  ASSUME NEW f, NEW g, Marked(f, g)
  PROVE  Same(f, g)
BY DEF Marked, Same, Pending, Remaining

LEMMA EnsureMarked ==
  ASSUME NEW f, NEW g, Good(g), Marked(f, g), NEW Z \in SUBSET Zones
  PROVE  Good(EnsureSlots(g, Z)) /\ Marked(f, EnsureSlots(g, Z))
BY EnsureSlotsOK DEF Marked

LEMMA MarkMarked ==
  ASSUME NEW f, NEW g, Good(g), Marked(f, g), NEW Z, \A z \in Z : Active(g, z)
  PROVE  Good(MarkPhase2Sent(g, Z)) /\ Marked(f, MarkPhase2Sent(g, Z))
<1> DEFINE h == MarkPhase2Sent(g, Z)
<1>1. Good(h) /\ h.table = g.table
  BY MarkPhase2SentOK DEF OnSlots
<1>2. \A z \in Zones : h.slot[z] = g.slot[z] \/ h.slot[z].phase2_sent
  BY MarkOrders, SlotOK, Phase2SentIs
<1> HIDE DEF h
<1>3. Marked(f, h)
  BY <1>1, <1>2 DEF Marked, Active
<1> QED BY <1>1, <1>3 DEF h

LEMMA MarkExternalMarked ==
  ASSUME NEW f, NEW g, Good(g), Marked(f, g), NEW Z \in SUBSET Zones
  PROVE  Good(MarkExternal(g, Z)) /\ Marked(f, MarkExternal(g, Z))
<1> DEFINE ok == {z \in Z : mode[z] # "blocked" /\ ~g.slot[z].extinguish_locked}
           h == EnsureSlots(g, ok)
           Y == {z \in ok : Active(h, z) /\ ~h.slot[z].phase2_sent}
<1>1. MarkExternal(g, Z) = MarkPhase2Sent(h, Y)
  BY DEF MarkExternal
<1>2. Good(h) /\ Marked(f, h)
  BY EnsureMarked
<1>3. \A z \in Y : Active(h, z)
  OBVIOUS
<1> HIDE DEF h, Y
<1> QED BY <1>1, <1>2, <1>3, MarkMarked

LEMMA BusStartSame ==
  ASSUME NEW g, Good(g), NEW z \in Zones \cup {NoZone}
  PROVE  Same(g, BusStart(g, z))
<1> DEFINE Z == {y \in Zones : igniters[y] # "offline"}
           a == MarkExternal(g, Z)
           rest == {y \in Z : ~Active(a, y)}
           k == EnsureSlots(a, rest)
           Y == {y \in rest : Active(k, y)}
           h == IF z = NoZone THEN MarkExternalAll(g) ELSE MarkExternal(g, {z})
<1>1. Marked(g, g)
  BY DEF Marked
<1>2. MarkExternalAll(g) = MarkPhase2Sent(k, Y)
  BY DEF MarkExternalAll
<1>3. Good(a) /\ Marked(g, a)
  BY <1>1, MarkExternalMarked
<1>4. rest \in SUBSET Zones
  OBVIOUS
<1> HIDE DEF a, rest
<1>5. Good(k) /\ Marked(g, k)
  BY <1>3, <1>4, EnsureMarked
<1>6. \A y \in Y : Active(k, y)
  OBVIOUS
<1> HIDE DEF k, Y
<1>7. Good(MarkExternalAll(g)) /\ Marked(g, MarkExternalAll(g))
  BY <1>2, <1>5, <1>6, MarkMarked
<1>8. Good(h) /\ Marked(g, h)
  BY <1>1, <1>7, MarkExternalMarked
<1>9. BusStart(g, z) \in {h, Started(h)}
  BY DEF BusStart
<1> HIDE DEF h
<1> DEFINE l == [h EXCEPT !.start_latched = TRUE]
<1>10. l \in FireRecord /\ l.table = h.table /\ l.slot = h.slot
  BY <1>8 DEF Good, FireRecord
<1>11. Started(h) = SyncStateFromSlots(l)
  BY DEF Started
<1> HIDE DEF l
<1>12. Good(l) /\ Frozen(h, l)
  BY <1>8, <1>10, KeptOK, KeptFrozen
<1>13. Same(g, h)
  BY <1>8, MarkedIsSame
<1> QED BY <1>9, <1>11, <1>12, <1>13, SyncFrozen, FrozenChain

\* Time passes for all that are not paused.
LEMMA AgedTime ==
  ASSUME NEW g, Good(g), NEW z \in Zones
  PROVE  /\ Pending(Aged(g), z) <=> Pending(g, z)
         /\ Pending(g, z) =>
              Remaining(Aged(g), z) = IF g.slot[z].countdown_paused
                                      THEN Remaining(g, z) ELSE Less(Remaining(g, z))
<1> DEFINE h == Aged(g)
<1>1. h.table = g.table
  BY AgedOK DEF OnSlots
<1>2. h.slot[z] = IF Active(g, z) THEN Older(g.slot[z]) ELSE g.slot[z]
  BY DEF Aged, Good, FireRecord
<1> HIDE DEF h
<1>3. LET s == g.slot[z] IN
      /\ Older(s).phase2_sent = s.phase2_sent
      /\ Older(s).fire1_waiting = s.fire1_waiting
      /\ Older(s).launch_stopped = s.launch_stopped
      /\ Older(s).countdown_paused = s.countdown_paused
      /\ Older(s).paused_remaining = s.paused_remaining
      /\ Older(s).deadline_left = Less(s.deadline_left)
  BY SlotOK DEF Older, Slot
<1>4. Active(h, z) <=> Active(g, z)
  BY <1>1 DEF Active
<1>5. Pending(h, z) <=> Pending(g, z)
  BY <1>2, <1>3, <1>4 DEF Pending
<1>6. ASSUME Pending(g, z)
      PROVE  Remaining(h, z) = IF g.slot[z].countdown_paused
                               THEN Remaining(g, z) ELSE Less(Remaining(g, z))
  BY <1>2, <1>3, <1>6 DEF Pending, Remaining
<1> QED BY <1>5, <1>6 DEF h
-----------------------------------------------------------------------------
(* The countdowns, one action at a time. *)

Shortens == \A z \in Zones : OnlyTimeShortens(fire, fire', z)

LEMMA RemainingOK ==
  ASSUME NEW g, Good(g), NEW z \in Zones
  PROVE  Remaining(g, z) \in Nat
BY SlotOK DEF Remaining, Slot

LEMMA SameShortens ==
  ASSUME Inv, Same(fire, fire')
  PROVE  Shortens
<1> SUFFICES ASSUME NEW z \in Zones
             PROVE  OnlyTimeShortens(fire, fire', z)
  BY DEF Shortens
<1>1. Remaining(fire, z) \in Nat
  BY RemainingOK DEF Inv, TypeOK, Good
<1>2. Pending(fire, z) /\ Pending(fire', z) => Remaining(fire', z) = Remaining(fire, z)
  BY DEF Same
<1> QED BY <1>1, <1>2 DEF OnlyTimeShortens

LEMMA QuietSame ==
  ASSUME Inv, NEW h, Same(Quiet(fire), h)
  PROVE  Same(fire, h)
<1>1. Good(fire)
  BY DEF Inv, TypeOK, Good
<1>2. Quiet(fire).table = fire.table /\ Quiet(fire).slot = fire.slot
  BY <1>1, QuietOK DEF Aside, OnSlots
<1> QED BY <1>2 DEF Same, Pending, Active, Remaining

LEMMA TickShortens ==
  ASSUME Inv, Tick
  PROVE  Shortens
<1> DEFINE q == Quiet(fire)
           g == Aged(q)
<1>1. Good(q) /\ q.table = fire.table /\ q.slot = fire.slot
  BY QuietOK DEF Inv, TypeOK, Good, Aside, OnSlots
<1>2. fire' \in {g, Settle(Promoted(g))}
  BY DEF Tick
<1> HIDE DEF q
<1>3. Good(g) /\ Same(g, g)
  BY <1>1, AgedOK DEF OnSlots, Same
<1>4. \A z \in Zones :
        /\ Pending(g, z) <=> Pending(q, z)
        /\ Pending(q, z) =>
              Remaining(g, z) = IF q.slot[z].countdown_paused
                                THEN Remaining(q, z) ELSE Less(Remaining(q, z))
  BY <1>1, AgedTime
<1> HIDE DEF g
<1>5. Same(g, fire')
  BY <1>2, <1>3, PromotedSame, PromotedOK, SettleFrozen, FrozenChain
<1>6. \A z \in Zones : /\ Pending(q, z) <=> Pending(fire, z)
                       /\ Remaining(q, z) = Remaining(fire, z)
  BY <1>1 DEF Pending, Active, Remaining
<1> SUFFICES ASSUME NEW z \in Zones, Pending(fire, z), Pending(fire', z),
                    Remaining(fire', z) < Remaining(fire, z)
             PROVE  /\ ~fire.slot[z].countdown_paused
                    /\ Remaining(fire', z) + 1 = Remaining(fire, z)
  BY DEF Shortens, OnlyTimeShortens
<1> DEFINE n == Remaining(fire, z)
<1>7. n \in Nat
  BY RemainingOK DEF Inv, TypeOK, Good
<1>8. Remaining(fire', z) = IF fire.slot[z].countdown_paused THEN n ELSE Less(n)
  BY <1>1, <1>4, <1>5, <1>6 DEF Same
<1>9. Remaining(fire', z) < n
  OBVIOUS
<1> HIDE DEF n
<1>10. ~fire.slot[z].countdown_paused
  BY <1>7, <1>8, <1>9
<1> QED BY <1>7, <1>8, <1>9, <1>10 DEF Less, n

LEMMA OnStatusFireShortens ==
  ASSUME Inv, NEW z \in Zones, NEW k \in SourcesOf[z], OnStatusFire(z, k)
  PROVE  Shortens
<1> DEFINE g == Quiet(fire)
           s == NewSlot(z, k)
           p == PutSlot(g, z, s)
<1>1. Good(g) /\ (Active(g, z) <=> Active(fire, z))
  BY StartOK
<1>2. k \in Sources
  BY SurroundingsAssumption
<1>3. s \in Slot /\ SlotConsistent(s)
  BY <1>2, NewSlotOK DEF Inv, TypeOK
<1>4. fire' = IF Active(fire, z) THEN KnownZone(g, z, k) ELSE Settle(StatusFire(p))
  BY DEF OnStatusFire
<1> HIDE DEF g, s
<1>5. Same(g, fire')
  <2>1. CASE Active(fire, z)
    BY <1>1, <1>2, <1>4, <2>1, KnownZoneSame
  <2>2. CASE ~Active(fire, z)
    <3>1. Good(p) /\ Same(g, p)
      BY <1>1, <1>3, <2>2, PutSlotOK, PutSlotSame
    <3> HIDE DEF p
    <3>2. Good(StatusFire(p)) /\ Frozen(p, StatusFire(p))
      BY <3>1, StatusFireOK, StatusFireFrozen DEF OnSlots
    <3> QED BY <1>4, <2>2, <3>1, <3>2, SettleFrozen, FrozenChain
  <2> QED BY <2>1, <2>2
<1> QED BY <1>5, QuietSame, SameShortens DEF g

\* The handlers that are no report, and no pause from the bus.
LEMMA OthersShorten ==
  ASSUME Inv,
         \/ BtnStopPressed \/ GostReset \/ TransitionOnly
         \/ \E z \in Zones \cup {NoZone} : OnStartExtinguishment(z)
         \/ OnStopExtinguishment
         \/ \E z \in Zones : StartSettled(z)
         \/ Fire_Init
         \/ \E z \in Zones : IgnitersSeen(z)
         \/ Configured \/ ConfigSession
  PROVE  Shortens
<1> DEFINE g == Quiet(fire)
<1>1. Good(g) /\ \A z \in Zones : Active(g, z) <=> Active(fire, z)
  BY StartOK
<1>2. ASSUME NEW h, Good(h), Same(g, h), fire' = Settle(h)
      PROVE  Shortens
  <2>1. Same(g, fire')
    BY <1>2, SettleFrozen, FrozenChain
  <2> QED BY <2>1, QuietSame, SameShortens
<1>3. ASSUME Same(g, fire')
      PROVE  Shortens
  BY <1>3, QuietSame, SameShortens
<1>4. CASE BtnStopPressed
  <2>1. PICK z \in Zones : Active(fire, z) /\ fire' = Settle(BtnStop(g, z))
    BY <1>4 DEF BtnStopPressed
  <2> HIDE DEF g
  <2>2. Good(BtnStop(g, z)) /\ Same(g, BtnStop(g, z))
    BY <1>1, <2>1, BtnStopOK, BtnStopFrozen, FrozenIsSame DEF OnSlots
  <2> QED BY <1>2, <2>1, <2>2
<1>5. CASE GostReset
  <2>1. PICK sel \in Zones \cup {NoZone} :
          fire' = IF sel = NoZone THEN ResetAll(g)
                  ELSE LET k == SyncStateFromSlots([ResetZone(g, sel) EXCEPT !.start_latched = FALSE])
                       IN  IF AnyActive(k) THEN Settle(k)
                           ELSE [k EXCEPT !.zone_countdown_stopped = FALSE,
                                          !.zone_countdown_paused = FALSE]
    BY <1>5 DEF GostReset, Choices
  <2> HIDE DEF g
  <2>2. CASE sel = NoZone
    <3>1. ResetAll(g).table = EmptyFire.table
      BY DEF ResetAll, EmptyFire
    <3> QED BY <1>3, <2>1, <2>2, <3>1, BlankFrozen, FrozenIsSame
  <2>3. CASE sel # NoZone
    <3> DEFINE h == ResetZone(g, sel)
               r == [h EXCEPT !.start_latched = FALSE]
               k == SyncStateFromSlots(r)
               e == [k EXCEPT !.zone_countdown_stopped = FALSE,
                              !.zone_countdown_paused = FALSE]
    <3>1. Good(h) /\ Frozen(g, h)
      BY <1>1, <2>3, ResetZoneOK, ResetZoneFrozen
    <3>2. fire' = IF AnyActive(k) THEN Settle(k) ELSE e
      BY <2>1, <2>3
    <3> HIDE DEF h
    <3>3. r \in FireRecord /\ r.table = h.table /\ r.slot = h.slot
      BY <3>1 DEF Good, FireRecord
    <3> HIDE DEF r
    <3>4. Good(r) /\ Frozen(g, r)
      BY <3>1, <3>3, KeptOK, KeptFrozen, FrozenChain
    <3>5. Good(k) /\ Frozen(g, k)
      BY <3>4, SyncOK, SyncFrozen, FrozenChain DEF OnSlots
    <3> HIDE DEF k
    <3>6. e.table = k.table /\ e.slot = k.slot
      BY <3>5 DEF Good, FireRecord
    <3> HIDE DEF e
    <3>7. Same(g, e) /\ Same(g, k)
      BY <3>5, <3>6, KeptFrozen, FrozenChain, FrozenIsSame
    <3> QED BY <1>2, <1>3, <3>2, <3>5, <3>7
  <2> QED BY <2>2, <2>3
<1>6. CASE TransitionOnly
  BY <1>1, <1>2, <1>6 DEF TransitionOnly, Same
<1>7. ASSUME NEW z \in Zones \cup {NoZone}, OnStartExtinguishment(z)
      PROVE  Shortens
  <2>1. fire' = Settle(BusStart(g, z))
    BY <1>7 DEF OnStartExtinguishment
  <2> HIDE DEF g
  <2> QED BY <1>1, <1>2, <2>1, BusStartOK, BusStartSame
<1>8. CASE OnStopExtinguishment
  <2>1. fire' = Settle(StopExt(g))
    BY <1>8 DEF OnStopExtinguishment
  <2> HIDE DEF g
  <2> QED BY <1>1, <1>2, <2>1, StopExtOK, StopExtFrozen, FrozenIsSame DEF OnSlots
<1>9. ASSUME NEW z \in Zones, StartSettled(z)
      PROVE  Shortens
  <2>1. fire' = [g EXCEPT !.start_retry = @ \ {z}]
    BY <1>9 DEF StartSettled
  <2> HIDE DEF g
  <2>2. fire'.table = g.table /\ fire'.slot = g.slot
    BY <1>1, <2>1 DEF Good, FireRecord
  <2> QED BY <1>3, <2>2, KeptFrozen, FrozenIsSame
<1>10. CASE Fire_Init
  <2>1. fire'.table = EmptyFire.table
    BY <1>10 DEF Fire_Init
  <2> QED BY <1>3, <2>1, BlankFrozen, FrozenIsSame
<1>11. CASE (\E z \in Zones : IgnitersSeen(z)) \/ Configured \/ ConfigSession
  <2>1. fire' = g
    BY <1>11 DEF IgnitersSeen, Configured, ConfigSession
  <2> QED BY <1>3, <2>1 DEF Same
<1> QED BY <1>4, <1>5, <1>6, <1>7, <1>8, <1>9, <1>10, <1>11

\* As long as no pause from the bus is involved and no PUSK is given, nothing
\* but the passing of time shortens a countdown, and a countdown paused on the
\* panel not even that (Fire_Timer1ms, the OSTANOV button, reports of fire,
\* resets, launches, for any number of zones and any delays).
THEOREM PanelPauseFreezesAlways == Spec => PanelPauseFreezes
<1> DEFINE Freezes == \/ \A z \in Zones : OnlyTimeShortens(fire, fire', z)
                      \/ fire.zone_countdown_paused \/ fire'.zone_countdown_paused
                      \/ BtnStartSp \/ BtnStartAll
<1>1. Inv /\ [Next]_vars => [Freezes]_vars
  <2> SUFFICES ASSUME Inv, Next, ~BtnStartSp, ~BtnStartAll,
                      ~fire.zone_countdown_paused, ~fire'.zone_countdown_paused
               PROVE  Shortens
    BY DEF Shortens
  <2>1. ~OnResumeExtinguishmentTimer
    BY DEF OnResumeExtinguishmentTimer
  <2>2. ~OnPauseExtinguishmentTimer
    <3> SUFFICES ASSUME OnPauseExtinguishmentTimer
                 PROVE  FALSE
      OBVIOUS
    <3> DEFINE Z == CountingSlots(fire)
               h == [Quiet(fire) EXCEPT !.zone_countdown_paused = TRUE,
                       !.slot = [z \in Zones |-> IF z \in Z THEN PauseSlot(@[z]) ELSE @[z]]]
    <3>1. fire' = Queue(h, "PAUSE", Z)
      BY DEF OnPauseExtinguishmentTimer
    <3>2. Quiet(fire) \in FireRecord
      BY StartOK DEF Good
    <3>3. h.zone_countdown_paused
      BY <3>2 DEF FireRecord
    <3>4. Queue(h, "PAUSE", Z).zone_countdown_paused = h.zone_countdown_paused
      BY DEF Queue
    <3> QED BY <3>1, <3>3, <3>4
  <2> QED BY <2>1, <2>2, TickShortens, OnStatusFireShortens, OthersShorten DEF Next
<1> QED BY <1>1, Invariance, PTL DEF Spec, PanelPauseFreezes
=============================================================================
