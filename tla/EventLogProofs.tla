--------------------------- MODULE EventLogProofs ---------------------------
(***************************************************************************)
(* Proofs about EventLog, for every size of the log: its typing; and, when *)
(* commands to the flash are carried out as a whole and no write is        *)
(* interrupted, that no record is lost before the log is first full, that  *)
(* the recent records are kept after that, and that the store implements   *)
(* RecentLog.                                                              *)
(***************************************************************************)
EXTENDS EventLog, FiniteSetTheorems, WellFoundedInduction, NaturalsInduction, TLAPS

Tier == [initialized : BOOLEAN, total_records : 0 .. Capacity,
         last_index : Index, current : Index]

LEMMA CapacityOK == Capacity \in Nat \ {0}
BY SizeAssumption DEF Capacity

LEMMA ZeroIsIndex == 0 \in Index
BY CapacityOK DEF Index
-----------------------------------------------------------------------------
(* The scan. *)

\* Every nonempty set of physical indices has a least one.
LEMMA LeastIndex ==
  ASSUME NEW S \in SUBSET Index, S # {}
  PROVE  \E x \in S : \A y \in S : x <= y
<1>1. S \in SUBSET Nat
  BY CapacityOK DEF Index
<1>2. PICK x \in S : \A y \in S : ~ (<<y, x>> \in OpToRel(<, Nat))
  BY <1>1, WFMin, NatLessThanWellFounded, Zenon
<1>3. \A y \in S : ~ (y < x)
  BY <1>1, <1>2, Zenon DEF OpToRel
<1> QED BY <1>1, <1>3

LEMMA GreatestIndex ==
  ASSUME NEW S \in SUBSET Index, S # {}
  PROVE  \E x \in S : \A y \in S : y <= x
<1> DEFINE T == {Capacity - 1 - x : x \in S}
<1>1. T \in SUBSET Index /\ T # {}
  <2>1. \A x \in S : Capacity - 1 - x \in Index
    BY CapacityOK DEF Index
  <2> QED BY <2>1
<1>2. PICK t \in T : \A u \in T : t <= u
  BY <1>1, LeastIndex
<1>3. PICK x \in S : t = Capacity - 1 - x
  BY <1>2
<1>4. ASSUME NEW y \in S PROVE y <= x
  <2>1. t <= Capacity - 1 - y
    BY <1>2
  <2> QED BY <1>3, <2>1, CapacityOK DEF Index
<1> QED BY <1>4

LEMMA ScanOK ==
  ASSUME NEW f \in [Index -> Cell]
  PROVE  Scan(f) \in Tier /\ Scan(f).initialized
<1> DEFINE counted == Counted(f)
           behind == {i \in Index : /\ f[i] = Empty /\ Before(i) # {}
                                    /\ \A j \in Before(i) : f[j] = Bad}
           last == IF counted = {} THEN 0
                   ELSE CHOOSE i \in counted : \A j \in counted : j <= i
           current == IF counted # {} \/ behind = {} THEN 0
                      ELSE CHOOSE i \in behind : \A j \in behind : i <= j
<1>1. counted \in SUBSET Index /\ behind \in SUBSET Index
  BY DEF Counted
<1>2. Cardinality(counted) \in 0 .. Capacity
  <2>1. IsFiniteSet(Index) /\ Cardinality(Index) = Capacity
    BY FS_Interval, CapacityOK DEF Index
  <2> QED BY <1>1, <2>1, FS_Subset, FS_CardinalityType, CapacityOK
<1>3. last \in Index
  BY <1>1, GreatestIndex, ZeroIsIndex
<1>4. current \in Index
  BY <1>1, LeastIndex, ZeroIsIndex
<1>5. Scan(f) = [initialized |-> TRUE, total_records |-> Cardinality(counted),
                 last_index |-> last, current |-> current]
  BY DEF Scan
<1> HIDE DEF counted, last, current
<1> QED BY <1>2, <1>3, <1>4, <1>5 DEF Tier

\* The first n cells hold records and the rest is erased.
Prefix(f, n) == \A i \in Index : IF i < n THEN Valid(f[i]) ELSE f[i] = Empty

\* A log that was never full is found again as it was left.
LEMMA ScanPrefix ==
  ASSUME NEW f \in [Index -> Cell], NEW n \in 0 .. Capacity, Prefix(f, n)
  PROVE  /\ Scan(f).total_records = n
         /\ n > 0 => Scan(f).last_index = n - 1
         /\ n = 0 => Scan(f).current = 0
<1> DEFINE counted == Counted(f)
           behind == {i \in Index : /\ f[i] = Empty /\ Before(i) # {}
                                    /\ \A j \in Before(i) : f[j] = Bad}
           last == IF counted = {} THEN 0
                   ELSE CHOOSE i \in counted : \A j \in counted : j <= i
           current == IF counted # {} \/ behind = {} THEN 0
                      ELSE CHOOSE i \in behind : \A j \in behind : i <= j
<1>1. counted = 0 .. n - 1
  <2>1. ASSUME NEW i \in Index PROVE i \in Counted(f) <=> i < n
    <3>1. i < n => \A j \in Before(i) : Passed(f, j)
      BY CapacityOK DEF Before, Passed, Prefix, Index
    <3> QED BY <3>1 DEF Counted, Prefix, Valid, Record, Empty
  <2> QED BY <2>1, CapacityOK DEF Counted, Index
<1>2. Cardinality(counted) = n
  BY <1>1, FS_Interval, CapacityOK
<1>3. ASSUME n > 0 PROVE last = n - 1
  <2>1. counted # {} /\ n - 1 \in counted
    BY <1>1, <1>3, CapacityOK
  <2>2. \A i \in counted : (\A j \in counted : j <= i) <=> i = n - 1
    BY <1>1, <1>3, CapacityOK
  <2> HIDE DEF counted
  <2>3. (CHOOSE i \in counted : \A j \in counted : j <= i) = n - 1
    BY <2>1, <2>2
  <2> QED BY <2>1, <2>3
<1>4. ASSUME n = 0 PROVE current = 0
  <2>1. behind = {}
    BY <1>4, CapacityOK DEF Prefix, Before, Index, Empty, Bad
  <2> HIDE DEF counted, behind
  <2> QED BY <2>1
<1>5. Scan(f) = [initialized |-> TRUE, total_records |-> Cardinality(counted),
                 last_index |-> last, current |-> current]
  BY DEF Scan
<1> HIDE DEF counted, last, current
<1> QED BY <1>2, <1>3, <1>4, <1>5
-----------------------------------------------------------------------------
(* Typing. *)

LEMMA WriteIndexOK ==
  ASSUME NEW t \in Tier
  PROVE  WriteIndex(t) \in Index
<1>1. (t.last_index + 1) % Capacity \in Index
  BY CapacityOK DEF Tier, Index
<1> QED BY <1>1 DEF WriteIndex, Tier

LEMMA FlashOK ==
  ASSUME NEW f \in [Index -> Cell], NEW i \in Index
  PROVE  /\ Erased(f, i) \in [Index -> Cell]
         /\ \A r \in Record : Programmed(f, i, r) \in [Index -> Cell]
BY DEF Erased, Programmed, Cell

LEMMA WrittenOK ==
  ASSUME NEW t \in Tier, NEW i \in Index
  PROVE  Written(t, i) \in Tier /\ Written(t, i).initialized = t.initialized
<1> DEFINE n == IF Full(t) THEN Capacity ELSE t.total_records + 1
<1>1. n \in 0 .. Capacity
  BY CapacityOK DEF Tier, Full
<1>2. Written(t, i) = [t EXCEPT !.last_index = i, !.current = i, !.total_records = n]
  BY DEF Written, Tier
<1> HIDE DEF n
<1> QED BY <1>1, <1>2 DEF Tier

\* A step of a write has a record and a place to write it.
Typed ==
  /\ TypeOK
  /\ writer.pc # "idle" => writer.record \in 1 .. posted

LEMMA InitTyped == Init => Typed
BY ZeroIsIndex, CapacityOK DEF Init, Typed, TypeOK, Cell, Off, Idle, Step

LEMMA CutShortOK ==
  ASSUME Typed
  PROVE  CutShort \subseteq [Index -> Cell]
<1> USE DEF Typed, TypeOK
<1>1. CASE writer.pc = "erase"
  <2>1. \A S : [i \in Index |-> IF i \in S THEN Empty ELSE flash[i]] \in [Index -> Cell]
    BY DEF Cell
  <2> QED BY <1>1, <2>1, FlashOK DEF CutShort
<1>2. CASE writer.pc = "program"
  <2>1. [flash EXCEPT ![writer.at] = Bad] \in [Index -> Cell]
    BY DEF Cell
  <2>2. writer.record \in Record
    BY <1>2 DEF Record
  <2>3. CutShort \subseteq {flash, Programmed(flash, writer.at, writer.record),
                           [flash EXCEPT ![writer.at] = Bad]}
    BY <1>2 DEF CutShort
  <2>4. Programmed(flash, writer.at, writer.record) \in [Index -> Cell]
    BY <2>2, FlashOK
  <2>5. flash \in [Index -> Cell]
    OBVIOUS
  <2> QED BY <2>1, <2>3, <2>4, <2>5
<1>3. CASE writer.pc \in {"idle", "commit"}
  BY <1>3 DEF CutShort
<1> QED BY <1>1, <1>2, <1>3 DEF Step

LEMMA NextTyped ==
  ASSUME Typed, [Next]_vars
  PROVE  Typed'
<1> USE DEF Typed, TypeOK
<1>0. Tier = [initialized : BOOLEAN, total_records : 0 .. Capacity,
              last_index : Index, current : Index]
  BY DEF Tier
<1>1. CASE Post
  BY <1>0, <1>1, WriteIndexOK DEF Post, Step
<1>2. CASE Erase
  BY <1>2, FlashOK DEF Erase, Step
<1>3. CASE Program
  <2>1. writer.record \in Record
    BY <1>3 DEF Program, Record
  <2> QED BY <1>3, <2>1, FlashOK DEF Program, Step
<1>4. CASE Commit
  BY <1>0, <1>4, WrittenOK, ZeroIsIndex DEF Commit, Step, Idle
<1>5. CASE Fail
  BY <1>5, CutShortOK, ZeroIsIndex DEF Fail, Step, Idle
<1>6. CASE InterruptPost
  <2> DEFINE i == WriteIndex(tier)
             f == IF NeedsErase(tier, flash, i) THEN Erased(flash, i) ELSE flash
  <2>1. i \in Index
    BY <1>0, WriteIndexOK
  <2>2. f \in [Index -> Cell]
    BY <2>1, FlashOK
  <2>3. flash' = Programmed(f, i, posted + 1) /\ tier' = Written(tier, i)
    BY <1>6 DEF InterruptPost
  <2>4. posted + 1 \in Record
    BY DEF Record
  <2> HIDE DEF i, f
  <2>5. flash' \in [Index -> Cell] /\ tier' \in Tier
    BY <1>0, <2>1, <2>2, <2>3, <2>4, FlashOK, WrittenOK
  <2> QED BY <1>0, <1>6, <2>5 DEF InterruptPost
<1>7. CASE PowerLoss
  BY <1>7, CutShortOK, ZeroIsIndex, CapacityOK DEF PowerLoss, Off, Idle, Step
<1>8. CASE EventLogTier_Init
  BY <1>0, <1>8, ScanOK DEF EventLogTier_Init
<1>9. CASE UNCHANGED vars
  BY <1>9 DEF vars
<1> QED BY <1>1, <1>2, <1>3, <1>4, <1>5, <1>6, <1>7, <1>8, <1>9 DEF Next
-----------------------------------------------------------------------------
(* Nothing is lost before the log is full. *)

\* What the writer of the main loop relies on while no more records were posted
\* than the log holds: the records are the first cells, the next one goes to
\* the first erased cell, and a sector is erased only if it is erased already.
Filling ==
  LET n == tier.total_records
  IN  /\ ~tier.initialized =>
             writer.pc = "idle" /\ \E k \in 0 .. Capacity : k <= posted /\ Prefix(flash, k)
      /\ tier.initialized =>
             /\ n > 0 => tier.last_index = n - 1
             /\ n = 0 => tier.current = 0
             /\ writer.pc = "idle" => n <= posted /\ Prefix(flash, n)
             /\ writer.pc # "idle" => n < posted /\ writer.at = n
             /\ writer.pc \in {"erase", "program"} => Prefix(flash, n)
             /\ writer.pc = "erase" => SectorIsEmpty(flash, n)
             /\ writer.pc = "commit" => Prefix(flash, n + 1) /\ flash[n] = writer.record

Inv ==
  /\ Typed
  /\ posted <= Capacity => Filling /\ acked \subseteq Stored

Undisturbed == ~Tears /\ InterruptedAt \subseteq {"idle"}

\* The place of the next record of a log that is not full.
LEMMA NextPlace ==
  ASSUME NEW t \in Tier, NEW f, t.total_records < Capacity,
         t.total_records > 0 => t.last_index = t.total_records - 1,
         t.total_records = 0 => t.current = 0
  PROVE  /\ WriteIndex(t) = t.total_records
         /\ ~Full(t)
         /\ NeedsErase(t, f, WriteIndex(t)) => SectorIsEmpty(f, WriteIndex(t))
<1>1. t.total_records \in Nat /\ Capacity \in Nat
  BY CapacityOK DEF Tier
<1>2. t.total_records > 0 => t.total_records % Capacity = t.total_records
  BY <1>1
<1> QED BY <1>1, <1>2 DEF WriteIndex, Full, NeedsErase

\* Erasing an erased sector changes nothing.
LEMMA ErasedEmpty ==
  ASSUME NEW f \in [Index -> Cell], NEW i \in Index, SectorIsEmpty(f, i)
  PROVE  Erased(f, i) = f
BY DEF Erased, SectorIsEmpty

\* The next record extends the prefix and keeps every stored record.
LEMMA ProgrammedPrefix ==
  ASSUME NEW f \in [Index -> Cell], NEW n \in Index, Prefix(f, n), NEW r \in Record
  PROVE  /\ Prefix(Programmed(f, n, r), n + 1)
         /\ Programmed(f, n, r)[n] = r
         /\ \A i \in Index : Valid(f[i]) => Programmed(f, n, r)[i] = f[i]
<1>1. f[n] = Empty
  BY CapacityOK DEF Prefix, Index
<1>2. Programmed(f, n, r) = [f EXCEPT ![n] = r]
  BY <1>1 DEF Programmed
<1> QED BY <1>1, <1>2, CapacityOK DEF Prefix, Valid, Record, Empty, Index

LEMMA InitInv == Init => Inv
<1> SUFFICES ASSUME Init PROVE Inv
  OBVIOUS
<1>1. Typed
  BY InitTyped
<1>2. 0 \in 0 .. Capacity /\ Prefix(flash, 0)
  BY CapacityOK DEF Init, Prefix, Index
<1>3. Filling
  BY <1>2 DEF Init, Filling, Off, Idle
<1> QED BY <1>1, <1>3 DEF Inv, Init

LEMMA NextInv ==
  ASSUME Undisturbed, Inv, [Next]_vars
  PROVE  Inv'
<1>1. Typed /\ Typed'
  BY NextTyped DEF Inv
<1> SUFFICES ASSUME posted' <= Capacity
             PROVE  Filling' /\ acked' \subseteq Stored'
  BY <1>1 DEF Inv
<1>2. /\ tier \in Tier /\ flash \in [Index -> Cell] /\ posted \in Nat
      /\ writer.at \in Index /\ writer.pc \in Step
      /\ writer.pc # "idle" => writer.record \in Record
  BY <1>1 DEF Typed, TypeOK, Tier, Record
<1>3. tier.total_records \in Nat /\ Capacity \in Nat
  BY <1>2, CapacityOK DEF Tier
<1>4. posted <= posted'
  BY <1>2 DEF Next, vars, Post, Erase, Program, Commit, Fail, InterruptPost,
              PowerLoss, EventLogTier_Init
<1>5. Filling /\ acked \subseteq Stored
  BY <1>1, <1>2, <1>3, <1>4 DEF Inv, Typed, TypeOK
<1>6. CASE Post
  <2>1. tier.initialized /\ tier.total_records <= posted /\ posted' = posted + 1
        /\ Prefix(flash, tier.total_records) /\ tier' = tier /\ flash' = flash
        /\ acked' = acked
    BY <1>5, <1>6 DEF Post, Filling
  <2>2. /\ WriteIndex(tier) = tier.total_records
        /\ NeedsErase(tier, flash, WriteIndex(tier)) =>
              SectorIsEmpty(flash, WriteIndex(tier))
    BY <1>2, <1>3, <1>5, <2>1, NextPlace DEF Filling
  <2>3. writer'.pc \in {"erase", "program"} /\ writer'.at = tier.total_records
        /\ (writer'.pc = "erase" => SectorIsEmpty(flash, tier.total_records))
    BY <1>6, <2>2 DEF Post
  <2>4. /\ tier'.initialized /\ tier'.total_records < posted'
        /\ writer'.pc # "idle" /\ writer'.pc # "commit"
        /\ writer'.at = tier'.total_records
        /\ Prefix(flash', tier'.total_records)
        /\ writer'.pc = "erase" => SectorIsEmpty(flash', tier'.total_records)
    BY <1>2, <1>3, <2>1, <2>3
  <2>5. /\ tier'.total_records > 0 => tier'.last_index = tier'.total_records - 1
        /\ tier'.total_records = 0 => tier'.current = 0
    BY <1>5, <2>1 DEF Filling
  <2>6. Filling'
    BY <2>4, <2>5 DEF Filling
  <2> QED BY <1>5, <2>1, <2>6 DEF Stored
<1>7. CASE Erase
  <2>1. tier.initialized /\ SectorIsEmpty(flash, writer.at)
    BY <1>5, <1>7 DEF Erase, Filling
  <2>2. flash' = flash
    BY <1>2, <1>7, <2>1, ErasedEmpty DEF Erase
  <2>3. tier' = tier /\ posted' = posted /\ acked' = acked
        /\ writer'.pc = "program" /\ writer'.at = writer.at
    BY <1>1, <1>7 DEF Erase, Typed, TypeOK
  <2>4. Filling'
    BY <1>5, <1>7, <2>1, <2>2, <2>3 DEF Filling, Erase
  <2> QED BY <1>5, <2>2, <2>3, <2>4 DEF Stored
<1>8. CASE Program
  <2>1. /\ tier.initialized /\ writer.at = tier.total_records
        /\ Prefix(flash, tier.total_records)
    BY <1>5, <1>8 DEF Program, Filling
  <2>2. /\ tier' = tier /\ posted' = posted /\ acked' = acked
        /\ writer'.pc = "commit" /\ writer'.at = writer.at
        /\ writer'.record = writer.record
        /\ flash' = Programmed(flash, writer.at, writer.record)
    BY <1>1, <1>8 DEF Program, Typed, TypeOK
  <2>3. writer.record \in Record
    BY <1>2, <1>8 DEF Program
  <2>4. /\ Prefix(flash', tier.total_records + 1)
        /\ flash'[tier.total_records] = writer.record
        /\ \A i \in Index : Valid(flash[i]) => flash'[i] = flash[i]
    BY <1>2, <2>1, <2>2, <2>3, ProgrammedPrefix
  <2>5. Filling'
    BY <1>5, <1>8, <2>1, <2>2, <2>4 DEF Filling, Program
  <2>6. acked \subseteq Record
    BY <1>1 DEF Typed, TypeOK, Record
  <2>7. acked \subseteq Stored'
    BY <1>5, <2>4, <2>6 DEF Stored, Valid
  <2> QED BY <2>2, <2>5, <2>7
<1>9. CASE Commit
  <2>1. /\ tier.initialized /\ writer.at = tier.total_records
        /\ Prefix(flash, tier.total_records + 1)
        /\ flash[tier.total_records] = writer.record
        /\ tier.total_records < posted
    BY <1>5, <1>9 DEF Commit, Filling
  <2>2. /\ tier' = Written(tier, writer.at) /\ writer' = Idle /\ posted' = posted
        /\ flash' = flash /\ acked' = acked \cup {writer.record}
    BY <1>9 DEF Commit
  <2>3. /\ tier'.initialized /\ tier'.last_index = tier.total_records
        /\ tier'.total_records = tier.total_records + 1
    BY <1>2, <1>3, <2>1, <2>2 DEF Written, Full, Tier
  <2>4. /\ writer'.pc = "idle" /\ tier'.total_records <= posted'
        /\ tier'.total_records # 0
        /\ tier'.last_index = tier'.total_records - 1
        /\ Prefix(flash', tier'.total_records)
    BY <1>2, <1>3, <2>1, <2>2, <2>3 DEF Idle
  <2>5. Filling'
    BY <2>3, <2>4 DEF Filling
  <2> QED BY <1>2, <1>5, <2>1, <2>2, <2>5 DEF Stored
<1>10. CASE Fail
  <2>1. tier.initialized /\ Prefix(flash, tier.total_records)
        /\ tier.total_records < posted
    BY <1>5, <1>10 DEF Fail, Filling
  <2>2. flash' = flash
    <3>1. CASE writer.pc = "erase"
      <4>1. SectorIsEmpty(flash, writer.at)
        BY <1>5, <2>1, <3>1 DEF Filling
      <4> QED BY <1>2, <1>10, <3>1, <4>1, ErasedEmpty DEF Fail, CutShort, Undisturbed
    <3>2. CASE writer.pc = "program"
      BY <1>10, <3>2 DEF Fail, CutShort, Undisturbed
    <3> QED BY <1>10, <3>1, <3>2 DEF Fail
  <2>3. tier' = tier /\ writer' = Idle /\ posted' = posted /\ acked' = acked
    BY <1>10 DEF Fail
  <2>4. /\ tier'.initialized /\ tier'.total_records <= posted'
        /\ writer'.pc = "idle" /\ Prefix(flash', tier'.total_records)
    BY <1>2, <1>3, <2>1, <2>2, <2>3 DEF Idle
  <2>5. /\ tier'.total_records > 0 => tier'.last_index = tier'.total_records - 1
        /\ tier'.total_records = 0 => tier'.current = 0
    BY <1>5, <2>1, <2>3 DEF Filling
  <2>6. Filling'
    BY <2>4, <2>5 DEF Filling
  <2> QED BY <1>5, <2>2, <2>3, <2>6 DEF Stored
<1>11. CASE InterruptPost
  <2> DEFINE n == tier.total_records
             f == IF NeedsErase(tier, flash, WriteIndex(tier))
                  THEN Erased(flash, WriteIndex(tier)) ELSE flash
  <2>1. writer.pc = "idle" /\ tier.initialized /\ n <= posted /\ Prefix(flash, n)
        /\ posted' = posted + 1 /\ acked' = acked \cup {posted + 1} /\ writer' = writer
    BY <1>5, <1>11 DEF InterruptPost, Filling, Undisturbed
  <2>2. n < Capacity
    BY <1>2, <1>3, <2>1
  <2>3. /\ WriteIndex(tier) = n /\ ~Full(tier)
        /\ NeedsErase(tier, flash, n) => SectorIsEmpty(flash, n)
    BY <1>2, <1>5, <2>1, <2>2, NextPlace DEF Filling
  <2>4. n \in Index
    BY <1>3, <2>2 DEF Index
  <2>5. f = flash
    BY <1>2, <2>3, <2>4, ErasedEmpty
  <2>6. flash' = Programmed(flash, n, posted + 1) /\ tier' = Written(tier, n)
    BY <1>11, <2>3, <2>5 DEF InterruptPost
  <2>7. posted + 1 \in Record
    BY <1>2 DEF Record
  <2>8. /\ Prefix(flash', n + 1) /\ flash'[n] = posted + 1
        /\ \A i \in Index : Valid(flash[i]) => flash'[i] = flash[i]
    BY <1>2, <2>1, <2>4, <2>6, <2>7, ProgrammedPrefix
  <2>9. tier'.initialized /\ tier'.last_index = n /\ tier'.total_records = n + 1
    BY <1>2, <1>3, <2>1, <2>3, <2>6 DEF Written, Tier
  <2>10. Filling'
    <3>1. /\ writer'.pc = "idle" /\ tier'.total_records <= posted'
          /\ tier'.total_records # 0
          /\ tier'.last_index = tier'.total_records - 1
          /\ Prefix(flash', tier'.total_records)
      BY <1>2, <1>3, <2>1, <2>8, <2>9
    <3> QED BY <2>9, <3>1 DEF Filling
  <2>11. acked \subseteq Record
    BY <1>1 DEF Typed, TypeOK, Record
  <2>12. acked' \subseteq Stored'
    BY <1>5, <2>1, <2>4, <2>8, <2>11 DEF Stored, Valid
  <2> QED BY <2>10, <2>12
<1>12. CASE PowerLoss
  <2>1. tier.initialized /\ tier' = Off /\ writer' = Idle /\ posted' = posted
        /\ acked' = acked /\ flash' \in CutShort
    BY <1>12 DEF PowerLoss
  <2>2. flash' = flash
    <3>1. CASE writer.pc = "erase"
      <4>1. SectorIsEmpty(flash, writer.at)
        BY <1>5, <2>1, <3>1 DEF Filling
      <4> QED BY <1>2, <2>1, <3>1, <4>1, ErasedEmpty DEF CutShort, Undisturbed
    <3>2. CASE writer.pc = "program"
      BY <2>1, <3>2 DEF CutShort, Undisturbed
    <3>3. CASE writer.pc \in {"idle", "commit"}
      BY <2>1, <3>3 DEF CutShort
    <3> QED BY <1>2, <3>1, <3>2, <3>3 DEF Step
  <2>3. PICK k \in Nat : k <= posted /\ Prefix(flash, k)
    <3>1. CASE writer.pc = "commit"
      <4>1. tier.total_records + 1 <= posted /\ Prefix(flash, tier.total_records + 1)
        BY <1>2, <1>3, <1>5, <2>1, <3>1 DEF Filling
      <4> QED BY <1>3, <4>1
    <3>2. CASE writer.pc # "commit"
      <4>1. tier.total_records <= posted /\ Prefix(flash, tier.total_records)
        BY <1>2, <1>3, <1>5, <2>1, <3>2 DEF Filling, Step
      <4> QED BY <1>3, <4>1
    <3> QED BY <3>1, <3>2
  <2>4. k \in 0 .. Capacity
    BY <1>2, <1>3, <2>1, <2>3
  <2>5. Filling'
    BY <2>1, <2>2, <2>3, <2>4 DEF Filling, Off, Idle
  <2> QED BY <1>5, <2>1, <2>2, <2>5 DEF Stored
<1>13. CASE EventLogTier_Init
  <2>1. ~tier.initialized /\ tier' = Scan(flash) /\ UNCHANGED <<flash, writer, posted, acked>>
    BY <1>13 DEF EventLogTier_Init
  <2>2. writer.pc = "idle" /\ \E k \in 0 .. Capacity : k <= posted /\ Prefix(flash, k)
    BY <1>5, <2>1 DEF Filling
  <2>3. PICK k \in 0 .. Capacity : k <= posted /\ Prefix(flash, k)
    BY <2>2
  <2>4. /\ tier'.initialized /\ tier'.total_records = k
        /\ k > 0 => tier'.last_index = k - 1
        /\ k = 0 => tier'.current = 0
    BY <1>2, <2>1, <2>3, ScanOK, ScanPrefix
  <2>5. Filling'
    BY <2>1, <2>2, <2>3, <2>4 DEF Filling
  <2> QED BY <1>5, <2>1, <2>5 DEF Stored
<1>14. CASE UNCHANGED vars
  BY <1>5, <1>14 DEF vars, Filling, Stored
<1> QED BY <1>6, <1>7, <1>8, <1>9, <1>10, <1>11, <1>12, <1>13, <1>14 DEF Next
-----------------------------------------------------------------------------
\* Posts, errors of the flash, power losses and torn commands in any order
\* never leave EventLogTier_t with an index outside the tier or a count above
\* its capacity: the next write stays inside the sectors of the tier.
THEOREM TypeCorrectness == Spec => []TypeOK
<1>1. Init => Typed
  BY InitTyped
<1>2. Typed /\ [Next]_vars => Typed'
  BY NextTyped
<1>3. Typed => TypeOK
  BY DEF Typed
<1> QED BY <1>1, <1>2, <1>3, PTL DEF Spec

\* Until more records were posted than the log holds, every record whose post
\* returned true is in the flash, through any number of restarts, as long as a
\* command to the flash is carried out as a whole or not at all and the UART
\* interrupt logs between two writes only.
THEOREM NothingIsLostBeforeFull ==
  ASSUME Undisturbed
  PROVE  Spec => []NothingLostBeforeFull
<1>1. Init => Inv
  BY InitInv
<1>2. Inv /\ [Next]_vars => Inv'
  BY NextInv
<1>3. Inv => NothingLostBeforeFull
  BY DEF Inv, NothingLostBeforeFull
<1> QED BY <1>1, <1>2, <1>3, PTL DEF Spec
-----------------------------------------------------------------------------
(* The ring of places.  Once the log was full, the next record goes behind *)
(* the last one and the oldest records follow it.                          *)

\* Steps from one place of the ring to another.
Dist(i, j) == IF j >= i THEN j - i ELSE j - i + Capacity

\* The place some steps after another.
Place(p, d) == IF p + d < Capacity THEN p + d ELSE p + d - Capacity

After(i) == IF i = Capacity - 1 THEN 0 ELSE i + 1

LEMMA DistOK ==
  ASSUME NEW i \in Index, NEW j \in Index
  PROVE  /\ Dist(i, j) \in Index /\ Dist(i, i) = 0
         /\ Dist(i, j) = 0 => i = j
         /\ \A k \in Index : Dist(i, j) = Dist(i, k) => j = k
BY CapacityOK DEF Dist, Index

LEMMA DistAfter ==
  ASSUME NEW i \in Index, NEW j \in Index
  PROVE  /\ After(i) \in Index
         /\ Dist(After(i), j) = IF i = j THEN Capacity - 1 ELSE Dist(i, j) - 1
BY CapacityOK DEF Dist, Index, After

\* Quotient and remainder.
LEMMA Division ==
  ASSUME NEW m \in Nat \ {0}, NEW i \in Nat
  PROVE  /\ i \div m \in Nat /\ i % m \in 0 .. m - 1
         /\ i = m * (i \div m) + (i % m)
OBVIOUS

LEMMA Multiples ==
  ASSUME NEW m \in Nat \ {0}, NEW a \in Nat, NEW b \in Nat, a < b
  PROVE  m * a + m <= m * b
<1>1. PICK c \in Nat : b = a + 1 + c
  <2>1. b - a - 1 \in Nat /\ b = a + 1 + (b - a - 1)
    OBVIOUS
  <2> QED
    BY <2>1
<1>2. m * c \in Nat /\ m * a \in Nat
  OBVIOUS
<1>3. m * b = m * a + m + m * c
  BY <1>1
<1> QED
  BY <1>2, <1>3

LEMMA Remainder ==
  ASSUME NEW m \in Nat \ {0}, NEW q \in Nat, NEW r \in 0 .. m - 1
  PROVE  /\ m * q + r \in Nat
         /\ (m * q + r) % m = r /\ (m * q + r) \div m = q
<1> DEFINE i == m * q + r
<1>1. i \in Nat /\ m * q \in Nat
  OBVIOUS
<1>2. PICK a \in Nat, s \in 0 .. m - 1 :
        a = i \div m /\ s = i % m /\ i = m * a + s /\ m * a \in Nat
  <2> HIDE DEF i
  <2>1. i \div m \in Nat /\ i % m \in 0 .. m - 1 /\ i = m * (i \div m) + (i % m)
    BY <1>1, Division
  <2>2. m * (i \div m) \in Nat
    BY <2>1
  <2> QED
    BY <2>1, <2>2
<1>3. m * q + r = m * a + s
  BY <1>2
<1>4. a = q
  <2>1. CASE a < q
    <3>1. m * a + m <= m * q
      BY <2>1, Multiples
    <3> QED
      BY <1>1, <1>2, <1>3, <3>1
  <2>2. CASE q < a
    <3>1. m * q + m <= m * a
      BY <2>2, Multiples
    <3> QED
      BY <1>1, <1>2, <1>3, <3>1
  <2> QED
    BY <2>1, <2>2
<1>5. s = r
  BY <1>1, <1>3, <1>4
<1> QED
  BY <1>1, <1>2, <1>4, <1>5

LEMMA PlaceOK ==
  ASSUME NEW p \in Index, NEW d \in Index
  PROVE  /\ Place(p, d) \in Index /\ Dist(p, Place(p, d)) = d
         /\ Place(p, d) = (p + d) % Capacity
<1>1. /\ Place(p, d) \in Index /\ Dist(p, Place(p, d)) = d
  BY CapacityOK DEF Dist, Index, Place
<1>2. p + d \in Nat /\ p + d < 2 * Capacity /\ Capacity \in Nat \ {0}
  BY CapacityOK DEF Index
<1>3. CASE p + d < Capacity
  BY <1>1, <1>2, <1>3 DEF Place
<1>4. CASE p + d >= Capacity
  <2> DEFINE r == p + d - Capacity
  <2>1. r \in 0 .. Capacity - 1 /\ p + d = Capacity * 1 + r
    BY <1>2, <1>4, CapacityOK DEF Index
  <2>2. (Capacity * 1 + r) % Capacity = r
    <3> HIDE DEF r
    <3> QED
      BY <1>2, <2>1, Remainder
  <2>3. Place(p, d) = r
    BY <1>2, <1>4 DEF Place
  <2> QED
    BY <1>1, <2>1, <2>2, <2>3
<1>5. p + d < Capacity \/ p + d >= Capacity
  BY <1>2
<1> QED
  BY <1>3, <1>4, <1>5

LEMMA PlaceAfter ==
  ASSUME NEW p \in Index, NEW d \in Index, d # 0
  PROVE  Place(After(p), d - 1) = Place(p, d)
BY CapacityOK DEF Place, After, Index

LEMMA AfterOK ==
  ASSUME NEW i \in Index
  PROVE  After(i) = (i + 1) % Capacity
<1>1. Capacity \in Nat \ {0} /\ i \in 0 .. Capacity - 1
  BY CapacityOK DEF Index
<1>2. CASE i = Capacity - 1
  <2>1. (i + 1) % Capacity = 0
    BY <1>1, <1>2
  <2> QED
    BY <1>2, <2>1 DEF After
<1>3. CASE i # Capacity - 1
  <2>1. (i + 1) % Capacity = i + 1
    BY <1>1, <1>3
  <2> QED
    BY <1>3, <2>1 DEF After
<1> QED
  BY <1>2, <1>3

\* The sectors: where one begins and how far it goes.
LEMMA Quotient ==
  ASSUME NEW i \in Nat
  PROVE  /\ SectorOf(i) \in Nat /\ i % PerSector \in 0 .. PerSector - 1
         /\ i = PerSector * SectorOf(i) + (i % PerSector)
BY SizeAssumption, Division DEF SectorOf

LEMMA Product ==
  ASSUME NEW a \in Nat, NEW b \in Nat, a < b
  PROVE  PerSector * a + PerSector <= PerSector * b
BY SizeAssumption, Multiples

LEMMA SectorOfStart ==
  ASSUME NEW p \in Index, p % PerSector = 0
  PROVE  /\ p + PerSector <= Capacity
         /\ \A i \in Index : SectorOf(i) = SectorOf(p) <=> Dist(p, i) < PerSector
<1>1. p \in Nat /\ p < Capacity /\ \A i \in Index : i \in Nat /\ i < Capacity
  BY CapacityOK DEF Index
<1>2. SectorOf(p) \in Nat /\ p = PerSector * SectorOf(p)
  BY <1>1, Quotient, SizeAssumption
<1>3. PerSector \in Nat \ {0} /\ Sectors \in Nat /\ Capacity = PerSector * Sectors
      /\ PerSector * Sectors \in Nat
  BY SizeAssumption DEF Capacity
<1>4. SectorOf(p) < Sectors
  <2> SUFFICES ASSUME Sectors <= SectorOf(p) PROVE FALSE
    BY <1>2, <1>3
  <2>1. CASE Sectors = SectorOf(p)
    BY <1>1, <1>2, <1>3, <2>1
  <2>2. CASE Sectors < SectorOf(p)
    <3>1. PerSector * Sectors + PerSector <= PerSector * SectorOf(p)
      BY <1>2, <1>3, <2>2, Product
    <3> QED
      BY <1>1, <1>2, <1>3, <3>1
  <2> QED
    BY <1>2, <1>3, <2>1, <2>2
<1>5. p + PerSector <= Capacity
  <2>1. PerSector * SectorOf(p) + PerSector <= PerSector * Sectors
    BY <1>2, <1>3, <1>4, Product
  <2> QED
    BY <1>2, <1>3, <2>1
<1>6. ASSUME NEW i \in Index
      PROVE  SectorOf(i) = SectorOf(p) <=> p <= i /\ i < p + PerSector
  <2>1. /\ SectorOf(i) \in Nat /\ i % PerSector \in 0 .. PerSector - 1 /\ i \in Nat
        /\ i = PerSector * SectorOf(i) + (i % PerSector)
        /\ PerSector * SectorOf(i) \in Nat /\ PerSector * SectorOf(p) \in Nat
    <3>1. SectorOf(i) \in Nat /\ i \in Nat
      BY <1>1, Quotient
    <3>2. PerSector * SectorOf(i) \in Nat /\ PerSector * SectorOf(p) \in Nat
      BY <1>2, <1>3, <3>1
    <3> QED
      BY <3>1, <3>2, Quotient
  <2>2. CASE SectorOf(i) = SectorOf(p)
    BY <1>2, <1>3, <2>1, <2>2
  <2>3. CASE SectorOf(i) < SectorOf(p)
    <3>1. PerSector * SectorOf(i) + PerSector <= PerSector * SectorOf(p)
      BY <1>2, <2>1, <2>3, Product
    <3> QED
      BY <1>2, <1>3, <2>1, <2>3, <3>1
  <2>4. CASE SectorOf(i) > SectorOf(p)
    <3>1. PerSector * SectorOf(p) + PerSector <= PerSector * SectorOf(i)
      BY <1>2, <2>1, <2>4, Product
    <3> QED
      BY <1>2, <1>3, <2>1, <2>4, <3>1
  <2> QED
    BY <1>2, <2>1, <2>2, <2>3, <2>4
<1>7. ASSUME NEW i \in Index
      PROVE  p <= i /\ i < p + PerSector <=> Dist(p, i) < PerSector
  BY <1>1, <1>3, <1>5, CapacityOK DEF Dist
<1> QED
  BY <1>5, <1>6, <1>7

LEMMA WithinSector ==
  ASSUME NEW p \in Index
  PROVE  After(p) % PerSector =
           IF p % PerSector = PerSector - 1 THEN 0 ELSE (p % PerSector) + 1
<1>1. p \in Nat /\ PerSector \in Nat \ {0} /\ Sectors \in Nat \ {0}
      /\ Capacity = PerSector * Sectors
  BY CapacityOK, SizeAssumption DEF Index, Capacity
<1>2. PICK a \in Nat, r \in 0 .. PerSector - 1 : p = PerSector * a + r /\ p % PerSector = r
  BY <1>1, Quotient
<1>3. (p + 1) % PerSector = IF r = PerSector - 1 THEN 0 ELSE r + 1
  <2>1. CASE r = PerSector - 1
    <3>1. p + 1 = PerSector * (a + 1) + 0
      BY <1>1, <1>2, <2>1
    <3>2. (PerSector * (a + 1) + 0) % PerSector = 0
      BY <1>1, Remainder
    <3> QED
      BY <2>1, <3>1, <3>2
  <2>2. CASE r # PerSector - 1
    <3>1. p + 1 = PerSector * a + (r + 1) /\ r + 1 \in 0 .. PerSector - 1
      BY <1>1, <1>2, <2>2
    <3>2. (PerSector * a + (r + 1)) % PerSector = r + 1
      BY <1>1, <3>1, Remainder
    <3> QED
      BY <2>2, <3>1, <3>2
  <2> QED
    BY <2>1, <2>2
<1>4. CASE p = Capacity - 1
  <2>1. p + 1 = PerSector * Sectors + 0
    BY <1>1, <1>4
  <2>2. (PerSector * Sectors + 0) % PerSector = 0 /\ (PerSector * 0 + 0) % PerSector = 0
    BY <1>1, Remainder
  <2>3. r = PerSector - 1 /\ 0 % PerSector = 0
    BY <1>1, <1>2, <1>3, <2>1, <2>2
  <2> QED
    BY <1>2, <1>4, <2>2, <2>3 DEF After
<1>5. CASE p # Capacity - 1
  BY <1>2, <1>3, <1>5 DEF After
<1> QED
  BY <1>4, <1>5
-----------------------------------------------------------------------------
(* A log with e cells free, which begin at the place of the next record:   *)
(* behind them follow the records, the oldest first.                       *)

\* How many cells are free.  A log that was full has a whole sector or the
\* rest of one, or none.
Placed(t, e) ==
  LET p == WriteIndex(t)
  IN  IF Full(t)
      THEN IF p % PerSector = 0 THEN e \in {0, PerSector} ELSE e = PerSector - (p % PerSector)
      ELSE e = Capacity - t.total_records /\ p = t.total_records

Blank(f, p, e) == \A i \in Index : IF Dist(p, i) < e THEN f[i] = Empty ELSE Valid(f[i])

Ordered(f, p, e) ==
  \A i, j \in Index : e <= Dist(p, i) /\ Dist(p, i) < Dist(p, j) => f[i] < f[j]

Log(f, t, e) == Placed(t, e) /\ Blank(f, WriteIndex(t), e) /\ Ordered(f, WriteIndex(t), e)

\* The records of such a log.
Recs(f, p, e) == [m \in 1 .. Capacity - e |-> f[Place(p, e + m - 1)]]

\* Erasing changes nothing, or a full log loses the records of one sector.
LEMMA LogErase ==
  ASSUME NEW f \in [Index -> Cell], NEW t \in Tier, NEW e \in 0 .. Capacity, Log(f, t, e),
         NeedsErase(t, f, WriteIndex(t))
  PROVE  \/ Erased(f, WriteIndex(t)) = f /\ e > 0
         \/ /\ Full(t) /\ e = 0 /\ PerSector \in 1 .. Capacity
            /\ Log(Erased(f, WriteIndex(t)), t, PerSector)
            /\ \A i \in Index : Erased(f, WriteIndex(t))[i] =
                  IF Dist(WriteIndex(t), i) < PerSector THEN Empty ELSE f[i]
<1> DEFINE p == WriteIndex(t)
<1>1. p \in Index /\ p % PerSector = 0 /\ (Full(t) \/ SectorIsEmpty(f, p))
  BY WriteIndexOK DEF NeedsErase
<1>2. Placed(t, e) /\ Blank(f, p, e) /\ Ordered(f, p, e)
  BY DEF Log
<1>3. PerSector \in Nat \ {0} /\ Capacity \in Nat \ {0} /\ t.total_records \in Nat
  BY SizeAssumption, CapacityOK DEF Tier
<1>4. CASE ~Full(t)
  <2>1. Erased(f, p) = f
    BY <1>1, <1>4, ErasedEmpty
  <2>2. e > 0
    BY <1>2, <1>3, <1>4 DEF Placed, Full
  <2> QED
    BY <2>1, <2>2
<1>5. CASE Full(t)
  <2>1. e \in {0, PerSector}
    BY <1>1, <1>2, <1>5 DEF Placed
  <2>2. /\ p + PerSector <= Capacity
        /\ \A i \in Index : SectorOf(i) = SectorOf(p) <=> Dist(p, i) < PerSector
    BY <1>1, SectorOfStart
  <2> HIDE DEF p
  <2>3. Erased(f, p) \in [Index -> Cell]
    BY <1>1, FlashOK
  <2>4. \A i \in Index : Erased(f, p)[i] = IF Dist(p, i) < PerSector THEN Empty ELSE f[i]
    BY <2>2 DEF Erased
  <2>5. CASE e = PerSector
    <3>1. Erased(f, p) = f
      BY <1>2, <2>3, <2>4, <2>5 DEF Blank
    <3> QED
      BY <1>3, <2>5, <3>1 DEF p
  <2>6. CASE e = 0
    <3>1. Placed(t, PerSector)
      BY <1>1, <1>5 DEF Placed, p
    <3>2. \A i \in Index : Dist(p, i) \in Nat /\ ~(Dist(p, i) < 0)
      <4> TAKE i \in Index
      <4>1. Dist(p, i) \in Index
        BY <1>1, DistOK
      <4> QED
        BY <4>1 DEF Index
    <3>3. Blank(Erased(f, p), p, PerSector)
      BY <1>2, <2>4, <2>6, <3>2 DEF Blank
    <3>4. Ordered(Erased(f, p), p, PerSector)
      <4> SUFFICES ASSUME NEW i \in Index, NEW j \in Index,
                          PerSector <= Dist(p, i), Dist(p, i) < Dist(p, j)
                   PROVE  Erased(f, p)[i] < Erased(f, p)[j]
        BY DEF Ordered
      <4>1. ~(Dist(p, i) < PerSector) /\ ~(Dist(p, j) < PerSector) /\ 0 <= Dist(p, i)
        BY <1>3, <3>2
      <4>2. f[i] < f[j]
        BY <1>2, <2>6, <4>1 DEF Ordered
      <4> QED
        BY <2>4, <4>1, <4>2
    <3>5. PerSector \in 1 .. Capacity
      BY <1>1, <1>3, <2>2 DEF Index
    <3>6. Log(Erased(f, p), t, PerSector)
      BY <3>1, <3>3, <3>4 DEF Log, p
    <3> QED
      BY <1>5, <2>4, <2>6, <3>5, <3>6 DEF p
  <2> QED
    BY <2>1, <2>5, <2>6
<1> QED
  BY <1>4, <1>5

\* A newer record goes into the first free cell.
LEMMA LogAdd ==
  ASSUME NEW f \in [Index -> Cell], NEW t \in Tier, NEW e \in 0 .. Capacity, Log(f, t, e),
         e > 0, NEW r \in Record, \A i \in Index : f[i] < r
  PROVE  LET p == WriteIndex(t)
         IN  /\ f[p] = Empty
             /\ Programmed(f, p, r) = [f EXCEPT ![p] = r]
             /\ Programmed(f, p, r) \in [Index -> Cell]
             /\ WriteIndex(Written(t, p)) = After(p)
             /\ Log(Programmed(f, p, r), Written(t, p), e - 1)
<1> DEFINE p == WriteIndex(t)
           g == Programmed(f, p, r)
           u == Written(t, p)
<1>1. p \in Index /\ After(p) \in Index /\ Dist(p, p) = 0
  BY WriteIndexOK, DistAfter, DistOK
<1>2. Placed(t, e) /\ Blank(f, p, e) /\ Ordered(f, p, e)
  BY DEF Log
<1>3. PerSector \in Nat \ {0} /\ Capacity \in Nat \ {0} /\ t.total_records \in 0 .. Capacity
  BY SizeAssumption, CapacityOK DEF Tier
<1>4. u \in Tier /\ u.last_index = p
      /\ u.total_records = IF Full(t) THEN Capacity ELSE t.total_records + 1
  <2>1. u \in Tier
    BY <1>1, WrittenOK
  <2> QED
    BY <2>1 DEF Written, Tier
<1> HIDE DEF p
<1>5. f[p] = Empty /\ g = [f EXCEPT ![p] = r]
  BY <1>1, <1>2 DEF Blank, Programmed
<1>6. g \in [Index -> Cell]
  BY <1>5 DEF Cell
<1> HIDE DEF g, u
<1>7. WriteIndex(u) = After(p)
  <2>1. u.total_records > 0
    BY <1>3, <1>4
  <2> QED
    BY <1>1, <1>4, <2>1, AfterOK DEF WriteIndex
<1>8. Placed(u, e - 1)
  <2>1. CASE Full(t)
    <3>1. Full(u)
      BY <1>3, <1>4, <2>1 DEF Full
    <3>2. p % PerSector \in 0 .. PerSector - 1
      BY <1>1, <1>3, Quotient, CapacityOK DEF Index
    <3>3. After(p) % PerSector = IF p % PerSector = PerSector - 1 THEN 0 ELSE (p % PerSector) + 1
      BY <1>1, WithinSector
    <3>4. e = PerSector - (p % PerSector)
      BY <1>2, <1>3, <2>1 DEF Placed, p
    <3>5. IF After(p) % PerSector = 0 THEN e - 1 \in {0, PerSector}
                                      ELSE e - 1 = PerSector - (After(p) % PerSector)
      <4>1. CASE p % PerSector = PerSector - 1
        BY <1>3, <3>2, <3>3, <3>4, <4>1
      <4>2. CASE p % PerSector # PerSector - 1
        <5> DEFINE a == After(p) % PerSector
                   b == p % PerSector
        <5>1. a = b + 1 /\ b \in 0 .. PerSector - 1 /\ e = PerSector - b
          BY <3>2, <3>3, <3>4, <4>2
        <5> HIDE DEF a, b
        <5>2. a # 0 /\ e - 1 = PerSector - a
          BY <1>3, <5>1
        <5> QED
          BY <5>2 DEF a
      <4> QED
        BY <4>1, <4>2
    <3> QED
      BY <1>7, <3>1, <3>5 DEF Placed
  <2>2. CASE ~Full(t)
    <3>1. e = Capacity - t.total_records /\ p = t.total_records
          /\ t.total_records < Capacity /\ u.total_records = t.total_records + 1
      BY <1>2, <1>3, <1>4, <2>2 DEF Placed, Full, p
    <3>2. CASE p = Capacity - 1
      <4>1. Full(u) /\ After(p) = 0 /\ e - 1 = 0
        BY <1>3, <3>1, <3>2 DEF Full, After
      <4>2. (PerSector * 0 + 0) % PerSector = 0 /\ PerSector * 0 + 0 = 0
        BY <1>3, Remainder
      <4> QED
        BY <1>7, <4>1, <4>2 DEF Placed
    <3>3. CASE p # Capacity - 1
      BY <1>3, <1>7, <3>1, <3>3 DEF Placed, Full, After
    <3> QED
      BY <3>2, <3>3
  <2> QED
    BY <2>1, <2>2
<1>9. \A i \in Index :
        /\ Dist(p, i) \in 0 .. Capacity - 1
        /\ Dist(After(p), i) = IF i = p THEN Capacity - 1 ELSE Dist(p, i) - 1
        /\ Dist(p, i) = 0 <=> i = p
  <2> TAKE i \in Index
  <2>1. Dist(p, i) \in Index /\ (Dist(p, i) = 0 <=> i = p)
    BY <1>1, DistOK
  <2> QED
    BY <1>1, <2>1, DistAfter DEF Index
<1>10. Blank(g, After(p), e - 1)
  <2> SUFFICES ASSUME NEW i \in Index
               PROVE  IF Dist(After(p), i) < e - 1 THEN g[i] = Empty ELSE Valid(g[i])
    BY DEF Blank
  <2>1. CASE i = p
    <3>1. Dist(After(p), i) = Capacity - 1 /\ g[i] = r
      BY <1>1, <1>5, <1>9, <2>1
    <3>2. ~(Capacity - 1 < e - 1)
      BY <1>3
    <3> QED
      BY <3>1, <3>2 DEF Valid
  <2>2. CASE i # p
    <3>1. Dist(After(p), i) = Dist(p, i) - 1 /\ Dist(p, i) \in Nat /\ g[i] = f[i]
      BY <1>5, <1>9, <2>2
    <3>2. Dist(After(p), i) < e - 1 <=> Dist(p, i) < e
      BY <1>3, <3>1
    <3> QED
      BY <1>2, <3>1, <3>2 DEF Blank
  <2> QED
    BY <2>1, <2>2
<1>11. Ordered(g, After(p), e - 1)
  <2> SUFFICES ASSUME NEW i \in Index, NEW j \in Index,
                      e - 1 <= Dist(After(p), i), Dist(After(p), i) < Dist(After(p), j)
               PROVE  g[i] < g[j]
    BY DEF Ordered
  <2>1. i # p /\ Dist(After(p), i) = Dist(p, i) - 1 /\ Dist(p, i) \in Nat /\ g[i] = f[i]
    <3>1. i # p
      BY <1>3, <1>9
    <3> QED
      BY <1>5, <1>9, <3>1
  <2>2. CASE j = p
    BY <1>1, <1>5, <2>1, <2>2
  <2>3. CASE j # p
    <3>1. Dist(After(p), j) = Dist(p, j) - 1 /\ Dist(p, j) \in Nat /\ g[j] = f[j]
      BY <1>5, <1>9, <2>3
    <3>2. e <= Dist(p, i) /\ Dist(p, i) < Dist(p, j)
      BY <2>1, <3>1
    <3> QED
      BY <1>2, <2>1, <3>1, <3>2 DEF Ordered
  <2> QED
    BY <2>2, <2>3
<1>12. Log(g, u, e - 1)
  BY <1>7, <1>8, <1>10, <1>11 DEF Log
<1> QED
  BY <1>5, <1>6, <1>7, <1>12 DEF g, u, p
-----------------------------------------------------------------------------
(* What a reader gets of such a log. *)

LEMMA SetInduction ==
  ASSUME NEW A, 0 \in A, \A n \in Nat : n \in A => n + 1 \in A
  PROVE  \A n \in Nat : n \in A
<1> DEFINE S == {n \in Nat : n \notin A}
<1> SUFFICES ASSUME S # {} PROVE FALSE
  OBVIOUS
<1>1. PICK n \in S : \A m \in S : ~ (<<m, n>> \in OpToRel(<, Nat))
  <2>1. S \subseteq Nat
    OBVIOUS
  <2> HIDE DEF S
  <2> QED
    BY <2>1, WFMin, NatLessThanWellFounded, Zenon
<1>2. \A m \in S : ~ (m < n)
  <2>1. \A m \in S : m \in Nat
    OBVIOUS
  <2> HIDE DEF S
  <2> QED
    BY <1>1, <2>1, Zenon DEF OpToRel
<1>3. n - 1 \in Nat /\ n - 1 < n /\ n - 1 + 1 = n /\ n \notin A
  <2>1. n \in Nat /\ n \notin A
    BY <1>1
  <2>2. n # 0
    BY <2>1
  <2> HIDE DEF S
  <2> QED
    BY <2>1, <2>2
<1>4. n - 1 \in S
  BY <1>1, <1>3
<1> QED
  BY <1>2, <1>3, <1>4

\* The records among cells of which the first a hold none.
LEMMA RecordsOfSuffix ==
  ASSUME NEW L \in Nat, NEW cells \in [1 .. L -> Cell], NEW a \in 0 .. L,
         \A n \in 1 .. L : Valid(cells[n]) <=> n > a
  PROVE  RecordsOf(cells) = [m \in 1 .. L - a |-> cells[a + m]]
<1> DEFINE Def(g) == [n \in 0 .. L |-> IF n = 0 THEN <<>>
                                      ELSE IF Valid(cells[n]) THEN Append(g[n - 1], cells[n])
                                      ELSE g[n - 1]]
           last(k) == [m \in 1 .. k |-> cells[a + m]]
           h == [n \in 0 .. L |-> IF n <= a THEN <<>> ELSE last(n - a)]
<1>1. \A k \in 0 .. L - a : last(k) \in Seq(Cell) /\ Len(last(k)) = k
  <2> TAKE k \in 0 .. L - a
  <2>1. k \in Nat /\ \A m \in 1 .. k : a + m \in 1 .. L
    OBVIOUS
  <2>2. last(k) \in [1 .. k -> Cell]
    BY <2>1
  <2> HIDE DEF last
  <2> QED
    BY <2>1, <2>2
<1>2. last(0) = <<>>
  <2>1. last(0) \in Seq(Cell) /\ Len(last(0)) = 0
    BY <1>1
  <2> HIDE DEF last
  <2> QED
    BY <2>1
<1>3. ASSUME NEW k \in 0 .. L - a - 1
      PROVE  last(k + 1) = Append(last(k), cells[a + (k + 1)])
  <2>1. /\ k + 1 \in 0 .. L - a /\ k \in 0 .. L - a /\ k \in Nat
        /\ k + 1 \in 1 .. k + 1 /\ a + (k + 1) \in 1 .. L
        /\ \A m \in 1 .. k : m \in 1 .. k + 1
    OBVIOUS
  <2>2. /\ last(k + 1) \in Seq(Cell) /\ Len(last(k + 1)) = k + 1
        /\ last(k) \in Seq(Cell) /\ Len(last(k)) = k
    BY <1>1, <2>1
  <2>3. /\ \A m \in 1 .. k : last(k + 1)[m] = last(k)[m]
        /\ last(k + 1)[k + 1] = cells[a + (k + 1)]
    BY <2>1
  <2> HIDE DEF last
  <2> QED
    BY <2>1, <2>2, <2>3
<1>4. h[0] = <<>> /\ \A n \in 1 .. L :
        h[n] = IF Valid(cells[n]) THEN Append(h[n - 1], cells[n]) ELSE h[n - 1]
  <2>1. h[0] = <<>>
    OBVIOUS
  <2>2. ASSUME NEW n \in 1 .. L
        PROVE  h[n] = IF Valid(cells[n]) THEN Append(h[n - 1], cells[n]) ELSE h[n - 1]
    <3>1. n \in 0 .. L /\ n - 1 \in 0 .. L
      OBVIOUS
    <3>2. CASE n <= a
      <4>1. n - 1 <= a /\ ~Valid(cells[n])
        BY <3>2
      <4> QED
        BY <3>1, <3>2, <4>1
    <3>3. CASE n = a + 1
      <4>1. n - 1 <= a /\ ~(n <= a) /\ Valid(cells[n]) /\ n - a = 0 + 1
            /\ 0 \in 0 .. L - a - 1 /\ a + (0 + 1) = n
        BY <3>3
      <4>2. h[n] = last(0 + 1) /\ h[n - 1] = last(0)
        <5> HIDE DEF last
        <5> QED
          BY <1>2, <3>1, <4>1
      <4> HIDE DEF h, last
      <4> QED
        BY <1>3, <4>1, <4>2
    <3>4. CASE n > a + 1
      <4> DEFINE k == n - a - 1
      <4>1. ~(n - 1 <= a) /\ ~(n <= a) /\ Valid(cells[n]) /\ n - a = k + 1
            /\ n - 1 - a = k /\ k \in 0 .. L - a - 1 /\ a + (k + 1) = n
        BY <3>4
      <4>2. h[n] = last(n - a) /\ h[n - 1] = last(n - 1 - a)
        <5> HIDE DEF last
        <5> QED
          BY <3>1, <4>1
      <4> HIDE DEF h, last, k
      <4> QED
        BY <1>3, <4>1, <4>2
    <3> QED
      BY <3>2, <3>3, <3>4
  <2> HIDE DEF h
  <2> QED
    BY <2>1, <2>2
<1> HIDE DEF last
<1>5. h = Def(h)
  <2>1. h = [n \in 0 .. L |-> h[n]]
    OBVIOUS
  <2>2. \A n \in 0 .. L : n = 0 \/ n \in 1 .. L
    OBVIOUS
  <2> HIDE DEF h
  <2> QED
    BY <1>4, <2>1, <2>2
<1> DEFINE f == CHOOSE g : g = Def(g)
<1>6. f = Def(f)
  <2> HIDE DEF h, Def
  <2> QED
    BY <1>5
<1>7. RecordsOf(cells) = f[L]
  <2>1. Len(cells) = L
    OBVIOUS
  <2> QED
    BY <2>1 DEF RecordsOf
<1> HIDE DEF f
<1>8. f[0] = <<>> /\ \A n \in 1 .. L :
        f[n] = IF Valid(cells[n]) THEN Append(f[n - 1], cells[n]) ELSE f[n - 1]
  <2>1. 0 \in 0 .. L /\ \A n \in 1 .. L : n \in 0 .. L /\ n # 0
    OBVIOUS
  <2> QED
    BY <1>6, <2>1
<1>9. f[L] = h[L]
  <2> DEFINE A == {n \in Nat : n <= L => f[n] = h[n]}
  <2> HIDE DEF h
  <2>1. 0 \in A
    BY <1>4, <1>8
  <2>2. ASSUME NEW n \in Nat, n \in A
        PROVE  n + 1 \in A
    <3>1. n + 1 <= L => n + 1 \in 1 .. L /\ n <= L /\ n + 1 - 1 = n
      OBVIOUS
    <3> QED
      BY <1>4, <1>8, <2>2, <3>1
  <2>3. \A n \in Nat : n \in A
    <3> HIDE DEF A
    <3> QED
      BY <2>1, <2>2, SetInduction
  <2> QED
    BY <2>3
<1>10. h[L] = last(L - a)
  BY <1>2
<1> QED
  BY <1>7, <1>9, <1>10 DEF last

LEMMA LogRead ==
  ASSUME NEW f \in [Index -> Cell], NEW t \in Tier, NEW e \in 0 .. Capacity, Log(f, t, e)
  PROVE  ReadFrom(f, t) = Recs(f, WriteIndex(t), e)
<1> DEFINE p == WriteIndex(t)
           L == t.total_records
           cells == [n \in 1 .. L |-> f[Logical(t, n - 1)]]
<1>1. p \in Index /\ Placed(t, e) /\ Blank(f, p, e)
  BY WriteIndexOK DEF Log
<1>2. L \in 0 .. Capacity /\ Capacity \in Nat \ {0} /\ Index = 0 .. Capacity - 1
  BY CapacityOK DEF Tier, Index
<1>3. /\ DOMAIN cells = 1 .. L /\ cells = [n \in 1 .. L |-> cells[n]]
      /\ \A n \in 1 .. L : cells[n] = f[Logical(t, n - 1)]
  OBVIOUS
<1>4. ReadFrom(f, t) = RecordsOf(cells)
  BY DEF ReadFrom
<1> HIDE DEF cells
<1>5. CASE Full(t)
  <2>1. L = Capacity /\ OldestPhysical(t) = p
    <3>1. L = Capacity /\ L > 0
      BY <1>2, <1>5 DEF Full
    <3> QED
      BY <1>5, <3>1 DEF OldestPhysical, WriteIndex
  <2> HIDE DEF p, L
  <2>2. \A n \in 1 .. L : /\ Logical(t, n - 1) = Place(p, n - 1)
                          /\ Place(p, n - 1) \in Index /\ Dist(p, Place(p, n - 1)) = n - 1
    <3> TAKE n \in 1 .. L
    <3>1. n - 1 \in Index
      BY <1>2, <2>1
    <3> QED
      BY <1>1, <2>1, <3>1, PlaceOK DEF Logical
  <2>3. \A n \in 1 .. L : Valid(cells[n]) <=> n > e
    <3> TAKE n \in 1 .. L
    <3>1. cells[n] = f[Place(p, n - 1)]
      BY <1>3, <2>2
    <3>2. IF n - 1 < e THEN cells[n] = Empty ELSE Valid(cells[n])
      BY <1>1, <2>2, <3>1 DEF Blank
    <3>3. n - 1 < e <=> ~(n > e)
      BY <1>2, <2>1
    <3> QED
      BY <3>2, <3>3 DEF Empty, Valid, Record
  <2>4. RecordsOf(cells) = [m \in 1 .. L - e |-> cells[e + m]]
    <3>1. L \in Nat /\ e \in 0 .. L /\ cells \in [1 .. L -> Cell]
      BY <1>2, <1>3, <2>1, <2>2
    <3> QED
      BY <2>3, <3>1, RecordsOfSuffix
  <2>5. \A m \in 1 .. L - e : cells[e + m] = f[Place(p, e + m - 1)]
    <3> TAKE m \in 1 .. L - e
    <3>1. e + m \in 1 .. L
      BY <1>2, <2>1
    <3> QED
      BY <1>3, <2>2, <3>1
  <2>6. RecordsOf(cells) = [m \in 1 .. Capacity - e |-> f[Place(p, e + m - 1)]]
    BY <2>1, <2>4, <2>5
  <2> QED
    BY <1>4, <2>6 DEF Recs, p
<1>6. CASE ~Full(t)
  <2>1. e = Capacity - L /\ p = L /\ L < Capacity /\ OldestPhysical(t) = 0
    BY <1>1, <1>2, <1>6 DEF Placed, Full, OldestPhysical
  <2> HIDE DEF p, L
  <2>2. \A n \in 1 .. L : Logical(t, n - 1) = n - 1 /\ n - 1 \in Index
    <3> TAKE n \in 1 .. L
    <3>1. 0 + (n - 1) = Capacity * 0 + (n - 1) /\ n - 1 \in 0 .. Capacity - 1
      BY <1>2
    <3>2. (Capacity * 0 + (n - 1)) % Capacity = n - 1
      BY <1>2, <3>1, Remainder
    <3> QED
      BY <1>2, <2>1, <3>1, <3>2 DEF Logical
  <2>3. \A n \in 1 .. L : Valid(cells[n]) <=> n > 0
    <3> TAKE n \in 1 .. L
    <3>1. ~(Dist(p, n - 1) < e)
      BY <1>2, <2>1 DEF Dist
    <3> QED
      BY <1>1, <1>3, <2>2, <3>1 DEF Blank
  <2>4. RecordsOf(cells) = [m \in 1 .. L - 0 |-> cells[0 + m]]
    <3>1. L \in Nat /\ 0 \in 0 .. L /\ cells \in [1 .. L -> Cell]
      BY <1>2, <1>3, <2>2
    <3> QED
      BY <2>3, <3>1, RecordsOfSuffix
  <2>5. \A m \in 1 .. L : cells[0 + m] = f[Place(p, e + m - 1)]
    <3> TAKE m \in 1 .. L
    <3>1. 0 + m = m /\ Place(p, e + m - 1) = m - 1
      BY <1>2, <2>1 DEF Place
    <3> QED
      BY <1>3, <2>2, <3>1
  <2>6. L - 0 = Capacity - e /\ L - 0 = L
    BY <1>2, <2>1
  <2>7. RecordsOf(cells) = [m \in 1 .. Capacity - e |-> f[Place(p, e + m - 1)]]
    BY <2>4, <2>5, <2>6
  <2> QED
    BY <1>4, <2>7 DEF Recs, p
<1> QED
  BY <1>5, <1>6

\* The list of the records, its length and its order.
LEMMA RecsOK ==
  ASSUME NEW f \in [Index -> Cell], NEW p \in Index, NEW e \in 0 .. Capacity,
         Blank(f, p, e), Ordered(f, p, e)
  PROVE  /\ Recs(f, p, e) \in Seq(Record) /\ Len(Recs(f, p, e)) = Capacity - e
         /\ DOMAIN Recs(f, p, e) = 1 .. Capacity - e
         /\ \A m \in 1 .. Capacity - e :
               /\ Place(p, e + m - 1) \in Index /\ Dist(p, Place(p, e + m - 1)) = e + m - 1
               /\ Recs(f, p, e)[m] = f[Place(p, e + m - 1)]
<1>1. Capacity - e \in Nat
  BY CapacityOK
<1>2. \A m \in 1 .. Capacity - e :
        /\ Place(p, e + m - 1) \in Index /\ Dist(p, Place(p, e + m - 1)) = e + m - 1
        /\ f[Place(p, e + m - 1)] \in Record
  <2> TAKE m \in 1 .. Capacity - e
  <2>1. e + m - 1 \in Index /\ ~(e + m - 1 < e)
    BY CapacityOK DEF Index
  <2>2. Place(p, e + m - 1) \in Index /\ Dist(p, Place(p, e + m - 1)) = e + m - 1
    BY <2>1, PlaceOK
  <2> QED
    BY <2>1, <2>2 DEF Blank, Valid
<1>3. Recs(f, p, e) \in [1 .. Capacity - e -> Record]
  BY <1>2 DEF Recs
<1>4. Recs(f, p, e) \in Seq(Record) /\ Len(Recs(f, p, e)) = Capacity - e
  <2> HIDE DEF Recs
  <2> QED
    BY <1>1, <1>3
<1> QED
  BY <1>2, <1>4 DEF Recs

\* What erasing a sector of a full log leaves.
LEMMA RecsErased ==
  ASSUME NEW f \in [Index -> Cell], NEW g \in [Index -> Cell], NEW p \in Index,
         Blank(f, p, 0), Ordered(f, p, 0), Blank(g, p, PerSector), Ordered(g, p, PerSector),
         PerSector \in 1 .. Capacity,
         \A i \in Index : ~(Dist(p, i) < PerSector) => g[i] = f[i]
  PROVE  Recs(g, p, PerSector) = SubSeq(Recs(f, p, 0), PerSector + 1, Capacity)
<1> DEFINE s == Recs(f, p, 0)
           u == Recs(g, p, PerSector)
<1>1. /\ s \in Seq(Record) /\ Len(s) = Capacity
      /\ \A m \in 1 .. Capacity : s[m] = f[Place(p, m - 1)]
  <2>1. 0 \in 0 .. Capacity /\ Capacity - 0 = Capacity
        /\ \A m \in 1 .. Capacity : 0 + m - 1 = m - 1
    BY CapacityOK
  <2> QED
    BY <2>1, RecsOK
<1>2. /\ u \in Seq(Record) /\ Len(u) = Capacity - PerSector
      /\ \A m \in 1 .. Capacity - PerSector :
            /\ Place(p, PerSector + m - 1) \in Index
            /\ Dist(p, Place(p, PerSector + m - 1)) = PerSector + m - 1
            /\ u[m] = g[Place(p, PerSector + m - 1)]
  <2>1. PerSector \in 0 .. Capacity
    BY CapacityOK
  <2> QED
    BY <2>1, RecsOK
<1> HIDE DEF s, u
<1>3. \A m \in 1 .. Capacity - PerSector : u[m] = s[PerSector + m]
  <2> TAKE m \in 1 .. Capacity - PerSector
  <2>1. PerSector + m \in 1 .. Capacity /\ ~(PerSector + m - 1 < PerSector)
    BY CapacityOK
  <2> QED
    BY <1>1, <1>2, <2>1
<1>4. SubSeq(s, PerSector + 1, Capacity) = [m \in 1 .. Capacity - PerSector |-> s[PerSector + m]]
  BY <1>1, CapacityOK
<1>5. u = [m \in 1 .. Capacity - PerSector |-> u[m]]
  BY <1>2, CapacityOK
<1> QED
  BY <1>3, <1>4, <1>5 DEF s, u

\* The new record is the last one.
LEMMA RecsAdded ==
  ASSUME NEW f \in [Index -> Cell], NEW p \in Index, NEW e \in 1 .. Capacity,
         NEW r \in Record, Blank(f, p, e), Ordered(f, p, e),
         [f EXCEPT ![p] = r] \in [Index -> Cell],
         Blank([f EXCEPT ![p] = r], After(p), e - 1),
         Ordered([f EXCEPT ![p] = r], After(p), e - 1)
  PROVE  Recs([f EXCEPT ![p] = r], After(p), e - 1) = Append(Recs(f, p, e), r)
<1> DEFINE g == [f EXCEPT ![p] = r]
           s == Recs(f, p, e)
           u == Recs(g, After(p), e - 1)
           n == Capacity - e
<1>1. /\ n \in Nat /\ e \in 0 .. Capacity /\ e - 1 \in 0 .. Capacity
      /\ Capacity - (e - 1) = n + 1 /\ After(p) \in Index
  BY CapacityOK, DistAfter
<1>2. /\ s \in Seq(Record) /\ Len(s) = n
      /\ \A m \in 1 .. n : /\ Place(p, e + m - 1) \in Index
                           /\ Dist(p, Place(p, e + m - 1)) = e + m - 1
                           /\ s[m] = f[Place(p, e + m - 1)]
  BY <1>1, RecsOK
<1>3. /\ u \in Seq(Record) /\ Len(u) = n + 1
      /\ \A m \in 1 .. n + 1 : u[m] = g[Place(After(p), e - 1 + m - 1)]
  BY <1>1, RecsOK, ZenonT(40)
<1>4. \A m \in 1 .. n : u[m] = s[m]
  <2> TAKE m \in 1 .. n
  <2>1. /\ m \in 1 .. n + 1 /\ e + m - 1 \in Index /\ e + m - 1 # 0
        /\ e - 1 + m - 1 = e + m - 1 - 1
    BY <1>1, CapacityOK DEF Index
  <2>2. Place(After(p), e - 1 + m - 1) = Place(p, e + m - 1)
    BY <2>1, PlaceAfter
  <2>3. Place(p, e + m - 1) # p
    BY <1>2, <2>1, DistOK
  <2>4. g[Place(p, e + m - 1)] = f[Place(p, e + m - 1)]
    BY <1>2, <2>3
  <2> HIDE DEF g, s, u, n
  <2> QED
    BY <1>2, <1>3, <2>1, <2>2, <2>4
<1>5. u[n + 1] = r
  <2>1. e - 1 + (n + 1) - 1 = Capacity - 1 /\ n + 1 \in 1 .. n + 1
    BY <1>1, CapacityOK
  <2>2. Place(After(p), Capacity - 1) = p
    BY CapacityOK DEF Place, After, Index
  <2>3. g[p] = r
    OBVIOUS
  <2> HIDE DEF g, u, n
  <2> QED
    BY <1>3, <2>1, <2>2, <2>3
<1> HIDE DEF g, s, u, n
<1>6. u = Append(s, r)
  BY <1>1, <1>2, <1>3, <1>4, <1>5
<1> QED
  BY <1>6 DEF g, s, u
-----------------------------------------------------------------------------
(* The log as a reader sees it, and how a step may change it.              *)

\* The tier, or what the next start will make of the flash.
Now == IF tier.initialized THEN tier ELSE Scan(flash)

\* What the log needs to know of a tier.
Same(t, u) == WriteIndex(t) = WriteIndex(u) /\ t.total_records = u.total_records

\* A record that is not there is older than all that are, and only a log that
\* was full has lost one.
KeepsNewest(f, t, A) ==
  \A r \in A : \/ \E i \in Index : f[i] = r
               \/ Full(t) /\ \A i \in Index : Valid(f[i]) => r < f[i]

InOrder ==
  /\ \E e \in 0 .. Capacity : Log(Shown, Now, e)
  /\ KeepsNewest(Shown, Now, acked)

Stays == Shown' = Shown /\ Same(Now', Now) /\ acked' = acked

Erases ==
  LET p == WriteIndex(Now)
  IN  /\ NeedsErase(Now, Shown, p) /\ Shown' = Erased(Shown, p)
      /\ Same(Now', Now) /\ acked' = acked

\* The record goes into a free cell, or into the sector that is erased for it.
Adds(r) ==
  LET p == WriteIndex(Now)
  IN  /\ \A i \in Index : Shown[i] < r
      /\ \A a \in acked : a < r
      /\ \/ Shown[p] = Empty /\ Shown' = Programmed(Shown, p, r)
         \/ NeedsErase(Now, Shown, p) /\ Shown' = Programmed(Erased(Shown, p), p, r)
      /\ Same(Now', Written(Now, p))
      /\ acked' \subseteq acked \cup {r}

LEMMA ShownOK ==
  ASSUME TypeOK
  PROVE  Shown \in [Index -> Cell] /\ Now \in Tier
BY ScanOK DEF TypeOK, Shown, Cell, Now, Tier

LEMMA ShownOKNext ==
  ASSUME TypeOK'
  PROVE  Shown' \in [Index -> Cell] /\ Now' \in Tier
<1>1. Shown' \in [Index -> Cell]
  BY DEF TypeOK, Shown, Cell
<1>2. flash' \in [Index -> Cell] /\ tier' \in Tier
  BY DEF TypeOK, Tier
<1>3. Scan(flash)' \in Tier
  <2>1. \A f \in [Index -> Cell] : Scan(f) \in Tier
    BY ScanOK
  <2>2. Scan(flash') \in Tier
    BY <1>2, <2>1
  <2>3. Scan(flash)' = Scan(flash')
    BY DEF Scan, Counted, Before, Passed, Started, Opens
  <2> QED
    BY <2>2, <2>3
<1> QED
  BY <1>1, <1>2, <1>3 DEF Now

LEMMA LogSame ==
  ASSUME NEW f, NEW t, NEW u, NEW e, Same(u, t), Log(f, t, e)
  PROVE  Log(f, u, e) /\ (Full(u) <=> Full(t))
BY DEF Same, Log, Placed, Full

\* A place for the next record is free unless a sector is erased for it.
LEMMA FreePlace ==
  ASSUME NEW f \in [Index -> Cell], NEW t \in Tier, NEW e \in 0 .. Capacity, Log(f, t, e)
  PROVE  /\ f[WriteIndex(t)] = Empty <=> e > 0
         /\ ~NeedsErase(t, f, WriteIndex(t)) => e > 0
<1> DEFINE p == WriteIndex(t)
<1>1. p \in Index /\ Dist(p, p) = 0 /\ Placed(t, e) /\ Blank(f, p, e)
  BY WriteIndexOK, DistOK DEF Log
<1>2. PerSector \in Nat \ {0} /\ Capacity \in Nat \ {0} /\ t.total_records \in 0 .. Capacity
      /\ p % PerSector \in 0 .. PerSector - 1
  <2>1. p \in Nat
    BY <1>1, CapacityOK DEF Index
  <2> QED
    BY <2>1, Quotient, SizeAssumption, CapacityOK DEF Tier
<1>3. f[p] = Empty <=> e > 0
  <2>1. IF 0 < e THEN f[p] = Empty ELSE Valid(f[p])
    BY <1>1 DEF Blank
  <2>2. Valid(f[p]) => f[p] # Empty
    BY DEF Valid, Record, Empty
  <2> QED
    BY <2>1, <2>2
<1>4. ASSUME ~NeedsErase(t, f, p) PROVE e > 0
  <2>1. ~Full(t) \/ p % PerSector # 0
    BY <1>4 DEF NeedsErase
  <2>2. CASE ~Full(t)
    BY <1>1, <1>2, <2>2 DEF Placed, Full
  <2>3. CASE Full(t) /\ p % PerSector # 0
    <3>1. e = PerSector - (p % PerSector)
      BY <1>1, <2>3 DEF Placed
    <3> QED
      BY <1>2, <3>1
  <2> QED
    BY <2>1, <2>2, <2>3
<1> QED
  BY <1>3, <1>4

LEMMA KeepsErased ==
  ASSUME NEW f \in [Index -> Cell], NEW t \in Tier, NEW e \in 0 .. Capacity, Log(f, t, e),
         NEW A \in SUBSET Record, KeepsNewest(f, t, A),
         NeedsErase(t, f, WriteIndex(t))
  PROVE  KeepsNewest(Erased(f, WriteIndex(t)), t, A)
<1> DEFINE p == WriteIndex(t)
           g == Erased(f, p)
<1>1. CASE g = f
  BY <1>1
<1>2. CASE /\ Full(t) /\ e = 0 /\ PerSector \in 1 .. Capacity
           /\ Log(g, t, PerSector)
           /\ \A i \in Index : g[i] = IF Dist(p, i) < PerSector THEN Empty ELSE f[i]
  <2> SUFFICES ASSUME NEW r \in A
               PROVE  \/ \E i \in Index : g[i] = r
                      \/ \A i \in Index : Valid(g[i]) => r < g[i]
    BY <1>2 DEF KeepsNewest
  <2>1. p \in Index
    BY WriteIndexOK
  <2> HIDE DEF p, g
  <2>2. \A i \in Index : Valid(g[i]) => ~(Dist(p, i) < PerSector) /\ g[i] = f[i]
    BY <1>2 DEF Valid, Record, Empty
  <2>3. CASE \E i \in Index : f[i] = r
    <3>1. PICK i \in Index : f[i] = r
      BY <2>3
    <3>2. CASE Dist(p, i) < PerSector
      <4>1. ASSUME NEW j \in Index, Valid(g[j]) PROVE r < g[j]
        <5>1. ~(Dist(p, j) < PerSector) /\ g[j] = f[j]
          BY <2>2, <4>1
        <5>2. Dist(p, i) \in Nat /\ Dist(p, j) \in Nat /\ PerSector \in Nat
          <6>1. Dist(p, i) \in Index /\ Dist(p, j) \in Index
            BY <2>1, DistOK
          <6> QED
            BY <6>1, SizeAssumption DEF Index
        <5>3. 0 <= Dist(p, i) /\ Dist(p, i) < Dist(p, j)
          BY <3>2, <5>1, <5>2
        <5> QED
          BY <1>2, <3>1, <5>1, <5>3 DEF Log, Ordered, p
      <4> QED
        BY <4>1
    <3>3. CASE ~(Dist(p, i) < PerSector)
      BY <1>2, <3>1, <3>3
    <3> QED
      BY <3>2, <3>3
  <2>4. CASE \A i \in Index : Valid(f[i]) => r < f[i]
    BY <2>2, <2>4
  <2> QED
    BY <2>3, <2>4 DEF KeepsNewest
<1> QED
  BY <1>1, <1>2, LogErase

LEMMA KeepsAdded ==
  ASSUME NEW f \in [Index -> Cell], NEW t \in Tier, NEW p \in Index, f[p] = Empty,
         NEW A \in SUBSET Record, KeepsNewest(f, t, A),
         NEW r \in Record, \A a \in A : a < r,
         NEW B \in SUBSET (A \cup {r}), NEW u, u.total_records = Written(t, p).total_records
  PROVE  KeepsNewest([f EXCEPT ![p] = r], u, B)
<1> DEFINE g == [f EXCEPT ![p] = r]
<1>1. g[p] = r /\ \A i \in Index : i # p => g[i] = f[i]
  OBVIOUS
<1>2. Full(t) => Full(u)
  BY CapacityOK DEF Full, Written, Tier
<1> HIDE DEF g
<1> SUFFICES ASSUME NEW b \in B
             PROVE  \/ \E i \in Index : g[i] = b
                    \/ Full(u) /\ \A i \in Index : Valid(g[i]) => b < g[i]
  BY DEF KeepsNewest, g
<1>3. CASE b = r
  BY <1>1, <1>3
<1>4. CASE b \in A /\ \E i \in Index : f[i] = b
  <2>1. PICK i \in Index : f[i] = b
    BY <1>4
  <2>2. i # p
    BY <1>4, <2>1 DEF Record, Empty
  <2> QED
    BY <1>1, <2>1, <2>2
<1>5. CASE b \in A /\ Full(t) /\ \A i \in Index : Valid(f[i]) => b < f[i]
  BY <1>1, <1>2, <1>5
<1> QED
  BY <1>3, <1>4, <1>5 DEF KeepsNewest

\* Each of these changes keeps the order, and is a step of the promised log.
LEMMA StaysOK ==
  ASSUME TypeOK, InOrder, TypeOK', Stays
  PROVE  InOrder' /\ Readable' = Readable
<1>1. PICK e \in 0 .. Capacity : Log(Shown, Now, e)
  BY DEF InOrder
<1>2. Log(Shown', Now', e) /\ (Full(Now') <=> Full(Now))
  BY <1>1, LogSame DEF Stays
<1>3. InOrder'
  BY <1>2 DEF InOrder, KeepsNewest, Stays
<1>4. Readable = Recs(Shown, WriteIndex(Now), e)
  BY <1>1, ShownOK, LogRead DEF Readable, Now
<1>5. Readable' = Recs(Shown', WriteIndex(Now'), e)
  <2>1. Shown' \in [Index -> Cell] /\ Now' \in Tier
    BY ShownOKNext
  <2>2. ReadFrom(Shown', Now') = Recs(Shown', WriteIndex(Now'), e)
    BY <1>2, <2>1, LogRead
  <2> QED
    BY <2>2 DEF Readable, Now
<1> QED
  BY <1>3, <1>4, <1>5 DEF Stays, Same

\* Erasing a sector is the promised log's way to make room, or no step of it.
LEMMA ErasesOK ==
  ASSUME TypeOK, InOrder, TypeOK', Erases
  PROVE  InOrder' /\ (Readable' = Readable \/ Kept!Reclaim)
<1> DEFINE p == WriteIndex(Now)
           g == Erased(Shown, p)
<1>1. PICK e \in 0 .. Capacity : Log(Shown, Now, e)
  BY DEF InOrder
<1>2. /\ Shown \in [Index -> Cell] /\ Now \in Tier /\ Shown' = g
      /\ NeedsErase(Now, Shown, p) /\ Same(Now', Now) /\ acked' = acked
      /\ Shown' \in [Index -> Cell] /\ Now' \in Tier /\ p \in Index
  BY ShownOK, ShownOKNext, WriteIndexOK DEF Erases
<1>3. KeepsNewest(Shown', Now', acked')
  <2>1. acked \in SUBSET Record
    BY DEF TypeOK, Record
  <2>2. KeepsNewest(g, Now, acked)
    BY <1>1, <1>2, <2>1, KeepsErased DEF InOrder
  <2>3. Full(Now') <=> Full(Now)
    BY <1>2 DEF Same, Full
  <2> HIDE DEF g
  <2> QED
    BY <1>2, <2>2, <2>3 DEF KeepsNewest
<1>4. Readable = Recs(Shown, p, e)
  BY <1>1, <1>2, LogRead DEF Readable, Now
<1>5. ASSUME NEW d \in 0 .. Capacity, Log(g, Now, d)
      PROVE  InOrder' /\ Readable' = Recs(g, p, d)
  <2>1. Log(Shown', Now', d) /\ WriteIndex(Now') = p
    BY <1>2, <1>5, LogSame DEF Same
  <2>2. ReadFrom(Shown', Now') = Recs(Shown', WriteIndex(Now'), d)
    BY <1>2, <2>1, LogRead
  <2>3. Readable' = ReadFrom(Shown', Now')
    BY DEF Readable, Now
  <2>4. InOrder'
    BY <1>3, <2>1 DEF InOrder
  <2> QED
    BY <1>2, <2>1, <2>2, <2>3, <2>4
<1>6. CASE g = Shown
  BY <1>1, <1>4, <1>5, <1>6
<1>7. CASE /\ Full(Now) /\ e = 0 /\ PerSector \in 1 .. Capacity
           /\ Log(g, Now, PerSector)
           /\ \A i \in Index : g[i] = IF Dist(p, i) < PerSector THEN Empty ELSE Shown[i]
  <2>1. PerSector \in 0 .. Capacity
    BY <1>7, CapacityOK
  <2>2. InOrder' /\ Readable' = Recs(g, p, PerSector)
    BY <1>5, <1>7, <2>1
  <2>3. /\ Blank(Shown, p, 0) /\ Ordered(Shown, p, 0)
        /\ Blank(g, p, PerSector) /\ Ordered(g, p, PerSector)
    BY <1>1, <1>7 DEF Log
  <2>4. Recs(g, p, PerSector) = SubSeq(Recs(Shown, p, 0), PerSector + 1, Capacity)
    <3>1. g \in [Index -> Cell]
      BY <1>2
    <3> HIDE DEF g
    <3> QED
      BY <1>2, <1>7, <2>3, <3>1, RecsErased
  <2>5. Len(Readable) = Capacity
    <3>1. Len(Recs(Shown, p, e)) = Capacity - e
      BY <1>1, <1>2, RecsOK DEF Log
    <3> QED
      BY <1>4, <1>7, <3>1, CapacityOK
  <2>6. Readable' = SubSeq(Readable, PerSector + 1, Capacity)
    BY <1>4, <1>7, <2>2, <2>4
  <2> QED
    BY <2>2, <2>5, <2>6 DEF Kept!Reclaim, Kept!Rest
<1> QED
  BY <1>1, <1>2, <1>6, <1>7, LogErase

\* A record goes behind the ones that are there, after the loss of a sector if
\* the promised log is full.
LEMMA AddsOK ==
  ASSUME TypeOK, InOrder, TypeOK', NEW r \in Record, Adds(r)
  PROVE  InOrder' /\ Kept!Add(r)
<1> DEFINE p == WriteIndex(Now)
<1>1. PICK e \in 0 .. Capacity : Log(Shown, Now, e)
  BY DEF InOrder
<1>2. /\ Shown \in [Index -> Cell] /\ Now \in Tier
      /\ Shown' \in [Index -> Cell] /\ Now' \in Tier /\ p \in Index
      /\ acked \in SUBSET Record
  BY ShownOK, ShownOKNext, WriteIndexOK DEF TypeOK, Record
<1>3. /\ \A i \in Index : Shown[i] < r
      /\ \A a \in acked : a < r
      /\ Same(Now', Written(Now, p)) /\ acked' \subseteq acked \cup {r}
  BY DEF Adds
<1>4. Readable = Recs(Shown, p, e) /\ Readable' = ReadFrom(Shown', Now')
  BY <1>1, <1>2, LogRead DEF Readable, Now
\* From a log g with a free place and the records rest.
<1>5. ASSUME NEW g \in [Index -> Cell], NEW d \in 1 .. Capacity, Log(g, Now, d),
             KeepsNewest(g, Now, acked), \A i \in Index : g[i] < r,
             Shown' = Programmed(g, p, r)
      PROVE  InOrder' /\ Readable' = Append(Recs(g, p, d), r)
  <2>1. d \in 0 .. Capacity /\ d > 0 /\ d - 1 \in 0 .. Capacity
    BY CapacityOK
  <2>2. /\ g[p] = Empty /\ Shown' = [g EXCEPT ![p] = r]
        /\ WriteIndex(Written(Now, p)) = After(p)
        /\ Log(Shown', Written(Now, p), d - 1)
    BY <1>2, <1>5, <2>1, LogAdd
  <2>3. Log(Shown', Now', d - 1) /\ WriteIndex(Now') = After(p)
    BY <1>3, <2>2, LogSame DEF Same
  <2>4. KeepsNewest(Shown', Now', acked')
    <3>1. /\ acked' \in SUBSET (acked \cup {r})
          /\ Now'.total_records = Written(Now, p).total_records
      BY <1>3 DEF Same
    <3> HIDE DEF p
    <3>2. KeepsNewest([g EXCEPT ![p] = r], Now', acked')
      BY <1>2, <1>3, <1>5, <2>2, <3>1, KeepsAdded
    <3> QED
      BY <2>2, <3>2
  <2>5. InOrder'
    BY <2>1, <2>3, <2>4 DEF InOrder
  <2>6. Readable' = Recs(Shown', After(p), d - 1)
    BY <1>2, <1>4, <2>1, <2>3, LogRead
  <2>7. Recs([g EXCEPT ![p] = r], After(p), d - 1) = Append(Recs(g, p, d), r)
    <3>1. Blank(g, p, d) /\ Ordered(g, p, d)
      BY <1>5 DEF Log
    <3>2. Blank(Shown', After(p), d - 1) /\ Ordered(Shown', After(p), d - 1)
      BY <2>3 DEF Log
    <3> QED
      BY <1>2, <2>2, <3>1, <3>2, RecsAdded
  <2> QED
    BY <2>2, <2>5, <2>6, <2>7
<1>6. \A i \in DOMAIN Readable : Readable[i] < r
  <2> TAKE i \in DOMAIN Readable
  <2>1. i \in 1 .. Capacity - e /\ Place(p, e + i - 1) \in Index
        /\ Readable[i] = Shown[Place(p, e + i - 1)]
    BY <1>1, <1>2, <1>4, RecsOK DEF Log
  <2> QED
    BY <1>3, <2>1
<1>7. Len(Readable) = Capacity - e
  BY <1>1, <1>2, <1>4, RecsOK DEF Log
<1>8. CASE Shown[p] = Empty /\ Shown' = Programmed(Shown, p, r)
  <2>1. e \in 1 .. Capacity
    BY <1>1, <1>2, <1>8, FreePlace, CapacityOK
  <2>2. InOrder' /\ Readable' = Append(Readable, r)
    BY <1>1, <1>2, <1>3, <1>4, <1>5, <1>8, <2>1 DEF InOrder
  <2>3. Len(Readable) # Capacity
    BY <1>7, <2>1, CapacityOK
  <2> QED
    BY <1>6, <2>2, <2>3 DEF Kept!Add
<1>9. CASE NeedsErase(Now, Shown, p) /\ Shown' = Programmed(Erased(Shown, p), p, r)
  <2> DEFINE g == Erased(Shown, p)
  <2>1. g \in [Index -> Cell] /\ KeepsNewest(g, Now, acked)
    BY <1>1, <1>2, <1>9, FlashOK, KeepsErased DEF InOrder
  <2>2. \A i \in Index : g[i] < r
    <3>1. Empty < r
      BY DEF Empty, Record
    <3>2. \A i \in Index : g[i] = Empty \/ g[i] = Shown[i]
      BY DEF Erased
    <3> HIDE DEF g
    <3> QED
      BY <1>3, <3>1, <3>2
  <2>3. Shown' = Programmed(g, p, r)
    BY <1>9
  <2> HIDE DEF g
  <2>4. CASE g = Shown /\ e > 0
    <3>1. e \in 1 .. Capacity
      BY <2>4, CapacityOK
    <3>2. InOrder' /\ Readable' = Append(Readable, r)
      BY <1>1, <1>4, <1>5, <2>1, <2>2, <2>3, <2>4, <3>1
    <3>3. Len(Readable) # Capacity
      BY <1>7, <3>1, CapacityOK
    <3> QED
      BY <1>6, <3>2, <3>3 DEF Kept!Add
  <2>5. CASE /\ Full(Now) /\ e = 0 /\ PerSector \in 1 .. Capacity
             /\ Log(g, Now, PerSector)
             /\ \A i \in Index : g[i] = IF Dist(p, i) < PerSector THEN Empty ELSE Shown[i]
    <3>1. InOrder' /\ Readable' = Append(Recs(g, p, PerSector), r)
      BY <1>5, <2>1, <2>2, <2>3, <2>5
    <3>2. /\ Blank(Shown, p, 0) /\ Ordered(Shown, p, 0)
          /\ Blank(g, p, PerSector) /\ Ordered(g, p, PerSector)
      BY <1>1, <2>5 DEF Log
    <3>3. Recs(g, p, PerSector) = SubSeq(Recs(Shown, p, 0), PerSector + 1, Capacity)
      BY <1>2, <2>1, <2>5, <3>2, RecsErased
    <3>4. Len(Readable) = Capacity
      BY <1>7, <2>5, CapacityOK
    <3> QED
      BY <1>4, <1>6, <2>5, <3>1, <3>3, <3>4 DEF Kept!Add, Kept!Rest
  <2> QED
    BY <1>1, <1>2, <1>9, <2>4, <2>5, LogErase DEF g
<1> QED
  BY <1>8, <1>9 DEF Adds
-----------------------------------------------------------------------------
(* The steps of the store. *)

\* What a write of the main loop relies on between two commands.
Writing ==
  /\ \A i \in Index : Shown[i] <= posted
  /\ writer.pc # "idle" =>
        /\ tier.initialized /\ writer.at = WriteIndex(tier) /\ writer.record = posted
        /\ posted \notin acked /\ \A i \in Index : Shown[i] < posted
  /\ writer.pc = "erase" => NeedsErase(tier, flash, writer.at)
  /\ writer.pc \in {"program", "commit"} => Shown[writer.at] = Empty
  /\ writer.pc = "commit" => flash[writer.at] = writer.record

\* The inductive invariant of the order.
OrderInv ==
  /\ Inv /\ InOrder /\ Writing
  /\ posted <= MaxPosted
  /\ ~tier.initialized => posted <= Capacity

\* What a step does to the log as a reader sees it.
Moves == Stays \/ Erases \/ \E r \in 1 .. MaxPosted : Adds(r)

\* The power fails only before more was posted than the log holds.
EarlyRestarts == RestartLimit <= Capacity

LEMMA SameItself == \A t : Same(t, t)
BY DEF Same

LEMMA TypesOK ==
  ASSUME TypeOK
  PROVE  /\ flash \in [Index -> Cell] /\ tier \in Tier /\ writer.pc \in Step
         /\ writer.at \in Index /\ posted \in Nat /\ acked \subseteq 1 .. posted
         /\ writer.pc # "commit" => Shown = flash
         /\ tier.initialized => Now = tier
BY DEF TypeOK, Tier, Shown, Now

LEMMA StepPost ==
  ASSUME OrderInv, TypeOK, Post
  PROVE  Moves /\ Writing' /\ posted' <= MaxPosted
<1>1. /\ tier.initialized /\ writer.pc = "idle" /\ posted < MaxPosted
      /\ posted' = posted + 1 /\ UNCHANGED <<flash, tier, acked>>
      /\ writer'.pc \in {"erase", "program"} /\ writer'.at = WriteIndex(tier)
      /\ writer'.record = posted + 1
      /\ writer'.pc = "erase" <=> NeedsErase(tier, flash, WriteIndex(tier))
  BY DEF Post
<1>2. /\ flash \in [Index -> Cell] /\ tier \in Tier /\ posted \in Nat
      /\ acked \subseteq 1 .. posted /\ Shown = flash /\ Now = tier
  BY <1>1, TypesOK
<1>3. Shown' = flash /\ Now' = tier
  BY <1>1 DEF Shown, Now
<1>4. Stays
  BY <1>1, <1>2, <1>3, SameItself DEF Stays
<1>5. \A i \in Index : flash[i] \in Int /\ flash[i] <= posted
  BY <1>2 DEF OrderInv, Writing, Cell, Record, Empty, Bad
<1>6. PICK e \in 0 .. Capacity : Log(flash, tier, e)
  BY <1>2 DEF OrderInv, InOrder
<1>7. writer'.pc = "program" => flash[WriteIndex(tier)] = Empty
  BY <1>1, <1>2, <1>6, FreePlace
<1>8. \A i \in Index : flash[i] < posted + 1 /\ flash[i] <= posted + 1
  BY <1>2, <1>5
<1>9. posted + 1 \notin acked
  BY <1>2
<1>10. Writing'
  BY <1>1, <1>2, <1>3, <1>7, <1>8, <1>9 DEF Writing
<1>11. posted' <= MaxPosted
  BY <1>1, <1>2, BoundsAssumption
<1> QED
  BY <1>4, <1>10, <1>11 DEF Moves

\* A cell of a sector that is erased.
LEMMA ErasedAt ==
  ASSUME NEW f \in [Index -> Cell], NEW i \in Index
  PROVE  /\ Erased(f, i)[i] = Empty
         /\ \A j \in Index : Erased(f, i)[j] \in {Empty, f[j]}
BY DEF Erased

LEMMA StepErase ==
  ASSUME OrderInv, TypeOK, Erase
  PROVE  Moves /\ Writing' /\ posted' <= MaxPosted
<1>1. /\ writer.pc = "erase" /\ writer'.pc = "program" /\ writer'.at = writer.at
      /\ writer'.record = writer.record /\ flash' = Erased(flash, writer.at)
      /\ UNCHANGED <<tier, posted, acked>>
  BY DEF Erase, TypeOK
<1>2. /\ flash \in [Index -> Cell] /\ tier \in Tier /\ writer.at \in Index
      /\ posted \in Nat /\ Shown = flash
  BY <1>1, TypesOK
<1>3. /\ tier.initialized /\ writer.at = WriteIndex(tier) /\ writer.record = posted
      /\ posted \notin acked /\ \A i \in Index : flash[i] < posted
      /\ NeedsErase(tier, flash, writer.at)
  BY <1>1, <1>2 DEF OrderInv, Writing
<1>4. Now = tier /\ Now' = tier /\ Shown' = Erased(flash, writer.at)
  BY <1>1, <1>3 DEF Now, Shown
<1>5. Erases
  BY <1>1, <1>2, <1>3, <1>4, SameItself DEF Erases
<1>6. posted \in 1 .. posted
  BY <1>1 DEF OrderInv, Inv, Typed, Typed, TypeOK
<1>7. \A i \in Index : Shown'[i] < posted /\ Shown'[i] <= posted
  <2> TAKE i \in Index
  <2>1. Shown'[i] \in {Empty, flash[i]} /\ flash[i] < posted /\ Empty < posted
    BY <1>2, <1>3, <1>4, <1>6, ErasedAt DEF Empty
  <2>2. flash[i] \in Int /\ Empty \in Int
    BY <1>2 DEF Cell, Record, Empty, Bad
  <2> QED
    BY <1>2, <2>1, <2>2
<1>8. Shown'[writer.at] = Empty
  BY <1>2, <1>4, ErasedAt
<1>9. Writing'
  BY <1>1, <1>3, <1>7, <1>8 DEF Writing
<1> QED
  BY <1>1, <1>5, <1>9 DEF Moves, OrderInv

LEMMA StepProgram ==
  ASSUME OrderInv, TypeOK, Program
  PROVE  Moves /\ Writing' /\ posted' <= MaxPosted
<1>1. /\ writer.pc = "program" /\ writer'.pc = "commit" /\ writer'.at = writer.at
      /\ writer'.record = writer.record
      /\ flash' = Programmed(flash, writer.at, writer.record)
      /\ UNCHANGED <<tier, posted, acked>>
  BY DEF Program, TypeOK
<1>2. /\ flash \in [Index -> Cell] /\ tier \in Tier /\ writer.at \in Index
      /\ posted \in Nat /\ Shown = flash
  BY <1>1, TypesOK
<1>3. /\ tier.initialized /\ writer.at = WriteIndex(tier) /\ writer.record = posted
      /\ posted \notin acked /\ \A i \in Index : flash[i] < posted /\ flash[i] <= posted
      /\ flash[writer.at] = Empty
  BY <1>1, <1>2 DEF OrderInv, Writing
<1>4. flash' = [flash EXCEPT ![writer.at] = writer.record]
  BY <1>1, <1>2, <1>3 DEF Programmed
<1>5. Shown' = [flash' EXCEPT ![writer.at] = Empty]
  BY <1>1 DEF Shown
<1>6. Shown' = flash /\ flash'[writer.at] = writer.record
  BY <1>2, <1>3, <1>4, <1>5
<1>7. Now' = Now
  BY <1>1, <1>3 DEF Now
<1>8. Stays
  BY <1>1, <1>2, <1>6, <1>7, SameItself DEF Stays
<1>9. Writing'
  BY <1>1, <1>3, <1>6 DEF Writing
<1> QED
  BY <1>1, <1>8, <1>9 DEF Moves, OrderInv

\* A record that is in the flash and not counted yet.
LEMMA Uncounted ==
  ASSUME OrderInv, TypeOK, writer.pc = "commit"
  PROVE  /\ tier.initialized /\ Now = tier /\ writer.at = WriteIndex(tier)
         /\ writer.record = posted /\ posted \in 1 .. MaxPosted
         /\ flash = Programmed(Shown, writer.at, posted)
         /\ Shown[writer.at] = Empty
         /\ \A i \in Index : Shown[i] < posted /\ flash[i] <= posted
         /\ \A a \in acked : a < posted
<1>1. /\ flash \in [Index -> Cell] /\ tier \in Tier /\ writer.at \in Index
      /\ posted \in Nat /\ acked \subseteq 1 .. posted
  BY TypesOK
<1>2. /\ tier.initialized /\ writer.at = WriteIndex(tier) /\ writer.record = posted
      /\ posted \notin acked /\ \A i \in Index : Shown[i] < posted
      /\ Shown[writer.at] = Empty /\ flash[writer.at] = writer.record
  BY DEF OrderInv, Writing
<1>3. posted \in 1 .. MaxPosted
  BY <1>1, BoundsAssumption DEF OrderInv, Inv, Typed
<1>4. Shown = [flash EXCEPT ![writer.at] = Empty]
  BY DEF Shown
<1>5. flash = Programmed(Shown, writer.at, posted)
  BY <1>1, <1>2, <1>4 DEF Programmed
<1>6. \A a \in acked : a < posted
  BY <1>1, <1>2
<1>7. \A i \in Index : flash[i] <= posted
  <2> TAKE i \in Index
  <2>1. flash[i] = posted \/ flash[i] < posted
    BY <1>1, <1>2, <1>4
  <2>2. flash[i] \in Int
    BY <1>1 DEF Cell, Record, Empty, Bad
  <2> QED
    BY <1>1, <2>1, <2>2
<1> QED
  BY <1>2, <1>3, <1>5, <1>6, <1>7 DEF Now

LEMMA StepCommit ==
  ASSUME OrderInv, TypeOK, Commit
  PROVE  Moves /\ Writing' /\ posted' <= MaxPosted
<1>1. /\ writer.pc = "commit" /\ writer'.pc = "idle"
      /\ tier' = Written(tier, writer.at) /\ acked' = acked \cup {writer.record}
      /\ UNCHANGED <<flash, posted>>
  BY DEF Commit, Idle
<1>2. /\ tier.initialized /\ Now = tier /\ writer.at = WriteIndex(tier)
      /\ writer.record = posted /\ posted \in 1 .. MaxPosted
      /\ flash = Programmed(Shown, writer.at, posted)
      /\ Shown[writer.at] = Empty
      /\ \A i \in Index : Shown[i] < posted /\ flash[i] <= posted
      /\ \A a \in acked : a < posted
  BY <1>1, Uncounted
<1>3. Shown' = flash
  BY <1>1 DEF Shown
<1>4. Now' = Written(tier, writer.at)
  <2>1. tier'.initialized
    BY <1>1, <1>2, TypesOK, WrittenOK
  <2> QED
    BY <1>1, <2>1 DEF Now
<1>5. Adds(posted)
  BY <1>1, <1>2, <1>3, <1>4, SameItself DEF Adds
<1>6. Writing'
  BY <1>1, <1>2, <1>3 DEF Writing
<1> QED
  BY <1>1, <1>2, <1>5, <1>6 DEF Moves, OrderInv

LEMMA StepFail ==
  ASSUME Undisturbed, OrderInv, TypeOK, Fail
  PROVE  Moves /\ Writing' /\ posted' <= MaxPosted
<1>1. /\ writer.pc \in {"erase", "program"} /\ writer'.pc = "idle" /\ flash' \in CutShort
      /\ UNCHANGED <<tier, posted, acked>>
  BY DEF Fail, Idle
<1>2. /\ flash \in [Index -> Cell] /\ tier \in Tier /\ writer.at \in Index
      /\ posted \in Nat /\ Shown = flash
  BY <1>1, TypesOK
<1>3. /\ tier.initialized /\ writer.at = WriteIndex(tier)
      /\ \A i \in Index : flash[i] < posted
  BY <1>1, <1>2 DEF OrderInv, Writing
<1>4. Now = tier /\ Now' = tier /\ Shown' = flash'
  BY <1>1, <1>3 DEF Now, Shown
<1>5. flash' = flash \/ (writer.pc = "erase" /\ flash' = Erased(flash, writer.at))
  BY <1>1 DEF CutShort, Undisturbed
<1>6. Stays \/ Erases
  <2>1. CASE flash' = flash
    BY <1>1, <1>2, <1>4, <2>1, SameItself DEF Stays
  <2>2. CASE writer.pc = "erase" /\ flash' = Erased(flash, writer.at)
    <3>1. NeedsErase(tier, flash, writer.at)
      BY <2>2 DEF OrderInv, Writing
    <3> QED
      BY <1>1, <1>2, <1>3, <1>4, <2>2, <3>1, SameItself DEF Erases
  <2> QED
    BY <1>5, <2>1, <2>2
<1>7. \A i \in Index : flash'[i] <= posted
  <2> TAKE i \in Index
  <2>1. flash'[i] \in {Empty, flash[i]}
    BY <1>2, <1>5, ErasedAt
  <2>2. flash[i] \in Int /\ flash[i] < posted /\ Empty <= posted
    BY <1>2, <1>3 DEF Cell, Record, Empty, Bad
  <2> QED
    BY <1>2, <2>1, <2>2
<1>8. Writing'
  BY <1>1, <1>4, <1>7 DEF Writing
<1> QED
  BY <1>1, <1>6, <1>8 DEF Moves, OrderInv

LEMMA StepInterrupt ==
  ASSUME Undisturbed, OrderInv, TypeOK, InterruptPost
  PROVE  Moves /\ Writing' /\ posted' <= MaxPosted
<1> DEFINE p == WriteIndex(tier)
           f == IF NeedsErase(tier, flash, p) THEN Erased(flash, p) ELSE flash
           r == posted + 1
<1>1. /\ writer.pc = "idle" /\ tier.initialized /\ posted < MaxPosted
      /\ flash' = Programmed(f, p, r) /\ tier' = Written(tier, p)
      /\ posted' = r /\ acked' = acked \cup {r} /\ writer' = writer
  BY DEF InterruptPost, Undisturbed
<1>2. /\ flash \in [Index -> Cell] /\ tier \in Tier /\ p \in Index /\ posted \in Nat
      /\ acked \subseteq 1 .. posted /\ Shown = flash /\ Now = tier
  BY <1>1, TypesOK, WriteIndexOK
<1>3. Shown' = flash' /\ Now' = Written(tier, p)
  <2>1. tier'.initialized
    BY <1>1, <1>2, WrittenOK
  <2> QED
    BY <1>1, <2>1 DEF Shown, Now
<1>4. \A i \in Index : flash[i] \in Int /\ flash[i] <= posted
  BY <1>2 DEF OrderInv, Writing, Cell, Record, Empty, Bad
<1>5. PICK e \in 0 .. Capacity : Log(flash, tier, e)
  BY <1>2 DEF OrderInv, InOrder
<1> HIDE DEF p, r
<1>6. r \in 1 .. MaxPosted /\ r \in Record /\ r = posted + 1
  BY <1>1, <1>2, BoundsAssumption DEF r, Record
<1>7. Adds(r)
  <2>1. \A i \in Index : flash[i] < r
    BY <1>2, <1>4, <1>6
  <2>2. \A a \in acked : a < r
    BY <1>2, <1>6
  <2>3. CASE NeedsErase(tier, flash, p)
    BY <1>1, <1>2, <1>3, <2>1, <2>2, <2>3, SameItself DEF Adds, p
  <2>4. CASE ~NeedsErase(tier, flash, p)
    <3>1. flash[p] = Empty
      BY <1>2, <1>5, <2>4, FreePlace DEF p
    <3> QED
      BY <1>1, <1>2, <1>3, <2>1, <2>2, <2>4, <3>1, SameItself DEF Adds, p
  <2> QED
    BY <2>3, <2>4
<1>8. \A i \in Index : flash'[i] <= r
  <2> TAKE i \in Index
  <2>1. f \in [Index -> Cell] /\ f[i] \in {Empty, flash[i]}
    BY <1>2, FlashOK, ErasedAt
  <2> HIDE DEF f
  <2>2. flash'[i] \in {f[i], r, Bad}
    BY <1>1, <1>2, <2>1 DEF Programmed
  <2>3. Empty <= r /\ Bad <= r /\ flash[i] <= r /\ r <= r
    BY <1>2, <1>4, <1>6 DEF Empty, Bad
  <2> QED
    BY <2>1, <2>2, <2>3
<1>9. Writing'
  BY <1>1, <1>3, <1>8 DEF Writing
<1> QED
  BY <1>1, <1>6, <1>7, <1>9 DEF Moves

\* Without power the log is what the next start finds.
LEMMA NowOff ==
  ASSUME ~tier.initialized
  PROVE  Now = Scan(flash)
BY DEF Now

\* Until the log is full for the first time a start finds it as it was left; a
\* record in the flash that was not counted is counted then.
LEMMA StepPowerLoss ==
  ASSUME Undisturbed, EarlyRestarts, OrderInv, TypeOK, PowerLoss
  PROVE  Moves /\ Writing' /\ posted' <= MaxPosted /\ posted' <= Capacity
<1> DEFINE n == tier.total_records
<1>1. /\ tier.initialized /\ tier' = Off /\ writer' = Idle /\ flash' \in CutShort
      /\ posted <= RestartLimit /\ UNCHANGED <<posted, acked>>
  BY DEF PowerLoss
<1>2. /\ flash \in [Index -> Cell] /\ tier \in Tier /\ writer.at \in Index
      /\ writer.pc \in Step /\ posted \in Nat /\ Now = tier
      /\ writer.pc # "commit" => Shown = flash
  BY <1>1, TypesOK
<1>3. posted <= Capacity /\ Capacity \in Nat \ {0} /\ n \in Nat
  BY <1>1, <1>2, CapacityOK, BoundsAssumption DEF EarlyRestarts, Tier
<1>4. Filling
  BY <1>3 DEF OrderInv, Inv
<1>5. flash' = flash
  <2>1. CASE writer.pc = "erase"
    <3>1. SectorIsEmpty(flash, writer.at)
      BY <1>1, <1>4, <2>1 DEF Filling
    <3> QED
      BY <1>1, <1>2, <2>1, <3>1, ErasedEmpty DEF CutShort, Undisturbed
  <2>2. CASE writer.pc # "erase"
    BY <1>1, <1>2, <2>2 DEF CutShort, Undisturbed, Step
  <2> QED
    BY <2>1, <2>2
<1>6. Shown' = flash /\ Now' = Scan(flash)
  <2>1. Shown' = flash' /\ Now' = Scan(flash)'
    BY <1>1 DEF Shown, Now, Off, Idle
  <2>2. Scan(flash)' = Scan(flash)
    BY <1>5 DEF Scan, Counted, Before, Passed, Started, Opens
  <2> QED
    BY <1>5, <2>1, <2>2
<1>7. Moves
  <2>1. CASE writer.pc # "commit"
    <3>1. Prefix(flash, n) /\ n <= posted
      BY <1>1, <1>2, <1>3, <1>4, <2>1 DEF Filling, Step
    <3>2. n \in 0 .. Capacity
      BY <1>2, <1>3, <3>1
    <3>3. /\ n > 0 => tier.last_index = n - 1
          /\ n = 0 => tier.current = 0
      BY <1>1, <1>4 DEF Filling
    <3>4. Same(Scan(flash), tier)
      BY <1>2, <3>1, <3>2, <3>3, ScanPrefix DEF Same, WriteIndex
    <3> QED
      BY <1>1, <1>2, <1>6, <2>1, <3>4 DEF Moves, Stays
  <2>2. CASE writer.pc = "commit"
    <3>1. Prefix(flash, n + 1) /\ n < posted /\ writer.at = n
      BY <1>1, <1>4, <2>2 DEF Filling
    <3>2. n + 1 \in 0 .. Capacity /\ n + 1 > 0 /\ n < Capacity /\ n + 1 - 1 = n
      BY <1>2, <1>3, <3>1
    <3>3. Scan(flash).total_records = n + 1 /\ Scan(flash).last_index = n
      <4> DEFINE k == n + 1
      <4>1. k \in 0 .. Capacity /\ Prefix(flash, k) /\ k > 0 /\ k - 1 = n
        BY <1>3, <3>1, <3>2
      <4> HIDE DEF k
      <4>2. Scan(flash).total_records = k /\ Scan(flash).last_index = k - 1
        BY <1>2, <4>1, ScanPrefix
      <4> QED
        BY <4>1, <4>2 DEF k
    <3>4. /\ Written(tier, writer.at).total_records = n + 1
          /\ Written(tier, writer.at).last_index = n
      BY <1>2, <1>3, <3>1, <3>2 DEF Written, Full, Tier
    <3>5. Same(Scan(flash), Written(tier, writer.at))
      BY <3>2, <3>3, <3>4 DEF Same, WriteIndex
    <3>6. /\ writer.at = WriteIndex(tier) /\ posted \in 1 .. MaxPosted
          /\ flash = Programmed(Shown, writer.at, posted)
          /\ Shown[writer.at] = Empty
          /\ \A i \in Index : Shown[i] < posted
          /\ \A a \in acked : a < posted
      BY <2>2, Uncounted
    <3>7. Adds(posted)
      BY <1>1, <1>2, <1>6, <3>5, <3>6 DEF Adds
    <3> QED
      BY <3>6, <3>7 DEF Moves
  <2> QED
    BY <2>1, <2>2
<1>8. \A i \in Index : flash[i] <= posted
  <2>1. CASE writer.pc # "commit"
    BY <1>2, <2>1 DEF OrderInv, Writing
  <2>2. CASE writer.pc = "commit"
    BY <2>2, Uncounted
  <2> QED
    BY <2>1, <2>2
<1>9. Writing'
  BY <1>1, <1>6, <1>8 DEF Writing, Idle
<1> QED
  BY <1>1, <1>3, <1>7, <1>9 DEF OrderInv

LEMMA StepInit ==
  ASSUME OrderInv, TypeOK, EventLogTier_Init
  PROVE  Moves /\ Writing' /\ posted' <= MaxPosted /\ tier'.initialized
<1>1. /\ ~tier.initialized /\ tier' = Scan(flash)
      /\ UNCHANGED <<flash, writer, posted, acked>>
  BY DEF EventLogTier_Init
<1>2. flash \in [Index -> Cell] /\ Now = Scan(flash)
  BY <1>1, TypesOK, NowOff
<1>3. writer.pc = "idle"
  BY <1>1 DEF OrderInv, Writing
<1>4. tier'.initialized
  BY <1>1, <1>2, ScanOK
<1>5. Now' = Scan(flash) /\ Shown' = Shown
  BY <1>1, <1>4 DEF Now, Shown
<1>6. Stays
  BY <1>1, <1>2, <1>5, SameItself DEF Stays
<1>7. Writing'
  BY <1>1, <1>3, <1>5 DEF OrderInv, Writing
<1> QED
  BY <1>1, <1>4, <1>6, <1>7 DEF Moves, OrderInv

LEMMA StepNone ==
  ASSUME OrderInv, UNCHANGED vars
  PROVE  Moves /\ Writing' /\ posted' <= MaxPosted
<1>1. /\ flash' = flash /\ tier' = tier /\ writer' = writer
      /\ posted' = posted /\ acked' = acked
  BY DEF vars
<1>2. Shown' = Shown
  BY <1>1 DEF Shown
<1>3. Now' = Now
  BY <1>1 DEF Now, Scan, Counted, Before, Passed, Started, Opens
<1>4. Stays
  BY <1>1, <1>2, <1>3, SameItself DEF Stays
<1>5. Writing'
  BY <1>1, <1>2 DEF OrderInv, Writing
<1> QED
  BY <1>1, <1>4, <1>5 DEF Moves, OrderInv

\* Only a power loss switches the tier off, and only Init switches it on.
LEMMA StepOff ==
  ASSUME Undisturbed, EarlyRestarts, OrderInv, TypeOK, [Next]_vars
  PROVE  ~tier'.initialized => posted' <= Capacity
<1>1. tier \in Tier /\ writer.at \in Index
  BY TypesOK
<1>2. CASE Post \/ Erase \/ Program \/ Fail
  BY <1>2 DEF Post, Erase, Program, Fail, OrderInv, Writing
<1>3. CASE Commit
  <2>1. tier.initialized /\ tier' = Written(tier, writer.at)
    BY <1>3 DEF Commit, OrderInv, Writing
  <2> QED
    BY <1>1, <2>1, WrittenOK
<1>4. CASE InterruptPost
  <2>1. tier.initialized /\ tier' = Written(tier, WriteIndex(tier))
    BY <1>4 DEF InterruptPost
  <2> QED
    BY <1>1, <2>1, WrittenOK, WriteIndexOK
<1>5. CASE PowerLoss
  BY <1>5, StepPowerLoss
<1>6. CASE EventLogTier_Init
  BY <1>6, StepInit
<1>7. CASE UNCHANGED vars
  BY <1>7 DEF vars, OrderInv
<1> QED
  BY <1>2, <1>3, <1>4, <1>5, <1>6, <1>7 DEF Next

LEMMA OrderNext ==
  ASSUME Undisturbed, EarlyRestarts, OrderInv, [Next]_vars
  PROVE  OrderInv' /\ [Kept!Next]_Readable
<1>1. TypeOK /\ InOrder /\ Inv
  BY DEF OrderInv, Inv, Typed
<1>2. Inv' /\ TypeOK'
  <2>1. Inv'
    BY <1>1, NextInv
  <2> QED
    BY <2>1 DEF Inv, Typed
<1>3. Moves /\ Writing' /\ posted' <= MaxPosted
  BY <1>1, StepPost, StepErase, StepProgram, StepCommit, StepFail, StepInterrupt,
     StepPowerLoss, StepInit, StepNone DEF Next
<1>4. InOrder' /\ [Kept!Next]_Readable
  <2>1. CASE Stays
    BY <1>1, <1>2, <2>1, StaysOK
  <2>2. CASE Erases
    BY <1>1, <1>2, <2>2, ErasesOK DEF Kept!Next
  <2>3. CASE \E r \in 1 .. MaxPosted : Adds(r)
    <3>1. PICK r \in 1 .. MaxPosted : Adds(r)
      BY <2>3
    <3>2. r \in Record
      BY <3>1, BoundsAssumption DEF Record
    <3>3. InOrder' /\ Kept!Add(r)
      BY <1>1, <1>2, <3>1, <3>2, AddsOK
    <3> QED
      BY <3>1, <3>3 DEF Kept!Next
  <2> QED
    BY <1>3, <2>1, <2>2, <2>3 DEF Moves
<1> QED
  BY <1>2, <1>3, <1>4, StepOff, <1>1 DEF OrderInv

LEMMA OrderInit ==
  ASSUME Init
  PROVE  OrderInv /\ Kept!Init
<1>1. Inv /\ TypeOK
  BY InitInv DEF Inv, Typed
<1>2. /\ flash \in [Index -> Cell] /\ \A i \in Index : flash[i] = Empty
      /\ ~tier.initialized /\ writer.pc = "idle" /\ Shown = flash /\ Now = Scan(flash)
      /\ acked = {} /\ posted = 0
  BY <1>1, TypesOK DEF Init, Off, Idle, Shown, Now
<1>3. Capacity \in Nat \ {0} /\ MaxPosted \in Nat
  BY CapacityOK, BoundsAssumption
<1>4. Prefix(flash, 0)
  BY <1>2 DEF Prefix, Index
<1>5. Scan(flash) \in Tier /\ Scan(flash).total_records = 0 /\ Scan(flash).current = 0
  BY <1>2, <1>3, <1>4, ScanOK, ScanPrefix
<1>6. WriteIndex(Scan(flash)) = 0 /\ 0 \in Index
  BY <1>5, ZeroIsIndex DEF WriteIndex
<1>7. Placed(Scan(flash), Capacity)
  BY <1>3, <1>5, <1>6 DEF Placed, Full
<1>8. \A i \in Index : Dist(0, i) \in Index /\ Dist(0, i) < Capacity
                       /\ ~(Capacity <= Dist(0, i))
  <2> TAKE i \in Index
  <2>1. Dist(0, i) \in Index
    BY <1>6, DistOK
  <2> QED
    BY <1>3, <2>1 DEF Index
<1>9. Log(flash, Scan(flash), Capacity) /\ Capacity \in 0 .. Capacity
  BY <1>2, <1>3, <1>6, <1>7, <1>8 DEF Log, Blank, Ordered
<1>10. InOrder
  BY <1>2, <1>9 DEF InOrder, KeepsNewest
<1>11. Writing
  BY <1>2 DEF Writing, Empty
<1>12. Readable = <<>>
  <2>1. Readable = Recs(flash, 0, Capacity)
    BY <1>2, <1>5, <1>6, <1>9, LogRead DEF Readable
  <2>2. Recs(flash, 0, Capacity) \in Seq(Record) /\ Len(Recs(flash, 0, Capacity)) = 0
    BY <1>2, <1>3, <1>6, <1>9, RecsOK DEF Log
  <2> QED
    BY <2>1, <2>2
<1> QED
  BY <1>1, <1>2, <1>3, <1>10, <1>11, <1>12 DEF OrderInv, Kept!Init

\* A record that is lost is older than all that are left, and these are as many
\* as the log holds, but for the cells of the sector that is being filled.
LEMMA RecentOK ==
  ASSUME OrderInv
  PROVE  RecentRecordsKept
<1>1. /\ TypeOK /\ InOrder /\ \A i \in Index : Shown[i] <= posted
      /\ Shown \in [Index -> Cell] /\ Now \in Tier /\ posted \in Nat
      /\ acked \subseteq 1 .. posted
  <2>1. TypeOK
    BY DEF OrderInv, Inv, Typed
  <2> QED
    BY <2>1, ShownOK, TypesOK DEF OrderInv, Writing
<1> SUFFICES ASSUME NEW r \in acked, r \notin Stored
             PROVE  ~(r > posted - (Capacity - PerSector))
  BY DEF RecentRecordsKept
<1> DEFINE p == WriteIndex(Now)
<1>2. PICK e \in 0 .. Capacity : Log(Shown, Now, e)
  BY <1>1 DEF InOrder
<1>3. p \in Index /\ Placed(Now, e) /\ Blank(Shown, p, e) /\ Ordered(Shown, p, e)
  BY <1>1, <1>2, WriteIndexOK DEF Log
<1>4. Capacity \in Nat \ {0} /\ PerSector \in Nat \ {0} /\ r \in 1 .. posted /\ e \in Nat
  BY <1>1, SizeAssumption, CapacityOK
<1>5. \A i \in Index : Shown[i] # r
  <2> TAKE i \in Index
  <2>1. Shown[i] = Empty \/ Shown[i] = flash[i]
    BY <1>1 DEF Shown, TypeOK
  <2> QED
    BY <1>4, <2>1 DEF Stored, Empty
<1>6. Full(Now) /\ \A i \in Index : Valid(Shown[i]) => r < Shown[i]
  BY <1>1, <1>5 DEF InOrder, KeepsNewest
<1>7. e <= PerSector
  <2>1. p \in Nat
    BY <1>3, <1>4 DEF Index
  <2>2. p % PerSector \in 0 .. PerSector - 1
    BY <1>4, <2>1, Quotient
  <2>3. e \in {0, PerSector} \/ e = PerSector - (p % PerSector)
    BY <1>3, <1>6 DEF Placed
  <2> HIDE DEF p
  <2> QED
    BY <1>4, <2>2, <2>3
<1> DEFINE at(m) == Place(p, e + m - 1)
           M == 1 .. Capacity - e
           s == [m \in M |-> Shown[at(m)]]
<1>8. \A m \in M : at(m) \in Index /\ Dist(p, at(m)) = e + m - 1
  BY <1>1, <1>3, RecsOK
<1> HIDE DEF at
<1>9. \A m \in M : e <= Dist(p, at(m)) /\ Valid(Shown[at(m)])
  <2> TAKE m \in M
  <2>1. at(m) \in Index /\ e <= Dist(p, at(m)) /\ ~(Dist(p, at(m)) < e)
    BY <1>4, <1>8
  <2> QED
    BY <1>3, <2>1 DEF Blank
<1>10. s \in [M -> r + 1 .. posted]
  <2> SUFFICES ASSUME NEW m \in M
               PROVE  Shown[at(m)] \in r + 1 .. posted
    OBVIOUS
  <2>1. Shown[at(m)] \in Nat /\ r < Shown[at(m)] /\ Shown[at(m)] <= posted
    BY <1>1, <1>6, <1>8, <1>9 DEF Valid, Record
  <2> QED
    BY <1>1, <1>4, <2>1
<1>11. \A m \in M, k \in M : m # k => s[m] # s[k]
  <2>1. ASSUME NEW m \in M, NEW k \in M, m < k
        PROVE  s[m] # s[k]
    <3>1. Dist(p, at(m)) < Dist(p, at(k))
      BY <1>4, <1>8, <2>1
    <3>2. Shown[at(m)] < Shown[at(k)]
      BY <1>3, <1>8, <1>9, <3>1 DEF Ordered
    <3>3. Shown[at(m)] \in Nat /\ Shown[at(k)] \in Nat
      BY <1>9 DEF Valid, Record
    <3> QED
      BY <3>2, <3>3
  <2> HIDE DEF s
  <2> QED
    BY <1>4, <2>1
<1>12. ~(Cardinality(r + 1 .. posted) < Cardinality(M))
  <2>1. IsFiniteSet(M) /\ IsFiniteSet(r + 1 .. posted)
    BY <1>1, <1>4, FS_Interval
  <2> HIDE DEF s, M
  <2> QED
    BY <1>10, <1>11, <2>1, FS_PigeonHole
<1>13. Cardinality(M) = Capacity - e
  <2>1. Cardinality(M) = IF 1 > Capacity - e THEN 0 ELSE Capacity - e - 1 + 1
    BY <1>4, FS_Interval
  <2> QED
    BY <1>2, <1>4, <2>1
<1>14. Cardinality(r + 1 .. posted) = posted - r
  <2>1. Cardinality(r + 1 .. posted) = IF r + 1 > posted THEN 0 ELSE posted - (r + 1) + 1
    BY <1>1, <1>4, FS_Interval
  <2> QED
    BY <1>1, <1>4, <2>1
<1> HIDE DEF M
<1> QED
  BY <1>1, <1>4, <1>7, <1>12, <1>13, <1>14
-----------------------------------------------------------------------------
\* Once the log is full each new sector costs the oldest sector and no more: a
\* record whose post returned true is still in the flash when it is one of the
\* last Capacity - PerSector records posted.  Commands to the flash are carried
\* out as a whole or not at all, and the power fails only before the log is
\* full for the first time: a start after that takes the last address for the
\* newest record, and the log loses its order.
THEOREM RecentRecordsAreKept ==
  ASSUME Undisturbed, EarlyRestarts
  PROVE  Spec => []RecentRecordsKept
<1>1. Init => OrderInv
  BY OrderInit
<1>2. OrderInv /\ [Next]_vars => OrderInv'
  BY OrderNext
<1>3. OrderInv => RecentRecordsKept
  BY RecentOK
<1> QED
  BY <1>1, <1>2, <1>3, PTL DEF Spec

\* The same for the order: what a reader gets is a log to which records are
\* only added behind the last one, and which gives up its oldest sector when it
\* is full.  No step of a write, no error of the flash and no start before the
\* log is first full changes a record or the place of one.
THEOREM ImplementsRecentLog ==
  ASSUME Undisturbed, EarlyRestarts
  PROVE  Spec => KeepsRecentLog
<1>1. Init => OrderInv /\ Kept!Init
  BY OrderInit
<1>2. OrderInv /\ [Next]_vars => OrderInv' /\ [Kept!Next]_Readable
  BY OrderNext
<1> QED
  BY <1>1, <1>2, PTL DEF Spec, KeepsRecentLog, Kept!Spec
=============================================================================
