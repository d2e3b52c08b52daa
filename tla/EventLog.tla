------------------------------ MODULE EventLog ------------------------------
(***************************************************************************)
(* One tier of the event log in the SPI flash (event_logger.cpp, read      *)
(* through event_log_reader.c).  The critical and the general tier are two *)
(* independent copies; the level of an event chooses the tier.             *)
(*                                                                         *)
(* A record is named by the order of posting.  The flash is NOR memory: a  *)
(* page is programmed by clearing bits, so a record written over another   *)
(* one leaves a cell with a bad checksum.  Every command to the flash is a *)
(* step, because the power can fail and the receive interrupt of a UART    *)
(* can log its own record between two of them.                             *)
(***************************************************************************)
EXTENDS Integers, Sequences, FiniteSets

CONSTANTS
    Sectors,        \* end_sector - start_sector + 1
    PerSector,      \* EVENT_LOG_RECORDS_PER_SECTOR_FLASH
    \* bounds on what happens
    MaxPosted,      \* records posted
    MaxRestarts,    \* failures of the power
    RestartLimit,   \* records posted when the power may still fail
    MaxFailures,    \* commands the flash does not complete
    Tears,          \* an unfinished command may be carried out in part
    InterruptedAt   \* points of a write at which the UART interrupt logs too

Step == {"idle", "erase", "program", "commit"}  \* of EventLogTier_Write

ASSUME SizeAssumption == Sectors \in Nat \ {0} /\ PerSector \in Nat \ {0}
ASSUME BoundsAssumption ==
    /\ MaxPosted \in Nat /\ MaxRestarts \in Nat /\ RestartLimit \in Nat
    /\ MaxFailures \in Nat /\ Tears \in BOOLEAN /\ InterruptedAt \subseteq Step

VARIABLES
    flash,          \* the cells of the tier, by physical index
    tier,           \* EventLogTier_t
    writer,         \* EventLogTier_Write of the main loop, between two commands
    posted,         \* records given to EventLog_Post so far
    acked,          \* those for which it returned true
    restarts, failures

vars == <<flash, tier, writer, posted, acked, restarts, failures>>

Capacity == Sectors * PerSector
Index == 0 .. Capacity - 1
Record == Nat \ {0}
Empty == 0          \* all bytes 0xFF
Bad == -1           \* the checksum does not match
Cell == Record \cup {Empty, Bad}

Valid(c) == c \in Record
-----------------------------------------------------------------------------
(* EventLogTier_Init: what a scan of the flash makes of it. *)

SectorOf(i) == i \div PerSector
Before(i) == {j \in Index : SectorOf(j) = SectorOf(i) /\ j < i}

\* The scan counts a first record in the sector of i, having counted none
\* before: only bad cells precede it there.
Opens(f, i) == Valid(f[i]) /\ \A j \in Before(i) : f[j] = Bad

\* Some record of an earlier sector was counted.
Started(f, i) == \E j \in Index : SectorOf(j) < SectorOf(i) /\ Opens(f, j)

\* Bad cells are passed over until a record was counted; afterwards a bad
\* cell ends the scan of its sector, as an empty one always does.
Passed(f, i) ==
    \/ Valid(f[i])
    \/ f[i] = Bad /\ ~Started(f, i) /\ \A j \in Before(i) : f[j] = Bad

Counted(f) == {i \in Index : Valid(f[i]) /\ \A j \in Before(i) : Passed(f, j)}

\* (mutant) the scan takes the number of records for the last index
ScanCountLast(f) ==
    [initialized |-> TRUE, total_records |-> Cardinality(Counted(f)),
     last_index |-> IF Counted(f) = {} THEN 0 ELSE Cardinality(Counted(f)) % Capacity,
     current |-> 0]

\* The last record in the order of the addresses is taken for the newest.  A
\* tier without records starts at the first empty cell behind bad ones.
Scan(f) ==
    LET counted == Counted(f)
        behind == {i \in Index : /\ f[i] = Empty /\ Before(i) # {}
                                 /\ \A j \in Before(i) : f[j] = Bad}
    IN  [initialized |-> TRUE, total_records |-> Cardinality(counted),
         last_index |-> IF counted = {} THEN 0
                        ELSE CHOOSE i \in counted : \A j \in counted : j <= i,
         current |-> IF counted # {} \/ behind = {} THEN 0
                     ELSE CHOOSE i \in behind : \A j \in behind : i <= j]

Off == [initialized |-> FALSE, total_records |-> 0, last_index |-> 0, current |-> 0]
-----------------------------------------------------------------------------
(* EventLogTier_Write. *)

Full(t) == t.total_records >= Capacity

WriteIndex(t) ==
    IF t.total_records > 0 THEN (t.last_index + 1) % Capacity ELSE t.current

SectorIsEmpty(f, i) ==
    \A j \in Index : SectorOf(j) = SectorOf(i) => f[j] = Empty

\* (mutant) only an empty sector is erased
NeedsEraseEmpty(t, f, i) == i % PerSector = 0 /\ SectorIsEmpty(f, i)

NeedsErase(t, f, i) == i % PerSector = 0 /\ (Full(t) \/ SectorIsEmpty(f, i))

Erased(f, i) == [j \in Index |-> IF SectorOf(j) = SectorOf(i) THEN Empty ELSE f[j]]

Programmed(f, i, r) == [f EXCEPT ![i] = IF @ = Empty THEN r ELSE Bad]

\* (mutant) the count of records runs past the capacity
WrittenUnclipped(t, i) ==
    [t EXCEPT !.last_index = i, !.current = i, !.total_records = @ + 1]

Written(t, i) ==
    [t EXCEPT !.last_index = i, !.current = i,
              !.total_records = IF Full(t) THEN Capacity ELSE @ + 1]
-----------------------------------------------------------------------------
(* A post of the main loop, one step per command to the flash. *)

Idle == [pc |-> "idle", at |-> 0, record |-> 0]

Post ==
    /\ tier.initialized /\ writer.pc = "idle" /\ posted < MaxPosted
    /\ LET i == WriteIndex(tier)
       IN  writer' = [pc |-> IF NeedsErase(tier, flash, i) THEN "erase" ELSE "program",
                      at |-> i, record |-> posted + 1]
    /\ posted' = posted + 1
    /\ UNCHANGED <<flash, tier, acked, restarts, failures>>

Erase ==
    /\ writer.pc = "erase"
    /\ flash' = Erased(flash, writer.at)
    /\ writer' = [writer EXCEPT !.pc = "program"]
    /\ UNCHANGED <<tier, posted, acked, restarts, failures>>

Program ==
    /\ writer.pc = "program"
    /\ flash' = Programmed(flash, writer.at, writer.record)
    /\ writer' = [writer EXCEPT !.pc = "commit"]
    /\ UNCHANGED <<tier, posted, acked, restarts, failures>>

Commit ==
    /\ writer.pc = "commit"
    /\ tier' = Written(tier, writer.at)
    /\ acked' = acked \cup {writer.record}
    /\ writer' = Idle
    /\ UNCHANGED <<flash, posted, restarts, failures>>

Unerased == {j \in Index : SectorOf(j) = SectorOf(writer.at)}

\* What a command that did not complete leaves: it was carried out or not at
\* all, or it left a sector erased in part or a torn cell.
CutShort ==
    CASE writer.pc = "erase" ->
            {flash, Erased(flash, writer.at)} \cup
            (IF Tears THEN {[i \in Index |-> IF i \in S THEN Empty ELSE flash[i]] :
                                S \in SUBSET Unerased} ELSE {})
      [] writer.pc = "program" ->
            {flash} \cup
            (IF Tears THEN {Programmed(flash, writer.at, writer.record),
                            [flash EXCEPT ![writer.at] = Bad]} ELSE {})
      [] writer.pc \in {"idle", "commit"} -> {flash}

\* The driver reports an error: EventLogTier_Write returns false.
Fail ==
    /\ writer.pc \in {"erase", "program"} /\ failures < MaxFailures
    /\ failures' = failures + 1
    /\ flash' \in CutShort
    /\ writer' = Idle
    /\ UNCHANGED <<tier, posted, acked, restarts>>

\* EventLog_LogHostLink from the receive interrupt of a UART, between two
\* commands of the main loop: a whole write at once.
InterruptPost ==
    /\ writer.pc \in InterruptedAt /\ tier.initialized /\ posted < MaxPosted
    /\ LET i == WriteIndex(tier)
           f == IF NeedsErase(tier, flash, i) THEN Erased(flash, i) ELSE flash
       IN  /\ flash' = Programmed(f, i, posted + 1)
           /\ tier' = Written(tier, i)
    /\ posted' = posted + 1 /\ acked' = acked \cup {posted + 1}
    /\ UNCHANGED <<writer, restarts, failures>>

PowerLoss ==
    /\ tier.initialized /\ restarts < MaxRestarts /\ posted <= RestartLimit
    /\ restarts' = restarts + 1
    /\ flash' \in CutShort
    /\ tier' = Off /\ writer' = Idle
    /\ UNCHANGED <<posted, acked, failures>>

EventLogTier_Init ==
    /\ ~tier.initialized
    /\ tier' = Scan(flash)
    /\ UNCHANGED <<flash, writer, posted, acked, restarts, failures>>
-----------------------------------------------------------------------------
Init ==
    /\ flash = [i \in Index |-> Empty]
    /\ tier = Off /\ writer = Idle
    /\ posted = 0 /\ acked = {} /\ restarts = 0 /\ failures = 0

Next == \/ Post \/ Erase \/ Program \/ Commit \/ Fail
        \/ InterruptPost \/ PowerLoss \/ EventLogTier_Init

Spec == Init /\ [][Next]_vars
-----------------------------------------------------------------------------
(* EventLogReader_ReadLogical. *)

\* (mutant) a full log is read from the newest record on
OldestPhysicalNewest(t) == IF Full(t) THEN t.last_index ELSE 0

OldestPhysical(t) == IF Full(t) THEN (t.last_index + 1) % Capacity ELSE 0

Logical(t, n) == (OldestPhysical(t) + n) % Capacity
-----------------------------------------------------------------------------
(* Properties. *)

TypeOK ==
    /\ flash \in [Index -> Cell]
    /\ tier \in [initialized : BOOLEAN, total_records : 0 .. Capacity,
                 last_index : Index, current : Index]
    /\ writer \in [pc : Step, at : Index, record : Nat]
    /\ posted \in Nat /\ acked \subseteq 1 .. posted
    /\ restarts \in Nat /\ failures \in Nat

Stored == {flash[i] : i \in Index}

\* doc, logger of events, line 16: until the log is full for the first time no
\* record is lost.  A record is lost if its post returned true and no cell
\* holds it.
NothingLostBeforeFull == posted <= Capacity => acked \subseteq Stored

\* The same line: once the log is full each new sector costs one sector of old
\* records, so the records of the latest posts are all there.
RecentRecordsKept ==
    \A r \in acked : r > posted - (Capacity - PerSector) => r \in Stored

\* The cells of the tier that are counted already: a record programmed but not
\* committed is left out.
Shown == IF writer.pc = "commit" THEN [flash EXCEPT ![writer.at] = Empty] ELSE flash

\* The records among the cells, in their order.
RecordsOf(cells) ==
    LET upTo[n \in 0 .. Len(cells)] ==
          IF n = 0 THEN <<>>
          ELSE IF Valid(cells[n]) THEN Append(upTo[n - 1], cells[n])
          ELSE upTo[n - 1]
    IN  upTo[Len(cells)]

ReadFrom(f, t) == RecordsOf([n \in 1 .. t.total_records |-> f[Logical(t, n - 1)]])

\* The records a reader gets, the oldest first.  Without power it is what the
\* next start will find.
Readable == ReadFrom(Shown, IF tier.initialized THEN tier ELSE Scan(flash))

Kept == INSTANCE RecentLog WITH Records <- 1 .. MaxPosted, Reclaimed <- PerSector,
                               kept <- Readable

\* The store implements the promised log.
KeepsRecentLog == Kept!Spec
=============================================================================
