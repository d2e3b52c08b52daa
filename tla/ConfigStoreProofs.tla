------------------------- MODULE ConfigStoreProofs -------------------------
(***************************************************************************)
(* What holds of the stored configuration for any number of sectors, any   *)
(* contents and any default configuration.                                 *)
(*                                                                         *)
(* That a completed save is in the flash needs to know where a save under  *)
(* way stands: which sectors hold the new content already, which still the *)
(* old one, and which nothing (Progress).  That the copy in RAM is what the *)
(* flash holds needs the same, for the save that cannot read it back.      *)
(***************************************************************************)
EXTENDS ConfigStore, TLAPS

\* A sector is clean exactly if it need not be written.
Clean(s) == config[s] = saved[s]

Behind(s) == \A t \in Sectors : t < s => flash.sector[t] = config[t]

\* What is to come still holds the old content, or nothing when everything was
\* erased at once.
Ahead(s) ==
    \A t \in Sectors : t > s => flash.sector[t] = IF Full THEN Erased ELSE saved[t]

AtErase ==
    /\ flash.header
    /\ Full => op.s = 0
    /\ Behind(op.s)
    /\ \A t \in Sectors : t >= op.s => flash.sector[t] = saved[t]

AtHeader ==
    /\ op.s = 0 /\ ~Clean(0)
    /\ flash.sector[0] = Erased
    /\ Ahead(0)

AtWrite ==
    /\ flash.header
    /\ ~Clean(op.s)
    /\ Behind(op.s)
    /\ flash.sector[op.s] = Erased
    /\ Ahead(op.s)

AtEnd == flash.header /\ flash.sector = config

\* How far a save stands that began with a valid header and has not failed.
Progress ==
    mode = "saving" =>
        /\ op = NoOp => AtEnd
        /\ op.step = "erase" => AtErase
        /\ op.step = "header" => AtHeader
        /\ op.step = "write" => AtWrite

\* From its first operation on a save takes the promise of the last one back.
Withdrawn == Saving /\ op # NoOp => promise = NoPromise

\* The operation belongs to what is under way.
OpFits ==
    /\ Saving => op \in {NoOp} \cup [step : {"erase", "header", "write"}, s : Sectors]
    /\ Reading => op \in [step : {"read"}, s : Sectors]

\* The parts read so far
ReadSoFar == Reading => \A t \in Sectors : t < op.s => saved[t] = flash.sector[t]

\* Before the image has been read nothing is known of the copy.
LoadedBlind == mode \in {"off", "loading defaults"} => ~known

Inv ==
    /\ TypeOK /\ OpFits
    /\ CopyIsFlash /\ ReadSoFar
    /\ LoadedBlind
    /\ Withdrawn
    /\ Progress
    /\ SaveIsKept
-----------------------------------------------------------------------------
(* Typing *)

\* A loop over the sectors stays within them and ends (FlashWriteData,
\* ReadSavedConfig).
LEMMA NextSectorType ==
    ASSUME NEW step \in {"erase", "write", "read"}, NEW s \in Sectors
    PROVE  NextSector(step, s) \in {NoOp} \cup [step : {step}, s : Sectors]
BY ContentAssumption DEF ContentAssumption, NextSector, Sectors

\* The next operation of a save is one of the kinds there are (FlashWriteData).
LEMMA NextOpType ==
    ASSUME op \in [step : {"erase", "header", "write"}, s : Sectors]
    PROVE  NextOp \in {NoOp} \cup [step : {"erase", "header", "write"}, s : Sectors]
<1>1. op.step \in {"erase", "header", "write"} /\ op.s \in Sectors
  OBVIOUS
<1>2. 0 \in Sectors
  BY ContentAssumption DEF ContentAssumption, Sectors
<1>3. NextSector("erase", op.s) \in {NoOp} \cup [step : {"erase", "header", "write"}, s : Sectors]
      /\ NextSector("write", op.s) \in {NoOp} \cup [step : {"erase", "header", "write"}, s : Sectors]
  BY <1>1, NextSectorType
<1>4. CASE op.step = "erase"
  BY <1>1, <1>2, <1>3, <1>4 DEF NextOp, NextOfFull, NextOfSectors
<1>5. CASE op.step = "header"
  BY <1>1, <1>2, <1>5 DEF NextOp, NextOfFull, NextOfSectors
<1>6. CASE op.step = "write"
  BY <1>1, <1>3, <1>6 DEF NextOp, NextOfFull, NextOfSectors
<1> QED
  BY <1>1, <1>4, <1>5, <1>6

\* An operation leaves a flash of the same shape (SPIF_EraseSector, SPIF_WriteAddress).
LEMMA OperatedType ==
    ASSUME TypeOK, op \in [step : {"erase", "header", "write"}, s : Sectors]
    PROVE  Operated \in [header : BOOLEAN, sector : Image]
<1>1. op.step \in {"erase", "header", "write"} /\ op.s \in Sectors
  OBVIOUS
<1>2. flash.header \in BOOLEAN /\ flash.sector \in Image /\ config \in Image
  BY DEF TypeOK
<1>3. flash \in [header : BOOLEAN, sector : Image]
  BY DEF TypeOK
<1>4. CASE op.step = "erase"
  BY <1>2, <1>4 DEF Operated, Image, Content
<1>5. CASE op.step = "header"
  BY <1>3, <1>5 DEF Operated
<1>6. CASE op.step = "write"
  <2>1. [s \in Sectors |->
            IF s \notin Target \/ flash.sector[s] = config[s] THEN flash.sector[s]
            ELSE IF flash.sector[s] = Erased THEN config[s] ELSE Garbled] \in Image
    BY <1>2 DEF Image, Content
  <2> QED
    BY <1>3, <1>6, <2>1 DEF Operated
<1> QED
  BY <1>1, <1>4, <1>5, <1>6

LEMMA TypeInit == Init => TypeOK /\ OpFits
<1> SUFFICES ASSUME Init PROVE TypeOK /\ OpFits
  OBVIOUS
<1>1. NoConfig \in Image
  BY ContentAssumption DEF ContentAssumption, NoConfig, Image, Content
<1>2. flash \in [header : BOOLEAN, sector : Image]
  <2>1. [s \in Sectors |-> Erased] \in Image
    BY DEF Image, Content
  <2>2. Defaults \in Image
    BY ContentAssumption DEF ContentAssumption, Image, Content
  <2>3. CASE flash = [header |-> FALSE, sector |-> [s \in Sectors |-> Erased]]
    BY <2>1, <2>3
  <2>4. CASE flash = [header |-> TRUE, sector |-> Defaults]
    BY <2>2, <2>4
  <2> QED
    BY <2>3, <2>4 DEF Init
<1> QED
  BY <1>1, <1>2 DEF Init, TypeOK, OpFits, Saving, Reading

LEMMA TypeNext == TypeOK /\ OpFits /\ [Next]_vars => TypeOK' /\ OpFits'
<1> SUFFICES ASSUME TypeOK, OpFits, [Next]_vars PROVE TypeOK' /\ OpFits'
  OBVIOUS
<1>0. Values \subseteq Content /\ 0 \in Sectors
  BY ContentAssumption DEF ContentAssumption, Content, Sectors
<1> USE DEF TypeOK
<1>1. ASSUME NEW f \in BOOLEAN, BootFromFlash(f) PROVE TypeOK' /\ OpFits'
  BY <1>0, <1>1 DEF BootFromFlash, FirstChunk, OpFits, Saving, Reading
<1>2. ASSUME NEW f \in BOOLEAN, BootWithDefaults(f) PROVE TypeOK' /\ OpFits'
  <2>1. Defaults \in Image
    BY <1>0, ContentAssumption DEF ContentAssumption, Image
  <2> QED
    BY <1>2, <2>1 DEF BootWithDefaults, OpFits, Saving, Reading
<1>3. CASE ReadChunk
  <2>1. op \in [step : {"read"}, s : Sectors]
    BY <1>3 DEF ReadChunk, OpFits
  <2>2. op' \in {NoOp} \cup [step : {"read"}, s : Sectors]
    BY <1>3, <2>1, NextSectorType DEF ReadChunk
  <2>3. saved' \in Image
    BY <1>3, <2>1 DEF ReadChunk, Image
  <2>4. CASE op' = NoOp
    BY <1>3, <2>3, <2>4 DEF ReadChunk, OpFits, Saving, Reading
  <2>5. CASE op' # NoOp
    BY <1>3, <2>2, <2>3, <2>5 DEF ReadChunk, OpFits, Saving, Reading
  <2> QED
    BY <2>4, <2>5
<1>4. ASSUME NEW s \in Sectors, NEW v \in Values, Edit(s, v) PROVE TypeOK' /\ OpFits'
  BY <1>0, <1>4 DEF Edit, Image, OpFits, Saving, Reading
<1>5. CASE BeginSave
  BY <1>0, <1>5 DEF BeginSave, OpFits, Saving, Reading
<1>6. CASE Operate
  <2>1. op \in [step : {"erase", "header", "write"}, s : Sectors]
    BY <1>6 DEF Operate, OpFits
  <2>2. flash' \in [header : BOOLEAN, sector : Image]
    BY <1>6, <2>1, OperatedType DEF Operate
  <2>3. op' \in {NoOp} \cup [step : {"erase", "header", "write"}, s : Sectors]
    BY <1>6, <2>1, NextOpType DEF Operate
  <2> QED
    BY <1>6, <2>2, <2>3 DEF Operate, OpFits, Saving, Reading
<1>7. CASE OperationFails
  <2>1. op \in [step : {"erase", "header", "write"}, s : Sectors]
    BY <1>7 DEF OperationFails, OpFits
  <2>2. op' \in {NoOp} \cup [step : {"erase", "header", "write"}, s : Sectors]
    BY <1>7, <2>1, NextOpType DEF OperationFails
  <2> QED
    BY <1>7, <2>2 DEF OperationFails, OpFits, Saving, Reading
<1>8. ASSUME NEW f \in BOOLEAN, EndSave(f) PROVE TypeOK' /\ OpFits'
  <2>1. promise' \in {NoPromise} \cup [made : {TRUE}, blind : BOOLEAN, config : Image]
    BY <1>8 DEF EndSave, Promised
  <2>2. CASE mode' = "reading back" /\ op' = FirstChunk /\ UNCHANGED <<saved, known>>
    BY <1>0, <1>8, <2>1, <2>2 DEF EndSave, FirstChunk, OpFits, Saving, Reading
  <2>3. CASE mode' = "running" /\ op' = op /\ saved' = config /\ known' = (mode = "saving")
    <3>1. known' \in BOOLEAN
      BY <2>3
    <3> QED
      BY <1>8, <2>1, <2>3, <3>1 DEF EndSave, OpFits, Saving, Reading
  <2> QED
    BY <1>8, <2>2, <2>3 DEF EndSave
<1>9. CASE PowerFails
  BY <1>9, ContentAssumption
     DEF ContentAssumption, PowerFails, NoConfig, Image, Content, OpFits, Saving, Reading
<1>10. CASE UNCHANGED vars
  BY <1>10 DEF vars, OpFits, Saving, Reading
<1> QED
  BY <1>1, <1>2, <1>3, <1>4, <1>5, <1>6, <1>7, <1>8, <1>9, <1>10 DEF Next, ReadChunkFails

LEMMA Typing == Spec => [](TypeOK /\ OpFits)
BY TypeInit, TypeNext, PTL DEF Spec

\* The types of the variables hold in every reachable state, whatever fails.
THEOREM TypeCorrectness == Spec => []TypeOK
BY Typing, PTL
-----------------------------------------------------------------------------
(* Sectors without a change *)

\* The sectors an operation is about are all to be rewritten (FlashWriteData).
LEMMA TargetIsDirty == Target \subseteq Dirty
BY DEF Target, Full

\* No operation changes the flash of a clean sector.
LEMMA CleanSectorStays ==
    ASSUME TypeOK, OpFits, Operate, NEW s \in Sectors, Clean(s)
    PROVE  flash'.sector[s] = flash.sector[s]
<1>1. s \notin Target
  BY TargetIsDirty DEF Clean, Dirty
<1>2. op.step \in {"erase", "header", "write"}
  BY DEF Operate, OpFits
<1>3. flash \in [header : BOOLEAN, sector : Image] /\ flash' = Operated
  BY DEF Operate, TypeOK
<1>4. CASE op.step = "erase"
  BY <1>1, <1>3, <1>4 DEF Operated
<1>5. CASE op.step = "header"
  BY <1>3, <1>5 DEF Operated
<1>6. CASE op.step = "write"
  <2> DEFINE written ==
        [t \in Sectors |->
            IF t \notin Target \/ flash.sector[t] = config[t] THEN flash.sector[t]
            ELSE IF flash.sector[t] = Erased THEN config[t] ELSE Garbled]
  <2>1. flash'.sector = written
    BY <1>3, <1>6 DEF Operated
  <2> QED
    BY <1>1, <2>1
<1> QED
  BY <1>2, <1>4, <1>5, <1>6

\* A save leaves the sectors alone in which nothing has changed, whatever
\* becomes of it (FlashWriteData).
THEOREM CleanSectorsAreLeftAlone == Spec => CleanSectorsStay
<1> DEFINE Left == \A s \in Sectors : config[s] = saved[s] => flash'.sector[s] = flash.sector[s]
<1>1. TypeOK /\ OpFits /\ [Next]_vars => [Left]_vars
  <2> SUFFICES ASSUME TypeOK, OpFits, Next PROVE Left
    BY DEF vars
  <2>1. CASE Operate
    BY <2>1, CleanSectorStays DEF Clean
  <2>2. CASE UNCHANGED flash
    BY <2>2
  <2> QED
    BY <2>1, <2>2 DEF Next, vars, BootFromFlash, BootWithDefaults, ReadChunk, ReadChunkFails,
                      Edit, BeginSave, OperationFails, EndSave, PowerFails
<1> QED
  BY <1>1, Typing, PTL DEF Spec, CleanSectorsStay
-----------------------------------------------------------------------------
(* The progress of a save *)

LEMMA SectorsAreNumbers == 0 \in Sectors /\ \A s \in Sectors : s \in Nat /\ s <= Last
BY ContentAssumption DEF ContentAssumption, Sectors

\* The operations of a save in which nothing has failed.
LEMMA OperationKind ==
    ASSUME TypeOK, OpFits, Saving, op # NoOp
    PROVE  /\ op.step \in {"erase", "header", "write"} /\ op.s \in Sectors
           /\ flash \in [header : BOOLEAN, sector : Image]
           /\ config \in Image /\ saved \in Image
BY DEF TypeOK, OpFits

\* When the last sector is passed everything is in place; before, the next one
\* is taken up (FlashWriteData).
LEMMA NextSectorIs ==
    ASSUME NEW step \in {"erase", "write", "read"}, NEW s \in Sectors
    PROVE  \/ s = Last /\ NextSector(step, s) = NoOp
           \/ /\ s + 1 \in Sectors
              /\ NextSector(step, s) = [step |-> step, s |-> s + 1]
BY ContentAssumption DEF ContentAssumption, NextSector, Sectors

\* A save that begins finds the old content (SaveConfig).
LEMMA ProgressBegins ==
    ASSUME Inv, BeginSave
    PROVE  Progress'
<1> SUFFICES ASSUME mode' = "saving" PROVE Progress'
  BY DEF Progress
<1>1. flash.header /\ known
  BY DEF BeginSave
<1>1a. saved = flash.sector
  BY <1>1 DEF BeginSave, Inv, CopyIsFlash, LoadedBlind
<1>2. flash' = flash /\ config' = config /\ saved' = saved
  BY DEF BeginSave
<1>3. config \in Image /\ saved \in Image
  BY DEF Inv, TypeOK
<1>4. CASE Dirty = {}
  <2>1. config = saved
    BY <1>3, <1>4 DEF Dirty, Image
  <2>2. op' = NoOp
    BY <1>4 DEF BeginSave
  <2> QED
    BY <1>1, <1>1a, <1>2, <2>1, <2>2 DEF Progress, AtEnd, NoOp
<1>5. CASE Dirty # {}
  <2>1. op' = [step |-> "erase", s |-> 0]
    BY <1>5 DEF BeginSave
  <2>2. AtErase'
    BY <1>1, <1>1a, <1>2, <2>1, SectorsAreNumbers DEF AtErase, Behind
  <2> QED
    BY <2>1, <2>2 DEF Progress, NoOp
<1> QED
  BY <1>4, <1>5

\* What an erase leaves (SPIF_EraseBlock, SPIF_EraseSector).
LEMMA AfterErase ==
    ASSUME TypeOK, Operate, op.step = "erase"
    PROVE  /\ flash'.header = (flash.header /\ 0 \notin Target)
           /\ flash'.sector = [s \in Sectors |-> IF s \in Target THEN Erased ELSE flash.sector[s]]
BY DEF Operate, Operated

\* What a write leaves (SPIF_WriteAddress).
LEMMA AfterWrite ==
    ASSUME TypeOK, Operate, op.step = "write", op.s \in Dirty, flash.sector[op.s] = Erased
    PROVE  /\ flash'.header = flash.header
           /\ flash'.sector =
                [s \in Sectors |-> IF s = op.s THEN config[s] ELSE flash.sector[s]]
<1> DEFINE written ==
      [s \in Sectors |->
          IF s \notin Target \/ flash.sector[s] = config[s] THEN flash.sector[s]
          ELSE IF flash.sector[s] = Erased THEN config[s] ELSE Garbled]
<1>1. flash' = [flash EXCEPT !.sector = written] /\ flash \in [header : BOOLEAN, sector : Image]
  BY DEF Operate, Operated, TypeOK
<1>2. Target = {op.s}
  BY DEF Target
<1>3. \A s \in Sectors : written[s] = IF s = op.s THEN config[s] ELSE flash.sector[s]
  BY <1>2
<1>4. written = [s \in Sectors |-> IF s = op.s THEN config[s] ELSE flash.sector[s]]
  BY <1>3
<1> QED
  BY <1>1, <1>4

\* An operation that does not fail keeps the progress (FlashWriteData).
LEMMA ProgressGoesOn ==
    ASSUME Inv, Operate
    PROVE  Progress'
<1> SUFFICES ASSUME mode = "saving" PROVE Progress'
  BY DEF Progress, Operate
<1>1. TypeOK /\ OpFits /\ Saving /\ Progress /\ op # NoOp
  BY DEF Inv, Operate
<1>2. /\ op.step \in {"erase", "header", "write"} /\ op.s \in Sectors
      /\ flash \in [header : BOOLEAN, sector : Image]
      /\ config \in Image /\ saved \in Image
  BY <1>1, OperationKind
<1>3. op' = NextOp /\ config' = config /\ saved' = saved /\ mode' = mode
  BY DEF Operate
<1>4. Full' = Full /\ \A s : Clean(s)' <=> Clean(s)
  BY <1>3 DEF Full, Dirty, Clean
<1>5. \A s \in Sectors : s \in Dirty <=> ~Clean(s)
  BY DEF Dirty, Clean
<1>6. Full => \A s \in Sectors : ~Clean(s)
  BY <1>5 DEF Full
<1>7. NoOp.step = "none"
  BY DEF NoOp
<1>8. CASE op.step = "erase"
  <2>1. AtErase
    BY <1>1, <1>8 DEF Progress
  <2>2. CASE Full
    <3>1. op' = [step |-> "header", s |-> 0]
      BY <1>3, <1>8, <2>2 DEF NextOp, NextOfFull
    <3>2. Target = Sectors
      BY <1>8, <2>2 DEF Target
    <3>3. AtHeader'
      BY <1>1, <1>4, <1>6, <1>8, <2>2, <3>1, <3>2, AfterErase, SectorsAreNumbers
         DEF AtHeader, Ahead
    <3> QED
      BY <1>7, <3>1, <3>3 DEF Progress
  <2>3. CASE ~Full /\ op.s \notin Dirty
    <3>1. op' = NextSector("erase", op.s)
      BY <1>3, <1>8, <2>3 DEF NextOp, NextOfSectors
    <3>2. Target = {}
      BY <2>3 DEF Target
    <3>3. flash'.header /\ \A s \in Sectors : flash'.sector[s] = flash.sector[s]
      BY <1>1, <1>2, <1>8, <2>1, <3>2, AfterErase DEF AtErase
    <3>4. flash.sector[op.s] = config[op.s]
      BY <1>2, <1>5, <2>1, <2>3, SectorsAreNumbers DEF AtErase, Clean
    <3>5. CASE op.s = Last /\ op' = NoOp
      <4>1. \A s \in Sectors : flash'.sector[s] = config[s]
        BY <1>2, <2>1, <3>3, <3>4, <3>5, SectorsAreNumbers DEF AtErase, Behind
      <4>2. flash'.sector \in [Sectors -> Content]
        BY <1>1, TypeNext DEF Next, TypeOK, Image
      <4>3. flash'.sector = config
        BY <1>2, <4>1, <4>2 DEF Image
      <4> QED
        BY <1>3, <1>7, <3>3, <3>5, <4>3 DEF Progress, AtEnd
    <3>6. CASE op.s + 1 \in Sectors /\ op' = [step |-> "erase", s |-> op.s + 1]
      <4>1. AtErase'
        BY <1>2, <1>3, <1>4, <2>1, <2>3, <3>3, <3>4, <3>6, SectorsAreNumbers DEF AtErase, Behind
      <4> QED
        BY <1>7, <3>6, <4>1 DEF Progress
    <3> QED
      BY <1>2, <3>1, <3>5, <3>6, NextSectorIs
  <2>4. CASE ~Full /\ op.s \in Dirty
    <3>1. op' = [step |-> IF op.s = 0 THEN "header" ELSE "write", s |-> op.s]
      BY <1>3, <1>8, <2>4 DEF NextOp, NextOfSectors
    <3>2. Target = {op.s}
      BY <2>4 DEF Target
    <3>3. /\ flash'.sector[op.s] = Erased
          /\ \A s \in Sectors : s # op.s => flash'.sector[s] = flash.sector[s]
          /\ op.s # 0 => flash'.header
      BY <1>1, <1>2, <1>8, <2>1, <3>2, AfterErase DEF AtErase
    <3>4. CASE op.s = 0
      <4>1. AtHeader'
        BY <1>2, <1>3, <1>4, <1>5, <2>1, <2>4, <3>1, <3>3, <3>4, SectorsAreNumbers
           DEF AtHeader, AtErase, Ahead
      <4> QED
        BY <1>7, <3>1, <3>4, <4>1 DEF Progress
    <3>5. CASE op.s # 0
      <4>1. AtWrite'
        BY <1>2, <1>3, <1>4, <1>5, <2>1, <2>4, <3>1, <3>3, <3>5, SectorsAreNumbers
           DEF AtWrite, AtErase, Behind, Ahead
      <4> QED
        BY <1>7, <3>1, <3>5, <4>1 DEF Progress
    <3> QED
      BY <3>4, <3>5
  <2> QED
    BY <2>2, <2>3, <2>4
<1>9. CASE op.step = "header"
  <2>1. AtHeader
    BY <1>1, <1>9 DEF Progress
  <2>2. op' = [step |-> "write", s |-> 0]
    BY <1>3, <1>9, <2>1 DEF NextOp, NextOfFull, NextOfSectors, AtHeader
  <2>3. flash'.header /\ flash'.sector = flash.sector
    BY <1>2, <1>9 DEF Operate, Operated
  <2>4. AtWrite'
    BY <1>2, <1>3, <1>4, <2>1, <2>2, <2>3, SectorsAreNumbers
       DEF AtHeader, AtWrite, Behind, Ahead
  <2> QED
    BY <1>7, <2>2, <2>4 DEF Progress
<1>10. CASE op.step = "write"
  <2>1. AtWrite
    BY <1>1, <1>10 DEF Progress
  <2>2. /\ flash'.header
        /\ flash'.sector[op.s] = config[op.s]
        /\ \A s \in Sectors : s # op.s => flash'.sector[s] = flash.sector[s]
    <3>1. op.s \in Dirty /\ flash.sector[op.s] = Erased /\ flash.header
      BY <1>2, <1>5, <2>1 DEF AtWrite
    <3>2. /\ flash'.header = flash.header
          /\ flash'.sector =
               [s \in Sectors |-> IF s = op.s THEN config[s] ELSE flash.sector[s]]
      BY <1>1, <1>10, <3>1, AfterWrite
    <3> QED
      BY <1>2, <3>1, <3>2
  <2>3. op' = NextSector(IF Full THEN "write" ELSE "erase", op.s)
    BY <1>3, <1>10 DEF NextOp, NextOfFull, NextOfSectors
  <2>4. CASE op.s = Last /\ op' = NoOp
    <3>1. \A s \in Sectors : flash'.sector[s] = config[s]
      BY <1>2, <2>1, <2>2, <2>4, SectorsAreNumbers DEF AtWrite, Behind
    <3>2. flash'.sector \in [Sectors -> Content]
      BY <1>1, TypeNext DEF Next, TypeOK, Image
    <3>3. flash'.sector = config
      BY <1>2, <3>1, <3>2 DEF Image
    <3> QED
      BY <1>3, <1>7, <2>2, <2>4, <3>3 DEF Progress, AtEnd
  <2>5. CASE Full /\ op.s + 1 \in Sectors /\ op' = [step |-> "write", s |-> op.s + 1]
    <3>1. AtWrite'
      BY <1>2, <1>3, <1>4, <1>6, <2>1, <2>2, <2>5, SectorsAreNumbers DEF AtWrite, Behind, Ahead
    <3> QED
      BY <1>7, <2>5, <3>1 DEF Progress
  <2>6. CASE ~Full /\ op.s + 1 \in Sectors /\ op' = [step |-> "erase", s |-> op.s + 1]
    <3>1. AtErase'
      BY <1>2, <1>3, <1>4, <2>1, <2>2, <2>6, SectorsAreNumbers
         DEF AtWrite, AtErase, Behind, Ahead
    <3> QED
      BY <1>7, <2>6, <3>1 DEF Progress
  <2> QED
    BY <1>2, <2>3, <2>4, <2>5, <2>6, NextSectorIs
<1> QED
  BY <1>2, <1>8, <1>9, <1>10
-----------------------------------------------------------------------------
(* The copy in RAM *)

\* A part read from the flash is in the copy, and with the last one all are
\* (ReadSavedConfig).
LEMMA CopyGrows ==
    ASSUME Inv, ReadChunk
    PROVE  /\ ReadSoFar'
           /\ CopyIsFlash'
<1>1. /\ op.step = "read" /\ op.s \in Sectors
      /\ saved \in Image /\ flash.sector \in Image
      /\ \A t \in Sectors : t < op.s => saved[t] = flash.sector[t]
  BY DEF Inv, TypeOK, OpFits, ReadSoFar, ReadChunk
<1>2. /\ flash' = flash
      /\ saved' = [saved EXCEPT ![op.s] = flash.sector[op.s]]
      /\ op' = NextSector("read", op.s)
  BY DEF ReadChunk
<1>3. \A t \in Sectors : t <= op.s => saved'[t] = flash.sector[t]
  BY <1>1, <1>2, SectorsAreNumbers DEF Image
<1>4. CASE op.s = Last /\ op' = NoOp
  <2>1. saved' = flash.sector
    BY <1>1, <1>2, <1>3, <1>4, SectorsAreNumbers DEF Image
  <2>2. mode' = "running"
    BY <1>4 DEF ReadChunk
  <2> QED
    BY <1>2, <2>1, <2>2 DEF ReadSoFar, Reading, CopyIsFlash
<1>5. CASE op.s + 1 \in Sectors /\ op' = [step |-> "read", s |-> op.s + 1]
  <2>1. ReadSoFar'
    BY <1>1, <1>2, <1>3, <1>5, SectorsAreNumbers DEF ReadSoFar
  <2>2. op' # NoOp
    BY <1>5 DEF NoOp
  <2>3. mode' # "running"
    BY <2>2 DEF ReadChunk, Reading
  <2> QED
    BY <2>1, <2>3 DEF CopyIsFlash
<1> QED
  BY <1>1, <1>2, <1>4, <1>5, NextSectorIs

\* A save that cannot read back what it wrote knows it only if nothing failed
\* (SaveConfig).
LEMMA CopyAtEnd ==
    ASSUME Inv, NEW f \in BOOLEAN, EndSave(f)
    PROVE  /\ ReadSoFar'
           /\ CopyIsFlash'
<1>1. flash' = flash /\ op = NoOp
  BY DEF EndSave
<1>2. CASE mode' = "reading back" /\ op' = FirstChunk
  <2>1. op'.s = 0
    BY <1>2 DEF FirstChunk
  <2>2. ReadSoFar'
    BY <2>1, SectorsAreNumbers DEF ReadSoFar
  <2>3. mode' # "running"
    BY <1>2
  <2> QED
    BY <2>2, <2>3 DEF CopyIsFlash
<1>3. CASE mode' = "running" /\ known' = (mode = "saving") /\ saved' = config
  <2>1. mode = "saving" => flash.sector = config
    BY <1>1 DEF Inv, Progress, AtEnd
  <2>2. known' => mode = "saving"
    BY <1>3
  <2> QED
    BY <1>1, <1>3, <2>1, <2>2 DEF ReadSoFar, Reading, CopyIsFlash
<1> QED
  BY <1>2, <1>3 DEF EndSave
-----------------------------------------------------------------------------
(* A completed save stays *)

LEMMA InvInit == Init => Inv
<1> SUFFICES ASSUME Init PROVE Inv
  OBVIOUS
<1>1. TypeOK /\ OpFits
  BY TypeInit
<1>2. mode = "off" /\ op = NoOp /\ promise = NoPromise /\ known = FALSE
  BY DEF Init
<1> QED
  BY <1>1, <1>2 DEF Inv, CopyIsFlash, ReadSoFar, LoadedBlind, Withdrawn, Progress, SaveIsKept,
                    NoPromise, Saving, Reading

\* Starting, editing and a power failure do not disturb what was saved (AppInit).
LEMMA InvOutsideSaves ==
    ASSUME Inv, TypeOK', OpFits',
           \/ \E f \in BOOLEAN : BootFromFlash(f) \/ BootWithDefaults(f)
           \/ PowerFails
           \/ \E s \in Sectors, v \in Values : Edit(s, v)
    PROVE  Inv'
<1>1. /\ flash' = flash /\ promise' = promise
      /\ \/ mode' = "loading" /\ op' = FirstChunk
         \/ mode = "off" /\ mode' = "loading defaults" /\ known' = known
         \/ mode' = "off" /\ known' = FALSE
         \/ mode = "running" /\ mode' = "running" /\ known' = known /\ saved' = saved
  BY DEF BootFromFlash, BootWithDefaults, PowerFails, Edit
<1>2. LoadedBlind'
  BY <1>1 DEF Inv, LoadedBlind
<1>3. Withdrawn' /\ Progress'
  BY <1>1 DEF Withdrawn, Saving, Progress
<1>4. SaveIsKept'
  BY <1>1 DEF Inv, SaveIsKept, Stored
<1>5. CopyIsFlash'
  BY <1>1 DEF Inv, CopyIsFlash
<1>6. ReadSoFar'
  <2>1. CASE mode' = "loading" /\ op' = FirstChunk
    <3>1. op'.s = 0
      BY <2>1 DEF FirstChunk
    <3> QED
      BY <3>1, SectorsAreNumbers DEF ReadSoFar
  <2> QED
    BY <1>1, <2>1 DEF ReadSoFar, Reading
<1> QED
  BY <1>2, <1>3, <1>4, <1>5, <1>6 DEF Inv

\* Reading the image disturbs nothing either (ReadSavedConfig).
LEMMA InvReadChunk ==
    ASSUME Inv, TypeOK', OpFits', ReadChunk
    PROVE  Inv'
<1>1. mode' \in {"loading", "reading back", "running"} /\ flash' = flash /\ promise' = promise
  BY DEF ReadChunk, Reading
<1>2. LoadedBlind' /\ Withdrawn' /\ Progress'
  BY <1>1 DEF LoadedBlind, Withdrawn, Saving, Progress
<1>3. SaveIsKept'
  BY <1>1 DEF Inv, SaveIsKept, Stored
<1> QED
  BY <1>2, <1>3, CopyGrows DEF Inv

\* A save that changes something takes the promise of the last one back (SaveConfig).
LEMMA InvBeginSave ==
    ASSUME Inv, TypeOK', OpFits', BeginSave
    PROVE  Inv'
<1>1. mode' \in {"saving", "saving blind"} /\ flash' = flash
  BY DEF BeginSave
<1>2. LoadedBlind' /\ CopyIsFlash' /\ ReadSoFar'
  BY <1>1 DEF LoadedBlind, CopyIsFlash, ReadSoFar, Reading
<1>3. Withdrawn'
  BY DEF BeginSave, Withdrawn
<1>4. Progress'
  BY ProgressBegins
<1>5. SaveIsKept'
  <2>1. CASE Dirty = {}
    BY <1>1, <2>1 DEF BeginSave, Inv, SaveIsKept, Stored
  <2>2. CASE Dirty # {}
    BY <2>2 DEF BeginSave, SaveIsKept, NoPromise
  <2> QED
    BY <2>1, <2>2
<1> QED
  BY <1>2, <1>3, <1>4, <1>5 DEF Inv

\* While a save is under way nothing is promised (FlashWriteData).
LEMMA InvOperation ==
    ASSUME Inv, TypeOK', OpFits', Operate \/ OperationFails
    PROVE  Inv'
<1>1. /\ mode' \in {"saving", "saving blind", "failing"}
      /\ promise' = promise /\ promise = NoPromise
  BY DEF Operate, OperationFails, Saving, Inv, Withdrawn
<1>2. /\ LoadedBlind' /\ CopyIsFlash' /\ ReadSoFar'
      /\ Withdrawn' /\ SaveIsKept'
  BY <1>1 DEF LoadedBlind, CopyIsFlash, ReadSoFar, Reading, Withdrawn, SaveIsKept, NoPromise
<1>3. Progress'
  <2>1. CASE Operate
    BY <2>1, ProgressGoesOn
  <2>2. CASE OperationFails
    BY <2>2 DEF OperationFails, Progress
  <2> QED
    BY <2>1, <2>2
<1> QED
  BY <1>2, <1>3 DEF Inv

\* At its end a save is in the flash as it was asked for (SaveConfig).
LEMMA InvEndSave ==
    ASSUME Inv, TypeOK', OpFits', NEW f \in BOOLEAN, EndSave(f)
    PROVE  Inv'
<1>1. /\ mode' \in {"running", "reading back"}
      /\ op = NoOp /\ flash' = flash /\ promise' = Promised
  BY DEF EndSave
<1>2. LoadedBlind' /\ Withdrawn' /\ Progress'
  BY <1>1 DEF LoadedBlind, Withdrawn, Saving, Progress
<1>3. SaveIsKept'
  <2>1. CASE mode = "failing"
    BY <1>1, <2>1 DEF Promised, Inv, SaveIsKept, Stored
  <2>2. CASE mode = "saving blind"
    BY <1>1, <2>2 DEF Promised, SaveIsKept
  <2>3. CASE mode = "saving"
    <3>1. flash.header /\ flash.sector = config
      BY <1>1, <2>3 DEF Inv, Progress, AtEnd
    <3>2. promise'.config = config
      BY <1>1, <2>3 DEF Promised
    <3> QED
      BY <1>1, <3>1, <3>2 DEF SaveIsKept, Stored
  <2> QED
    BY <2>1, <2>2, <2>3 DEF EndSave, Saving
<1> QED
  BY <1>2, <1>3, CopyAtEnd DEF Inv

LEMMA InvNext == Inv /\ TypeOK' /\ OpFits' /\ [Next]_vars => Inv'
<1> SUFFICES ASSUME Inv, TypeOK', OpFits', [Next]_vars PROVE Inv'
  OBVIOUS
<1>1. CASE (\E f \in BOOLEAN : BootFromFlash(f) \/ BootWithDefaults(f)) \/ PowerFails
  BY <1>1, InvOutsideSaves
<1>2. CASE \E s \in Sectors, v \in Values : Edit(s, v)
  BY <1>2, InvOutsideSaves
<1>3. CASE BeginSave
  BY <1>3, InvBeginSave
<1>4. CASE Operate \/ OperationFails
  BY <1>4, InvOperation
<1>5. CASE \E f \in BOOLEAN : EndSave(f)
  BY <1>5, InvEndSave
<1>6. CASE ReadChunk
  BY <1>6, InvReadChunk
<1>7. CASE UNCHANGED vars
  <2>1. CopyIsFlash' /\ ReadSoFar' /\ LoadedBlind' /\ Withdrawn' /\ SaveIsKept'
    BY <1>7 DEF vars, Inv, CopyIsFlash, ReadSoFar, LoadedBlind, Withdrawn, Saving, Reading,
                SaveIsKept, Stored
  <2>2. Progress'
    BY <1>7, ZenonT(40) DEF vars, Inv, Progress, AtEnd, AtErase, AtHeader, AtWrite, Behind,
                            Ahead, Full, Dirty, Clean
  <2> QED
    BY <2>1, <2>2 DEF Inv
<1> QED
  BY <1>1, <1>2, <1>3, <1>4, <1>5, <1>6, <1>7 DEF Next, ReadChunkFails

LEMMA Invariance == Spec => []Inv
BY InvInit, InvNext, Typing, PTL DEF Spec

\* While the panel runs, SavedPPKYConfig is what the flash holds, after failed
\* and interrupted saves too, unless a header could not be read either (SaveConfig,
\* AppInit).
THEOREM CopyIsFlashAlways == Spec => []CopyIsFlash
<1>1. Inv => CopyIsFlash
  BY DEF Inv
<1> QED
  BY <1>1, Invariance, PTL

\* A save without a failed operation, begun with a valid header and a copy that
\* is what the flash holds, is in the flash and stays there through restarts and
\* saves that change nothing, for any number of sectors (SaveConfig,
\* FlashWriteData, AppInit).
THEOREM CompletedSavesAreKept == Spec => []SaveIsKept
<1>1. Inv => SaveIsKept
  BY DEF Inv
<1> QED
  BY <1>1, Invariance, PTL
=============================================================================
