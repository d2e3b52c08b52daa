---------------------------- MODULE ConfigStore ----------------------------
(***************************************************************************)
(* The configuration of the panel in the SPI flash (config.cpp, and the    *)
(* start of app.cpp): a header and the image of PPKYCfg behind it, spread  *)
(* over several sectors.  SaveConfig rewrites only the sectors in which    *)
(* PPKYConfig differs from SavedPPKYConfig, the copy in RAM of what the    *)
(* flash holds.                                                            *)
(*                                                                         *)
(* The power may fail between any two operations on the flash, and each of *)
(* them may fail: the code does not look at what they return, except where *)
(* it reads the image.  A header that could not be read is whatever was on *)
(* the stack.  The content of a sector is one value; the migration of      *)
(* zone_fire_mode within a loaded image is not told apart.                 *)
(***************************************************************************)
EXTENDS Integers

CONSTANTS
    Last,           \* the last sector in use; sector 0 also holds the header
    Values,         \* contents of a sector of a configuration
    Zero,           \* the content of a variable nobody has set
    Defaults        \* DefaultConfig

Sectors == 0 .. Last

ASSUME ContentAssumption ==
    /\ Last \in Nat
    /\ Zero \in Values
    /\ Defaults \in [Sectors -> Values]

VARIABLES
    flash,          \* the header's validity and the sectors
    config,         \* PPKYConfig
    saved,          \* SavedPPKYConfig
    op,             \* the next operation on the flash
    mode,           \* off, running, or what the operation belongs to
    known,          \* (ghost) SavedPPKYConfig is known to be what the flash holds
    promise         \* (ghost) what the last completed save is taken to have stored

vars == <<flash, config, saved, op, mode, known, promise>>

Erased == "erased"          \* after an erase that was not followed by a write
Garbled == "garbled"        \* written without having been erased
Content == Values \cup {Erased, Garbled}
Image == [Sectors -> Content]

NoConfig == [s \in Sectors |-> Zero]
NoPromise == [made |-> FALSE]
NoOp == [step |-> "none", s |-> 0]

Saving == mode \in {"saving", "saving blind", "failing"}

\* ReadSavedConfig, in AppInit and at the end of SaveConfig
Reading == mode \in {"loading", "reading back"}

TypeOK ==
    /\ flash \in [header : BOOLEAN, sector : Image]
    /\ config \in Image /\ saved \in Image
    /\ op \in {NoOp} \cup [step : {"erase", "header", "write", "read"}, s : Sectors]
    /\ mode \in {"off", "loading", "loading defaults", "running",
                 "saving", "saving blind", "failing", "reading back"}
    /\ known \in BOOLEAN
    /\ promise \in {NoPromise} \cup [made : {TRUE}, blind : BOOLEAN, config : Image]
-----------------------------------------------------------------------------
(* FlashWriteData.  Neither PPKYConfig nor SavedPPKYConfig changes meanwhile. *)

\* (mutant) every sector is rewritten as soon as one differs
DirtyOrNone == IF config = saved THEN {} ELSE Sectors

Dirty == {s \in Sectors : config[s] # saved[s]}

\* With every sector dirty FlashWriteData_Full is called.
Full == Dirty = Sectors

\* (mutant) the loop over the sectors ends one too late
NextSectorTooFar(step, s) == IF s <= Last THEN [step |-> step, s |-> s + 1] ELSE NoOp

NextSector(step, s) == IF s < Last THEN [step |-> step, s |-> s + 1] ELSE NoOp

\* All blocks erased, the header, the image from its first sector to its last.
NextOfFull ==
    CASE op.step = "erase" -> [step |-> "header", s |-> 0]
      [] op.step = "header" -> [step |-> "write", s |-> 0]
      [] op.step = "write" -> NextSector("write", op.s)

\* (mutant) a sector is written without having been erased
NextWithoutErase ==
    IF op.s \notin Dirty \/ op.step = "write" THEN NextSector("write", op.s)
    ELSE [step |-> "write", s |-> op.s]

\* FlashWriteData_Sector for one dirty sector after the other: erase, the header
\* if it belongs here, the part of the image.
NextOfSectors ==
    CASE op.step = "erase" /\ op.s \notin Dirty -> NextSector("erase", op.s)
      [] op.step = "erase" /\ op.s \in Dirty ->
            [step |-> IF op.s = 0 THEN "header" ELSE "write", s |-> op.s]
      [] op.step = "header" -> [step |-> "write", s |-> op.s]
      [] op.step = "write" -> NextSector("erase", op.s)

NextOp == IF Full THEN NextOfFull ELSE NextOfSectors

\* The sectors the operation is about; a clean one is passed over.
Target == IF Full /\ op.step = "erase" THEN Sectors ELSE {op.s} \cap Dirty

\* What the operation makes of the flash.  Writing clears bits only.
Operated ==
    CASE op.step = "erase" ->
            [header |-> flash.header /\ 0 \notin Target,
             sector |-> [s \in Sectors |-> IF s \in Target THEN Erased ELSE flash.sector[s]]]
      [] op.step = "header" -> [flash EXCEPT !.header = TRUE]
      [] op.step = "write" ->
            [flash EXCEPT !.sector = [s \in Sectors |->
                IF s \notin Target \/ flash.sector[s] = config[s] THEN flash.sector[s]
                ELSE IF flash.sector[s] = Erased THEN config[s] ELSE Garbled]]
-----------------------------------------------------------------------------
\* The flash is new, or holds a configuration.
Init ==
    /\ flash \in {[header |-> FALSE, sector |-> [s \in Sectors |-> Erased]],
                  [header |-> TRUE, sector |-> Defaults]}
    /\ config = NoConfig /\ saved = NoConfig
    /\ op = NoOp
    /\ mode = "off" /\ known = FALSE
    /\ promise = NoPromise

\* The header is read and looks valid, or not.  If the read fails hdr keeps
\* what was on the stack, which may look like anything.
HeaderLooks(valid, read_fails) == read_fails \/ valid = flash.header

FirstChunk == [step |-> "read", s |-> 0]

\* AppInit finds a valid header: ReadSavedConfig begins.
BootFromFlash(read_fails) ==
    /\ mode = "off" /\ HeaderLooks(TRUE, read_fails)
    /\ mode' = "loading" /\ op' = FirstChunk
    /\ UNCHANGED <<flash, config, saved, known, promise>>

\* AppInit finds none: it takes the default configuration, and saves it next.
\* SavedPPKYConfig is still what the C start-up code made it.
BootWithDefaults(read_fails) ==
    /\ mode = "off" /\ HeaderLooks(FALSE, read_fails)
    /\ config' = Defaults
    /\ mode' = "loading defaults"
    /\ UNCHANGED <<flash, saved, op, known, promise>>

\* ReadSavedConfig, one part after the other.  At the start PPKYConfig is made
\* a copy of the whole.
ReadChunk ==
    /\ Reading
    /\ saved' = [saved EXCEPT ![op.s] = flash.sector[op.s]]
    /\ op' = NextSector("read", op.s)
    /\ IF op' # NoOp THEN UNCHANGED <<config, mode, known>>
       ELSE /\ mode' = "running" /\ known' = TRUE
            /\ config' = IF mode = "loading" THEN saved' ELSE config
    /\ UNCHANGED <<flash, promise>>

\* A part that could not be read is read again, as often as that happens.
ReadChunkFails ==
    /\ Reading
    /\ UNCHANGED vars

\* SetConfigWord, SetHAdr, the menus
Edit(s, v) ==
    /\ mode = "running"
    /\ config' = [config EXCEPT ![s] = v]
    /\ UNCHANGED <<flash, saved, op, mode, known, promise>>

\* SaveConfig.  From its first operation on the flash is between two images.
BeginSave ==
    /\ mode \in {"running", "loading defaults"}
    /\ mode' = IF flash.header /\ known THEN "saving" ELSE "saving blind"
    /\ op' = IF Dirty = {} THEN NoOp ELSE [step |-> "erase", s |-> 0]
    /\ promise' = IF Dirty = {} THEN promise ELSE NoPromise
    /\ UNCHANGED <<flash, config, saved, known>>

Operate ==
    /\ Saving /\ op # NoOp
    /\ flash' = Operated
    /\ op' = NextOp
    /\ UNCHANGED <<config, saved, mode, known, promise>>

\* SPIF_EraseSector or SPIF_WriteAddress fails, which nobody looks at.
OperationFails ==
    /\ Saving /\ op # NoOp
    /\ op' = NextOp
    /\ mode' = "failing"
    /\ UNCHANGED <<flash, config, saved, known, promise>>

Promised ==
    IF mode = "failing" THEN promise
    ELSE [made |-> TRUE, blind |-> mode = "saving blind", config |-> config]

\* (mutant) a valid header is enough, the image is not read back
EndSaveUnread(read_fails) ==
    /\ Saving /\ op = NoOp
    /\ promise' = Promised
    /\ mode' = "running"
    /\ known' = (flash.header \/ mode = "saving")
    /\ saved' = config
    /\ UNCHANGED <<flash, config, op>>

\* The end of SaveConfig: with a header that looks valid what is in the flash
\* now is read back; otherwise the copy is made of what should be there, which
\* is known to be right only of a save that has done all its work.
EndSave(read_fails) ==
    /\ Saving /\ op = NoOp
    /\ promise' = Promised
    /\ \/ /\ HeaderLooks(TRUE, read_fails)
          /\ mode' = "reading back" /\ op' = FirstChunk
          /\ UNCHANGED <<saved, known>>
       \/ /\ HeaderLooks(FALSE, read_fails)
          /\ saved' = config
          /\ mode' = "running" /\ known' = (mode = "saving")
          /\ op' = op
    /\ UNCHANGED <<flash, config>>

PowerFails ==
    /\ mode # "off"
    /\ mode' = "off"
    /\ config' = NoConfig /\ saved' = NoConfig
    /\ op' = NoOp /\ known' = FALSE
    /\ UNCHANGED <<flash, promise>>

Next ==
    \/ \E read_fails \in BOOLEAN :
          BootFromFlash(read_fails) \/ BootWithDefaults(read_fails) \/ EndSave(read_fails)
    \/ ReadChunk \/ ReadChunkFails
    \/ \E s \in Sectors, v \in Values : Edit(s, v)
    \/ BeginSave
    \/ Operate
    \/ OperationFails
    \/ PowerFails

Spec == Init /\ [][Next]_vars
-----------------------------------------------------------------------------
(* Properties *)

\* While the panel runs, SavedPPKYConfig is what the flash holds, so that the
\* next save finds every sector that has to be written, those included that a
\* failed or interrupted save left behind (SaveConfig, ReadSavedConfig).  It is
\* so from a start that loaded the image on, except behind a save that failed or
\* did not know what it wrote over and then could not read a header either.
CopyIsFlash == mode = "running" /\ known => saved = flash.sector

\* app.cpp, line 29: SavedPPKYConfig is a copy of the configuration that is in
\* the flash.
CopyOfTheFlash == mode = "running" => saved = flash.sector

\* No operation touches a sector that the save does not change: its content
\* survives whatever happens to the save (FlashWriteData).
CleanSectorsStay ==
    [][\A s \in Sectors : config[s] = saved[s] => flash'.sector[s] = flash.sector[s]]_vars

Stored(image) == flash.header /\ flash.sector = image

\* A save that began with a valid header and with a copy known to be right, and
\* in which no operation failed, is in the flash, and stays there through
\* restarts, until the next save that changes something; what earlier saves
\* left behind does not matter.
SaveIsKept == promise.made => promise.blind \/ Stored(promise.config)

\* The same of every save in which no operation failed, so also of the default
\* configuration that AppInit saves when there is none, or when the header could
\* not be read.
EverySaveIsKept == promise.made => Stored(promise.config)
=============================================================================
