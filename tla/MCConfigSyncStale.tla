-------------------------- MODULE MCConfigSyncStale --------------------------
(***************************************************************************)
(* One behaviour of ConfigSync, for one MCU, step by step.  A difference   *)
(* was found once, and the attempts to write the image again fail, one     *)
(* after the other, while the requests they repeated are still under way:  *)
(* the answers to them meet the requests of the next operation, which have *)
(* the same slot, zone, command and word.  In the end the image is saved,  *)
(* but the next comparison takes the answers about size and checksum that  *)
(* the MCU gave before: the difference is found again and latched.         *)
(***************************************************************************)
EXTENDS ConfigSync

VARIABLE at     \* the next step of the script

FullSize == [s \in Slot |-> Words]

\* A periodic comparison up to the first two answers.
Compare == <<"compare", "time", "answer", "hear", "answer", "hear">>

Script ==
    <<"status", "block", "time", "answer", "hear", "answer", "hear", "answer", "hear", "block", "edit">>
    \o Compare
    \o <<"apply", "time", "time", "answer", "hear", "time", "time">>
    \o <<"apply", "time", "time", "answer", "hear", "answer", "hear", "time", "time">>
    \o Compare \o <<"time", "time">>
    \o <<"apply", "time", "answer", "hear", "answer", "hear", "answer", "hear", "time">>
    \o <<"answer", "answer", "answer", "answer", "answer", "answer", "answer", "answer">>
    \o <<"compare", "time", "hear", "hear", "hear">>

Does(step) ==
    CASE step = "status" -> StatusFrame(1)
      [] step = "block" -> ConfigIgnBlockSync_Process1ms(TRUE)
      [] step = "time" -> ConfigSync_Process1ms
      [] step = "answer" -> McuAnswers
      [] step = "hear" -> OnListenerMessage
      [] step = "edit" -> EditImage(1) /\ image'[1].block = Blocked
      [] step = "compare" -> SchedulePeriodicCrc(1)
      [] step = "apply" -> ConfigSync_StartApply

StaleInit == Init /\ blocked = {} /\ mcu[1].saved.block = Free /\ at = 1

StaleNext == at <= Len(Script) /\ Does(Script[at]) /\ at' = at + 1

StaleSpec == StaleInit /\ [][StaleNext]_<<vars, at>>
=============================================================================
