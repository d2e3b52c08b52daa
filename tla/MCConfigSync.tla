---------------------------- MODULE MCConfigSync ----------------------------
(* Instances of ConfigSync for TLC. *)
EXTENDS ConfigSync

FullSize == [s \in Slot |-> Words]
=============================================================================
