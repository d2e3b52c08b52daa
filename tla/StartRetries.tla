---------------------------- MODULE StartRetries ----------------------------
(***************************************************************************)
(* What module Fire takes for granted of the retry pool (fire.c): which    *)
(* zones have a START that waits for its acknowledgement, and that a START *)
(* goes out to a zone only when the panel gives it or while it waits.  A   *)
(* stop of any zone drops the waiting STARTs of all of them, and those on  *)
(* their way to the igniters it stops come to nothing.                     *)
(***************************************************************************)
CONSTANT Zones

VARIABLES
    start_retry,    \* zones with a START that waits
    starting,       \* zones with a START on its way that no STOP follows
    halted          \* zones that were stopped after their last START

Init == start_retry = {} /\ starting = {} /\ halted = {}

\* A START that finds the pool full is sent and does not wait.
StartZone(z) ==
    /\ starting' = starting \cup {z}
    /\ start_retry' \in {start_retry, start_retry \cup {z}}
    /\ halted' = halted \ {z}

StopZones(Z) ==
    /\ starting' \in SUBSET (starting \ Z)
    /\ start_retry' = {}
    /\ halted' = halted \cup Z

Resend(z) ==
    /\ z \in start_retry
    /\ starting' = starting \cup {z}
    /\ UNCHANGED <<start_retry, halted>>

\* Acknowledged or given up by the last igniter of the zone.
Settle(z) == start_retry' = start_retry \ {z} /\ UNCHANGED <<starting, halted>>

\* Carried out, lost or followed by a STOP that is sent again.
Arrive(z) == starting' = starting \ {z} /\ UNCHANGED <<start_retry, halted>>

Next ==
    \/ \E Z \in SUBSET Zones : StopZones(Z)
    \/ \E z \in Zones : StartZone(z) \/ Resend(z) \/ Settle(z) \/ Arrive(z)

Spec == Init /\ [][Next]_<<start_retry, starting, halted>>

\* A stopped zone is not started by anything that waits or is on its way.
HaltedIsQuiet == halted \cap (start_retry \cup starting) = {}
=============================================================================
