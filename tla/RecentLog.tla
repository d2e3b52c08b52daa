----------------------------- MODULE RecentLog -----------------------------
(***************************************************************************)
(* What the event log promises (doc, logger of events): records are kept   *)
(* in the order they were posted, and a full log gives up its oldest       *)
(* records, one whole sector at a time, to make room for new ones.         *)
(***************************************************************************)
EXTENDS Naturals, Sequences

CONSTANTS
    Records,        \* names of records, numbers: a later record has a greater one
    Capacity,       \* records the log can hold
    Reclaimed       \* records given up when it is full

VARIABLE kept       \* the records that can be read, the oldest first

Init == kept = <<>>

\* What is left when a full log makes room.
Rest == SubSeq(kept, Reclaimed + 1, Capacity)

Add(r) ==
    /\ \A i \in DOMAIN kept : kept[i] < r
    /\ kept' = Append(IF Len(kept) = Capacity THEN Rest ELSE kept, r)

Reclaim == Len(kept) = Capacity /\ kept' = Rest

Next == (\E r \in Records : Add(r)) \/ Reclaim

Spec == Init /\ [][Next]_kept
=============================================================================
