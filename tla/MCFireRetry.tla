---------------------------- MODULE MCFireRetry ----------------------------
(* Two zones with one igniter each. *)
EXTENDS FireRetry

CONSTANTS z1, z2, a1, a2

MCZones == {z1, z2}
MCIgniters == {a1, a2}
MCZoneOf == [a \in MCIgniters |-> IF a = a1 THEN z1 ELSE z2]
=============================================================================
