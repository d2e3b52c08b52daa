--------------------------- MODULE MCConfigStore ---------------------------
(* Three sectors.  The default configuration sets something in the first,   *)
(* which holds the identity of the panel, and leaves the others empty.      *)
EXTENDS ConfigStore

CONSTANTS x

MCDefaults == [s \in 0 .. Last |-> IF s = 0 THEN x ELSE Zero]
=============================================================================
