------------------------------- MODULE MCFire -------------------------------
(* Instances of Fire for TLC.  The surroundings each instance allows are    *)
(* chosen in the configuration by naming one of the definitions below.      *)
EXTENDS Fire

OneZone == {1}
TwoZones == {1, 2}

ShortDelays == [z \in Zones |-> 1]
LongDelays == [z \in Zones |-> 2]

EverySource == [z \in Zones |-> Sources]
AlwaysAuto == [z \in Zones |-> {"auto"}]
EveryMode == [z \in Zones |-> Mode]
SecondBlocked == [z \in Zones |-> IF z = 2 THEN {"blocked"} ELSE {"auto"}]
NoAnd == [z \in Zones |-> {FALSE}]
EitherAnd == [z \in Zones |-> BOOLEAN]
EveryIgniters == [z \in Zones |-> Igniters]
AlwaysReady == [z \in Zones |-> {"ready"}]
FirstMayEnd == [z \in Zones |-> IF z = 1 THEN {"ready", "ended"} ELSE {"ready"}]
Never == {FALSE}
Always == {TRUE}
Either == BOOLEAN
=============================================================================
