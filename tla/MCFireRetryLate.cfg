SPECIFICATION Spec
CONSTANTS
    z1 = z1
    z2 = z2
    a1 = a1
    a2 = a2
    Zones <- MCZones
    Igniters <- MCIgniters
    ZoneOf <- MCZoneOf
    MaxItems = 2
    MaxAttempts = 2
    ZoneCap = 1
    AllCap = 2
    MaxOps = 3
    MaxLost = 1
    MaxUnderWay = 2
INVARIANTS
    AcknowledgedMeansOff
CHECK_DEADLOCK FALSE
