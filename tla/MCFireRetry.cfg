SPECIFICATION FairSpec
CONSTANTS
    z1 = z1
    z2 = z2
    a1 = a1
    a2 = a2
    Zones <- MCZones
    Igniters <- MCIgniters
    ZoneOf <- MCZoneOf
    MaxItems = 2
    MaxAttempts = 2
    ZoneCap = 1
    AllCap = 2
    MaxOps = 3
    MaxLost = 1
    MaxUnderWay = 1
INVARIANTS
    TypeOK
    OneItemPerCommand
    GeneralStopIsRetried
    AcknowledgedStopPrevails
PROPERTIES
    NoStartAfterStop
    KeepsStarts
    GeneralStopIsCarriedOut
CHECK_DEADLOCK FALSE
