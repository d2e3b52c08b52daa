SPECIFICATION Spec
CONSTANTS
    Zones <- OneZone
    MaxSlots = 1
    Sources = {1, 2}
    MaxSources = 2
    Delay <- LongDelays
    Grace = 1
    MaxAttempts = 1
    SourcesOf <- EverySource
    ModesOf <- EveryMode
    AndOf <- EitherAnd
    IgnitersOf <- EveryIgniters
    GlobalManualOf <- Never
    SessionOf <- Either
INVARIANTS TypeOK SlotsConsistent IdleMeansNoFire
PROPERTIES NoSecondLaunch PanelPauseFreezes
