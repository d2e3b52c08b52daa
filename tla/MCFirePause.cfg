SPECIFICATION Spec
CONSTANTS
    Zones <- TwoZones
    MaxSlots = 2
    Sources = {1}
    MaxSources = 2
    Delay <- LongDelays
    Grace = 1
    MaxAttempts = 2
    SourcesOf <- EverySource
    ModesOf <- AlwaysAuto
    AndOf <- NoAnd
    IgnitersOf <- AlwaysReady
    GlobalManualOf <- Never
    SessionOf <- Never
PROPERTIES PauseFreezes
