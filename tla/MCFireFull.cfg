SPECIFICATION Spec
CONSTANTS
    Zones <- TwoZones
    MaxSlots = 1
    Sources = {1}
    MaxSources = 2
    Delay <- ShortDelays
    Grace = 1
    MaxAttempts = 1
    SourcesOf <- EverySource
    ModesOf <- EveryMode
    AndOf <- NoAnd
    IgnitersOf <- FirstMayEnd
    GlobalManualOf <- Never
    SessionOf <- Never
INVARIANTS StoppedZoneIsQuiet
