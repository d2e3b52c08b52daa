SPECIFICATION FairSpec
CONSTANTS
    Zones <- OneZone
    MaxSlots = 1
    Sources = {1}
    MaxSources = 2
    Delay <- ShortDelays
    Grace = 1
    MaxAttempts = 2
    SourcesOf <- EverySource
    ModesOf <- AlwaysAuto
    AndOf <- EitherAnd
    IgnitersOf <- EveryIgniters
    GlobalManualOf <- Never
    SessionOf <- Never
PROPERTIES LaunchEventually RetriesEnd
