SPECIFICATION FairSpec
CONSTANTS
    Zones <- TwoZones
    MaxSlots = 2
    Sources = {1}
    MaxSources = 2
    Delay <- ShortDelays
    Grace = 1
    MaxAttempts = 2
    SourcesOf <- EverySource
    ModesOf <- AlwaysAuto
    AndOf <- NoAnd
    IgnitersOf <- AlwaysReady
    GlobalManualOf <- Always
    SessionOf <- Never
PROPERTIES LaunchEventually
