SPECIFICATION FairSpec
CONSTANTS
    NSlots = 3
    Zones = {1}
    RequestRetries = 1
    SaveRetries = 1
    Igniters = {1}
    New = {2}
    Missing = {3}
    Size <- FullSize
    LateAnswers = TRUE
    MaxWire = 2
    MaxStarted = 1
    MaxModes = 1
    MaxEdits = 0
    MaxReboots = 0
    MaxSilences = 1
    MaxDelays = 1
PROPERTIES BusyEnds IgnitersFollow
