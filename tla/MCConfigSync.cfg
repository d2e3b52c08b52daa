SPECIFICATION Spec
CONSTANTS
    NSlots = 1
    Zones = {1, 2}
    RequestRetries = 1
    SaveRetries = 0
    Igniters = {1}
    New = {}
    Missing = {}
    Size <- FullSize
    LateAnswers = TRUE
    MaxWire = 2
    MaxStarted = 2
    MaxModes = 1
    MaxEdits = 1
    MaxReboots = 1
    MaxSilences = 0
    MaxDelays = 1
INVARIANTS TypeOK
PROPERTIES AppliedIsStored BlockingIsStored ImageIsRead LatchedDiffers
