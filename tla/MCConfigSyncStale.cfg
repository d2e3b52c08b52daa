SPECIFICATION StaleSpec
CONSTANTS
    NSlots = 1
    Zones = {1}
    RequestRetries = 1
    SaveRetries = 0
    Igniters = {1}
    New = {}
    Missing = {}
    Size <- FullSize
    LateAnswers = TRUE
    MaxWire = 10
    MaxStarted = 9
    MaxModes = 1
    MaxEdits = 1
    MaxReboots = 0
    MaxSilences = 0
    MaxDelays = 20
PROPERTIES LatchedDiffers
CHECK_DEADLOCK FALSE
