SPECIFICATION Spec
CONSTANTS
    Content = {x, y}
    x = x
    y = y
    RingSize = 6
    Lag = 2
    MaxFrames = 4
    MaxLost = 1
INVARIANTS
    TypeOK
    ParsedOnceInOrder
    ChangesAreParsed
CHECK_DEADLOCK FALSE
