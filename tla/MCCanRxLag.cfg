SPECIFICATION Spec
CONSTANTS
    Content = {x, y}
    x = x
    y = y
    RingSize = 6
    Lag = 2
    MaxFrames = 4
    MaxLost = 0
INVARIANTS
    EachParsedOnce
CHECK_DEADLOCK FALSE
