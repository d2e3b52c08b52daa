SPECIFICATION Spec
CONSTANTS
    x = x
    Zero = Zero
    Last = 2
    Values = {Zero, x}
    Defaults <- MCDefaults
INVARIANTS
    CopyOfTheFlash
CHECK_DEADLOCK FALSE
