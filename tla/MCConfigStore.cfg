SPECIFICATION Spec
CONSTANTS
    x = x
    Zero = Zero
    Last = 2
    Values = {Zero, x}
    Defaults <- MCDefaults
INVARIANTS
    TypeOK
    CopyIsFlash
    SaveIsKept
PROPERTIES
    CleanSectorsStay
CHECK_DEADLOCK FALSE
