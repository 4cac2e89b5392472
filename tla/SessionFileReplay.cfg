SPECIFICATION Spec
CONSTANTS
    RotateAt = 4
    MaxRotated = 1
    Preserve = 1
    MaxMessages = 4
    MaxPrompts = 2
    MaxLives = 3
PROPERTIES
    AppendReplays
CHECK_DEADLOCK FALSE
