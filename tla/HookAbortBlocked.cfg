SPECIFICATION FairSpec
CONSTANTS
    Input = {x1, x2}
    NoInput = NoInput
    MaxCommands = 3
    BigPayload = TRUE
    Habits <- Habit
PROPERTIES
    AbortEnds
CHECK_DEADLOCK FALSE
