SPECIFICATION FairSpec
CONSTANTS
    plain = plain
    denied = denied
    asked = asked
    Input <- MCOneInput
    Rules <- MCOneRules
    ActiveMode = "WorkspaceWrite"
    RequiredMode = "DangerFullAccess"
    HasPrompter = TRUE
    HasHooks = FALSE
    MaxIterations = 2
    Preserve = 2
    MaxUses = 2
    MaxTurns = 2
    MaxLives = 3
INVARIANTS
    NoMessageLost
    ToolsPaired
    AtMostOnce
    FileKeepsUp
PROPERTIES
    FileIsTranscript
    TurnEnds
CHECK_DEADLOCK FALSE
