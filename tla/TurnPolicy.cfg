SPECIFICATION Spec
CONSTANTS
    plain = plain
    denied = denied
    asked = asked
    Input <- MCInput
    Rules <- MCRules
    ActiveMode = "WorkspaceWrite"
    RequiredMode = "DangerFullAccess"
    HasPrompter = TRUE
    HasHooks = TRUE
    MaxIterations = 2
    Preserve = 2
    MaxUses = 1
    MaxTurns = 2
    MaxLives = 2
INVARIANTS
    RanAsPermitted
    TruthfulResults
    AbortStopsTools
CHECK_DEADLOCK FALSE
