SPECIFICATION DecisionsSpec
CONSTANTS
    Slash <- MCSlash
    AfterInstall <- MCAfterInstall
    Numerals = {"2"}
    PreserveRecent = 2
    ToolKey <- MCToolKey
    Trimmed <- MCTrimmed
    MaxSize = 3
    Sniffed = 2
    DefaultLimit = 3
    MaxGlob = 2
    MaxHits = 2
    MaxPreview = 3
    MaxHops = 1
    MaxReply = 3
    DictWindow = 3
    CompletionTtl = 2
    PromptTtl = 2
    MinDrop = 2
    InitialBackoff = 1
    MaxBackoff = 5
    Shifts = 3
    Preserve = 4
    UsageBits = 2
    MaxFile = 4
    MaxTotal = 6
    Suffix = 1
    Commits = 1
    MaxLines = 3
    MaxChars = 4
    MaxReadLines = 4
    MaxReadChars = 5
    ErrorChars = 2
    PatchChars = 1
    MaxHunks = 2
    MaxHunkLines = 2
    MaxNames = 2
INVARIANTS
    CommandsAgree
    AccessDecided
    DeclaredIsKept
    WireAgrees
    RecordsHold
    ToolsCompute
    ShownWhole
CHECK_DEADLOCK FALSE
