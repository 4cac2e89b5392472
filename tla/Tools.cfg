SPECIFICATION ToolsSpec
CONSTANTS
    ToolKey <- MCToolKey
    AgentId = {1, 2}
    AgentKind = {"", "reviewer"}
    AgentError <- MCAgentError
    AgentIterations = 2
    x1 = x1
    x2 = x2
    NoInput = NoInput
    Input <- MCInput
    MaxCommands = 3
    BigPayload = TRUE
    Habits <- MCAnyHabit
    Pipe = 1
    MaxOutput = 2
    Client = {c1, c2}
    Bridged <- MCBridged
    Unlisted = "z"
INVARIANTS
    AgentReported
    HooksKeepWord
    ShellTold
    BridgeServes
PROPERTIES
    EveryCallEnds
CHECK_DEADLOCK FALSE
