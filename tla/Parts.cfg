SPECIFICATION PartsSpec
CONSTANTS
    GivenFile <- MCGivenFile
    ConfigCall <- MCConfigCall
    UserMode <- MCUserMode
    MaxUserEdits = 1
    MaxRecoveries = 3
    k1 = k1
    k2 = k2
    Key <- MCKey
    MaxTools = 2
    Parts = 2
    MaxRetries = 1
    ChainLen = 2
    MaxCalls = 2
    Runner = {"conversation"}
    Sender = {"client"}
    Resends = 1
    MaxTraced = 5
    MaxLost = 1
    MaxStreamed = 3
    MaxRepairs = 2
    l1 = l1
    l2 = l2
    Login <- MCLogin
    MaxTokens = 4
    Caller = {1, 2}
    MaxIds = 2
    MaxNotes = 1
    Language = {"rust"}
INVARIANTS
    SettingsHold
    LanesHold
    StreamKept
    TokensKept
    TaskHasItsTeam
    ProxyAnswers
CHECK_DEADLOCK FALSE
