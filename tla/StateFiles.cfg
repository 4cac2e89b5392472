SPECIFICATION StateFilesSpec
SYMMETRY Symmetry
CONSTANTS
    RotateAt = 4
    MaxRotated = 1
    Preserve = 1
    MaxMessages = 4
    MaxPrompts = 2
    MaxLives = 3
    Worker = {w1, w2}
    Prompt = {p1}
    NoPrompt = NoPrompt
    MaxAttempts = 2
    x = x
    b = b
    repl = repl
    other = other
    External <- MCExternal
    Bundled <- MCBundled
    Proc <- MCProc
    Repl = repl
    OtherKind = {"install", "update", "uninstall"}
    MaxVersion = 2
    MaxOps = 1
    MaxNews = 1
    MaxTurns = 2
    MaxFaults = 1
INVARIANTS
    SessionKept
    WorkersTold
    PluginsAreDisk
PROPERTIES
    SaveRepairs
CHECK_DEADLOCK FALSE
