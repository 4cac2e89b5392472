SPECIFICATION McpSpec
CONSTANTS
    s1 = s1
    s2 = s2
    Servers <- MCServers
    Tool = {t1}
    MaxOps = 2
    MaxPages = 2
    MaxOut = 2
    HealthQuestions <- MCHealthQuestions
INVARIANTS
    ChildAnswers
    CallAtMostOnce
    RoutesAsListed
    HealthHonest
PROPERTIES
    OperationsEnd
CHECK_DEADLOCK FALSE
