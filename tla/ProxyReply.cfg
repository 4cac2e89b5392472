SPECIFICATION ProxySpec
CONSTANTS
    MaxStreamed = 3
    MaxRepairs = 2
INVARIANTS
    OneReply
