CONSTANTS
    CustomerConns = {c}
    AgentConns = {}
    Strangers = {s}
    Threads = {}
    Capacity = 1
SPECIFICATION FairSpec
INVARIANTS
    TypeOK
    DenialCloses
PROPERTIES
    DenialIsActedOn
CHECK_DEADLOCK FALSE
