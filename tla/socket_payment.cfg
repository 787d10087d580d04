CONSTANTS
    CustomerConns = {}
    AgentConns = {a}
    Strangers = {}
    Threads = {t}
    Capacity = 2
SPECIFICATION Spec
INVARIANTS
    ConfirmedHasArrived
    StageIsEarned
PROPERTIES
    OnlyPaymentMovesOn
CHECK_DEADLOCK FALSE
