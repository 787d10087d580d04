CONSTANTS
    Null = Null
    Txns = {x1}
    Refs = {p1}
    Threads = {t1}
SPECIFICATION Spec
PROPERTIES
    NoCancelInEscrow
CHECK_DEADLOCK FALSE
