CONSTANTS
    Null = Null
    Txns = {x1}
    Refs = {p1}
    Threads = {t1, t2}
SPECIFICATION FairSpec
PROPERTIES
    EscrowIsSettled
CHECK_DEADLOCK FALSE
