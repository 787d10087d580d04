CONSTANTS
    Null = Null
    Txns = {x1, x2}
    Refs = {p1, p2, p3}
    Threads = {t1, t2}
SPECIFICATION Spec
SYMMETRY MCSymmetry
INVARIANTS
    TypeOK
    ChargeIsRecorded
    OnlyOverlapDoublesPayments
    CompletedTxnIsSettled
    SettlementClosesTxn
PROPERTIES
    ImplementsLedger
CHECK_DEADLOCK FALSE
