CONSTANTS
    customer = customer
    agent = agent
    Null = Null
    Users <- MCUsers
    Agents <- MCAgents
    Searches = {s1}
    Requests = {r1}
    Txns = {x1, x2}
    Refs = {p1}
    Ratings = {n1, n2}
    Threads = {t1, t2}
    Amounts <- MCAmounts
SPECIFICATION Spec
SYMMETRY MCSymmetry
INVARIANTS
    TypeOK
    RatedWasSettled
    OnlyOverlapDoublesRatings
    SettlementEndsSearch
    HeldCanBeSettled
PROPERTIES
    ImplementsMatching
    ImplementsEscrow
    ImplementsDeal
CHECK_DEADLOCK FALSE
