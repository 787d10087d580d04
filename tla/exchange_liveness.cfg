CONSTANTS
    customer = customer
    agent = agent
    Null = Null
    Users <- MCUsers
    Agents <- MCAgents
    Searches = {s1}
    Requests = {r1}
    Txns = {x1}
    Refs = {p1}
    Ratings = {}
    Threads = {t1, t2}
    Amounts = {}
SPECIFICATION FairSpec
PROPERTIES
    AcceptanceOpensTxn
    PaidExchangeEnds
CHECK_DEADLOCK FALSE
