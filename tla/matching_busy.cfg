CONSTANTS
    customer = customer
    agent1 = agent1
    agent2 = agent2
    Null = Null
    Users <- MCUsers
    Agents <- MCAgents
    Searches = {s1}
    Requests = {r1, r2}
    Txns = {x1, x2}
    Threads = {t1, t2}
SPECIFICATION Spec
INVARIANTS
    OneOpenTxnPerCustomer
CHECK_DEADLOCK FALSE
