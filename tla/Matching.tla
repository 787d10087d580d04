------------------------------ MODULE Matching ------------------------------
(***************************************************************************)
(* How a search for agents becomes an exchange transaction.                *)
(*                                                                         *)
(* The requests of transactionservice: a customer searches for agents and  *)
(* the result is cached, a dispatch turns one result into a row of         *)
(* ExchangeRequests addressed to one agent, and the agent's reaction       *)
(* declines the row or accepts it and opens a row of ExchangeTransactions. *)
(*                                                                         *)
(* Each HTTP request is served by a thread of the ASGI server and no       *)
(* handler opens a database transaction, so every query, update and cache  *)
(* call is a step of its own and handlers interleave between them.  A      *)
(* thread's local variables are its job.  Ids are uuids: a new row takes   *)
(* any id that was never used.                                             *)
(***************************************************************************)
EXTENDS Naturals, FiniteSets

CONSTANTS Users, Agents, Searches, Requests, Txns, Threads, Null

VARIABLES search,    \* what each search id found; never changes once issued
          expired,   \* the search ids whose cache entry is gone
          requests,  \* table ExchangeRequests, by id
          txns,      \* table ExchangeTransactions, by id
          told,      \* the events published to each request's socket group
          job,       \* the handler each thread runs, with its local variables
          lost       \* history: requests whose acceptance was cut before the insert

vars == <<search, expired, requests, txns, told, job, lost>>

-----------------------------------------------------------------------------
SearchResult == [customer : Users, agents : SUBSET Agents]
Request == [agent : Users, customer : Users, search : Searches,
            status : {"PENDING", "ACCEPTED", "DECLINED"}, by : Threads]
Txn == [request : Requests, customer : Users, agent : Users,
        status : {"IN-PROGRESS", "CLOSED"}, by : Threads]

Idle == [at |-> "idle"]
DispatchJob == [at : {"check sent", "insert request"},
                customer : Users, agent : Users, search : Searches]
ReactJob == [at : {"publish decline", "decline", "check customer", "accept",
                   "insert txn", "publish accept"},
             req : Requests]

\* Null stands for a row or a search that does not exist, so it is none of them.
ASSUME MatchingAssumption ==
    /\ Agents \subseteq Users
    /\ Null \notin SearchResult \cup Request \cup Txn

TypeOK ==
    /\ search \in [Searches -> SearchResult \cup {Null}]
    /\ expired \subseteq Searches
    /\ requests \in [Requests -> Request \cup {Null}]
    /\ txns \in [Txns -> Txn \cup {Null}]
    /\ told \in [Requests -> SUBSET {"accepted", "declined"}]
    /\ job \in [Threads -> {Idle} \cup DispatchJob \cup ReactJob]
    /\ lost \subseteq Requests

Init ==
    /\ search = [s \in Searches |-> Null]
    /\ expired = {}
    /\ requests = [r \in Requests |-> Null]
    /\ txns = [x \in Txns |-> Null]
    /\ told = [r \in Requests |-> {}]
    /\ job = [t \in Threads |-> Idle]
    /\ lost = {}

-----------------------------------------------------------------------------
Cached(s) == search[s] # Null /\ s \notin expired

\* Mutant: anyone may serve a request, its customer too.
MayServeOwn(a, c) == a \in Users
MayServe(a, c) == a # c

\* Definitions marked "Mutant" are faulty variants that nothing here uses: each
\* shows that a property below notices the fault.
\* Mutant: a request that was answered no longer counts as sent.
SentAndPending(a, s) == \E r \in Requests : /\ requests[r] # Null
                                           /\ requests[r].agent = a
                                           /\ requests[r].search = s
                                           /\ requests[r].status = "PENDING"
Sent(a, s) == \E r \in Requests :
                 requests[r] # Null /\ requests[r].agent = a /\ requests[r].search = s
Opened(r) == {x \in Txns : txns[x] # Null /\ txns[x].request = r}

\* Mutant: the busy check looks at the wrong party.
InProgressAsAgent(c) == {x \in Txns : /\ txns[x] # Null
                                      /\ txns[x].agent = c
                                      /\ txns[x].status = "IN-PROGRESS"}
InProgress(c) == {x \in Txns : /\ txns[x] # Null
                               /\ txns[x].customer = c
                               /\ txns[x].status = "IN-PROGRESS"}

Dispatching(t) == job[t] # Idle /\ job[t].at \in {"check sent", "insert request"}
Reacting(t) == job[t] # Idle /\ ~Dispatching(t)

\* Bounds of the model: a handler starts only while an id is left for its insert.
RoomForRequest == Cardinality({t \in Threads : Dispatching(t)})
                     < Cardinality({r \in Requests : requests[r] = Null})
RoomForTxn == Cardinality({t \in Threads : Reacting(t)})
                     < Cardinality({x \in Txns : txns[x] = Null})

\* Thread t goes on to step a of its handler, or leaves the handler.
GoTo(t, a) == job' = [job EXCEPT ![t].at = a]
Return(t) == job' = [job EXCEPT ![t] = Idle]

-----------------------------------------------------------------------------
(* The search (InitiateRequestSerializer).  Which agents are online and     *)
(* within reach is the outcome of presence keys and of route look-ups; the  *)
(* result is any nonempty set of agents but the requester.  Agents busy in  *)
(* a transaction are not removed: the exclusion compares user ids with      *)
(* (customer, agent) pairs, which match none.                               *)
Search(c, s, found) ==
    /\ search[s] = Null
    /\ found # {}
    /\ c \notin found
    /\ search' = [search EXCEPT ![s] = [customer |-> c, agents |-> found]]
    /\ UNCHANGED <<expired, requests, txns, told, job, lost>>

\* The cached search ends after a day, or when a payment on it is settled.
ExpireSearch(s) ==
    /\ Cached(s)
    /\ expired' = expired \cup {s}
    /\ UNCHANGED <<search, requests, txns, told, job, lost>>

-----------------------------------------------------------------------------
(* Dispatching a request to an agent (DispatchRequestSerializer).          *)

\* Any user but the requester will do: the code means to ask that "the agent is in the
\* search result", but applies bool() to a filter object, which is always true.
DispatchLookup(t, c, a, s) ==
    /\ job[t] = Idle
    /\ RoomForRequest
    /\ MayServe(a, c)
    /\ Cached(s)
    /\ job' = [job EXCEPT ![t] = [at |-> "check sent", customer |-> c,
                                  agent |-> a, search |-> s]]
    /\ UNCHANGED <<search, expired, requests, txns, told, lost>>

DispatchCheckSent(t) ==
    /\ job[t].at = "check sent"
    /\ IF Sent(job[t].agent, job[t].search) THEN Return(t)
                                            ELSE GoTo(t, "insert request")
    /\ UNCHANGED <<search, expired, requests, txns, told, lost>>

DispatchInsert(t) ==
    /\ job[t].at = "insert request"
    /\ \E r \in Requests :
         /\ requests[r] = Null
         /\ requests' = [requests EXCEPT ![r] =
                [agent |-> job[t].agent, customer |-> job[t].customer,
                 search |-> job[t].search, status |-> "PENDING", by |-> t]]
    /\ Return(t)
    /\ UNCHANGED <<search, expired, txns, told, lost>>

-----------------------------------------------------------------------------
(* The agent's reaction (HandleRequestNotificationSerializer).             *)

ReactLookup(t, r, reaction) ==
    /\ job[t] = Idle
    /\ RoomForTxn
    /\ requests[r] # Null
    /\ requests[r].status = "PENDING"
    /\ job' = [job EXCEPT ![t] =
                 [at |-> IF reaction = "DECLINED" THEN "publish decline"
                                                  ELSE "check customer",
                  req |-> r]]
    /\ UNCHANGED <<search, expired, requests, txns, told, lost>>

\* The customer is told of the refusal before it is stored.
PublishDecline(t) ==
    /\ job[t].at = "publish decline"
    /\ told' = [told EXCEPT ![job[t].req] = @ \cup {"declined"}]
    /\ GoTo(t, "decline")
    /\ UNCHANGED <<search, expired, requests, txns, lost>>

\* Mutant: the name of the event is stored in place of the status.
DeclineAsEvent(t) ==
    /\ job[t].at = "decline"
    /\ requests' = [requests EXCEPT ![job[t].req].status = "declined"]
    /\ Return(t)
    /\ UNCHANGED <<search, expired, txns, told, lost>>

Decline(t) ==
    /\ job[t].at = "decline"
    /\ requests' = [requests EXCEPT ![job[t].req].status = "DECLINED"]
    /\ Return(t)
    /\ UNCHANGED <<search, expired, txns, told, lost>>

CheckCustomer(t) ==
    /\ job[t].at = "check customer"
    /\ IF InProgress(requests[job[t].req].customer) # {} THEN Return(t)
                                                         ELSE GoTo(t, "accept")
    /\ UNCHANGED <<search, expired, requests, txns, told, lost>>

\* Mutant: the customer is looked at again once the acceptance is stored.
AcceptThenCheck(t) ==
    /\ job[t].at = "accept"
    /\ requests' = [requests EXCEPT ![job[t].req].status = "ACCEPTED"]
    /\ IF InProgress(requests[job[t].req].customer) # {} THEN Return(t)
                                                         ELSE GoTo(t, "insert txn")
    /\ UNCHANGED <<search, expired, txns, told, lost>>

\* Mutant: the customer is told before the transaction is inserted.
AcceptAndTell(t) ==
    /\ job[t].at = "accept"
    /\ requests' = [requests EXCEPT ![job[t].req].status = "ACCEPTED"]
    /\ told' = [told EXCEPT ![job[t].req] = @ \cup {"accepted"}]
    /\ GoTo(t, "insert txn")
    /\ UNCHANGED <<search, expired, txns, lost>>

\* Mutant: the destination is read from the cached search, which may be gone by now.
AcceptFromCache(t) ==
    /\ job[t].at = "accept"
    /\ requests' = [requests EXCEPT ![job[t].req].status = "ACCEPTED"]
    /\ IF Cached(requests[job[t].req].search) THEN GoTo(t, "insert txn") ELSE Return(t)
    /\ UNCHANGED <<search, expired, txns, told, lost>>

\* Mutant: the acceptance is not saved.
AcceptUnsaved(t) ==
    /\ job[t].at = "accept"
    /\ GoTo(t, "insert txn")
    /\ UNCHANGED <<search, expired, requests, txns, told, lost>>

Accept(t) ==
    /\ job[t].at = "accept"
    /\ requests' = [requests EXCEPT ![job[t].req].status = "ACCEPTED"]
    /\ GoTo(t, "insert txn")
    /\ UNCHANGED <<search, expired, txns, told, lost>>

OpenTxn(t) ==
    /\ job[t].at = "insert txn"
    /\ \E x \in Txns :
         /\ txns[x] = Null
         /\ txns' = [txns EXCEPT ![x] =
                [request |-> job[t].req, customer |-> requests[job[t].req].customer,
                 agent |-> requests[job[t].req].agent,
                 status |-> "IN-PROGRESS", by |-> t]]
    /\ GoTo(t, "publish accept")
    /\ UNCHANGED <<search, expired, requests, told, lost>>

PublishAccept(t) ==
    /\ job[t].at = "publish accept"
    /\ told' = [told EXCEPT ![job[t].req] = @ \cup {"accepted"}]
    /\ Return(t)
    /\ UNCHANGED <<search, expired, requests, txns, lost>>

-----------------------------------------------------------------------------
\* A handler stops half-way: a database, Redis or push error, or the process dies.
Abort(t) ==
    /\ job[t] # Idle
    /\ lost' = IF job[t].at = "insert txn" THEN lost \cup {job[t].req} ELSE lost
    /\ Return(t)
    /\ UNCHANGED <<search, expired, requests, txns, told>>

\* A transaction is cancelled or completed (module Escrow); it never reopens.
CloseTxn(x) ==
    /\ txns[x] # Null
    /\ txns[x].status = "IN-PROGRESS"
    /\ txns' = [txns EXCEPT ![x].status = "CLOSED"]
    /\ UNCHANGED <<search, expired, requests, told, job, lost>>

Step(t) ==
    \/ DispatchCheckSent(t)
    \/ DispatchInsert(t)
    \/ PublishDecline(t)
    \/ Decline(t)
    \/ CheckCustomer(t)
    \/ Accept(t)
    \/ OpenTxn(t)
    \/ PublishAccept(t)

Next ==
    \/ \E c \in Users, s \in Searches, found \in SUBSET Agents : Search(c, s, found)
    \/ \E s \in Searches : ExpireSearch(s)
    \/ \E t \in Threads, c, a \in Users, s \in Searches : DispatchLookup(t, c, a, s)
    \/ \E t \in Threads, r \in Requests, reaction \in {"ACCEPTED", "DECLINED"} :
          ReactLookup(t, r, reaction)
    \/ \E t \in Threads : Step(t)
    \/ \E t \in Threads : Abort(t)
    \/ \E x \in Txns : CloseTxn(x)

Spec == Init /\ [][Next]_vars

-----------------------------------------------------------------------------
(* A transaction stands for an agreement: its request exists and was        *)
(* decided, it joins the customer and the agent of that very request, and   *)
(* nobody exchanges cash with themselves.  It must survive a refusal or a   *)
(* second acceptance that overlaps the first.                               *)
TxnFollowsRequest ==
    \A x \in Txns : txns[x] # Null =>
       LET r == txns[x].request IN
       /\ requests[r] # Null
       /\ requests[r].status # "PENDING"
       /\ txns[x].customer = requests[r].customer
       /\ txns[x].agent = requests[r].agent
       /\ txns[x].customer # txns[x].agent

(* Two open transactions of one customer, and two transactions of one       *)
(* request, come from handlers that overlapped: one thread's reactions,     *)
(* which follow each other, never do it.  So the busy check and the         *)
(* PENDING check are enough for sequential service and for nothing more.    *)
OnlyOverlapDoublesTxns ==
    \A x, y \in Txns :
       (txns[x] # Null /\ txns[y] # Null /\ x # y /\ txns[x].by = txns[y].by) =>
          /\ txns[x].request # txns[y].request
          /\ ~ /\ txns[x].customer = txns[y].customer
               /\ txns[x].status = "IN-PROGRESS"
               /\ txns[y].status = "IN-PROGRESS"

(* The same for the dispatch: an agent hears of a search twice only through *)
(* two handlers that overlapped.                                            *)
OnlyOverlapDoublesDispatch ==
    \A p, q \in Requests :
       (requests[p] # Null /\ requests[q] # Null /\ p # q) =>
          ~ /\ requests[p].agent = requests[q].agent
            /\ requests[p].search = requests[q].search
            /\ requests[p].by = requests[q].by

(* An accepted request has its transaction, or a handler is about to insert *)
(* it, or a handler was cut between the update and the insert: nothing else *)
(* separates the two writes.                                                *)
AcceptedHasTxn ==
    \A r \in Requests :
       (requests[r] # Null /\ requests[r].status = "ACCEPTED") =>
          \/ Opened(r) # {}
          \/ \E t \in Threads : job[t].at = "insert txn" /\ job[t].req = r
          \/ r \in lost

(* A customer is told "accepted" only when there is a transaction to join,  *)
(* even if the agent also declines meanwhile.                               *)
ToldAcceptedHasTxn ==
    \A r \in Requests : "accepted" \in told[r] => Opened(r) # {}

-----------------------------------------------------------------------------
(* "Check to see that customer isn't in another inprogress before agent     *)
(* accets" (serializers.py:270): one open transaction for a customer.       *)
OneOpenTxnPerCustomer ==
    \A c \in Users : Cardinality(InProgress(c)) <= 1
=============================================================================
