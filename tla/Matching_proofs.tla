-------------------------- MODULE Matching_proofs --------------------------
(***************************************************************************)
(* Theorems about Matching, for any users, agents, ids and threads.        *)
(***************************************************************************)
EXTENDS Matching, FiniteSetTheorems, TLAPS

\* The step a job is at says which handler it runs.
LEMMA JobAt ==
    /\ Idle.at = "idle"
    /\ \A j \in DispatchJob : j.at \in {"check sent", "insert request"}
    /\ \A j \in ReactJob : j.at \in {"publish decline", "decline", "check customer",
                                     "accept", "insert txn", "publish accept"}
BY DEF Idle, DispatchJob, ReactJob

LEMMA JobKind ==
    ASSUME NEW t \in Threads, TypeOK
    PROVE  /\ job[t].at \in {"check sent", "insert request"} => job[t] \in DispatchJob
           /\ job[t].at \in {"publish decline", "decline", "check customer", "accept",
                             "insert txn", "publish accept"} => job[t] \in ReactJob
BY JobAt DEF TypeOK

-----------------------------------------------------------------------------
(* Well-formed states: on top of the types, a reaction runs on a request    *)
(* that exists, so that no handler updates a row that is not there.         *)

ReactsToRequest == \A t \in Threads : job[t] \in ReactJob => requests[job[t].req] # Null

WellFormed == TypeOK /\ ReactsToRequest

\* What GoTo and Return do to the jobs of well-formed states.
LEMMA GoToKeeps ==
    ASSUME NEW t \in Threads, NEW a, WellFormed, GoTo(t, a),
           \/ job[t] \in DispatchJob /\ a = "insert request"
           \/ /\ job[t] \in ReactJob
              /\ a \in {"decline", "accept", "insert txn", "publish accept"}
    PROVE  /\ job' \in [Threads -> {Idle} \cup DispatchJob \cup ReactJob]
           /\ \A u \in Threads : job'[u] \in ReactJob => requests[job'[u].req] # Null
<1>1. [job[t] EXCEPT !.at = a] \in DispatchJob \cup ReactJob
  BY DEF DispatchJob, ReactJob
<1>2. job' = [job EXCEPT ![t] = [job[t] EXCEPT !.at = a]]
  BY DEF GoTo
<1>3. job' \in [Threads -> {Idle} \cup DispatchJob \cup ReactJob]
  BY <1>1, <1>2 DEF WellFormed, TypeOK
<1>4. ASSUME NEW u \in Threads, job'[u] \in ReactJob PROVE requests[job'[u].req] # Null
  BY <1>2, <1>4 DEF WellFormed, TypeOK, ReactsToRequest, ReactJob, DispatchJob
<1> QED
  BY <1>3, <1>4

LEMMA ReturnKeeps ==
    ASSUME NEW t \in Threads, WellFormed, Return(t)
    PROVE  /\ job' \in [Threads -> {Idle} \cup DispatchJob \cup ReactJob]
           /\ \A u \in Threads : job'[u] \in ReactJob => requests[job'[u].req] # Null
BY DEF WellFormed, TypeOK, ReactsToRequest, Return, Idle, ReactJob

\* A decision changes the status of one row and nothing else.
LEMMA DecisionKeeps ==
    ASSUME NEW r \in Requests, NEW s \in {"ACCEPTED", "DECLINED"}, TypeOK,
           requests[r] # Null, requests' = [requests EXCEPT ![r].status = s]
    PROVE  /\ requests' \in [Requests -> Request \cup {Null}]
           /\ \A q \in Requests :
                 /\ requests'[q] # Null <=> requests[q] # Null
                 /\ requests'[q] # Null =>
                      /\ requests'[q].agent = requests[q].agent
                      /\ requests'[q].customer = requests[q].customer
                      /\ requests'[q].search = requests[q].search
                      /\ requests'[q].by = requests[q].by
                      /\ requests'[q].status = IF q = r THEN s ELSE requests[q].status
           /\ requests'[r].status = s
<1> DEFINE row == [requests[r] EXCEPT !.status = s]
<1>1. requests[r] \in Request
  BY DEF TypeOK
<1>2. /\ row \in Request
      /\ row.agent = requests[r].agent
      /\ row.customer = requests[r].customer
      /\ row.search = requests[r].search
      /\ row.by = requests[r].by
      /\ row.status = s
  BY <1>1 DEF Request
<1>3. row # Null
  BY <1>2, MatchingAssumption
<1>4. requests' = [requests EXCEPT ![r] = row]
  OBVIOUS
<1> HIDE DEF row
<1> QED
  BY <1>2, <1>3, <1>4 DEF TypeOK

LEMMA InitWellFormed == Init => WellFormed
<1> SUFFICES ASSUME Init PROVE WellFormed
  OBVIOUS
<1>1. TypeOK
  BY DEF Init, TypeOK
<1>2. ReactsToRequest
  BY DEF Init, ReactsToRequest, Idle, ReactJob
<1> QED
  BY <1>1, <1>2 DEF WellFormed

LEMMA NextWellFormed == WellFormed /\ [Next]_vars => WellFormed'
<1> SUFFICES ASSUME WellFormed, [Next]_vars PROVE WellFormed'
  OBVIOUS
<1> USE DEF WellFormed
<1>1. ASSUME NEW c \in Users, NEW s \in Searches, NEW found \in SUBSET Agents,
             Search(c, s, found)
      PROVE  WellFormed'
  BY <1>1 DEF Search, TypeOK, SearchResult, ReactsToRequest
<1>2. ASSUME NEW s \in Searches, ExpireSearch(s) PROVE WellFormed'
  BY <1>2 DEF ExpireSearch, TypeOK, ReactsToRequest
<1>3. ASSUME NEW t \in Threads, NEW c \in Users, NEW a \in Users, NEW s \in Searches,
             DispatchLookup(t, c, a, s)
      PROVE  WellFormed'
  BY <1>3 DEF DispatchLookup, TypeOK, DispatchJob, ReactsToRequest, ReactJob
<1>4. ASSUME NEW t \in Threads, NEW r \in Requests, NEW reaction \in {"ACCEPTED", "DECLINED"},
             ReactLookup(t, r, reaction)
      PROVE  WellFormed'
  BY <1>4 DEF ReactLookup, TypeOK, ReactJob, ReactsToRequest
<1>5. ASSUME NEW t \in Threads, Step(t) PROVE WellFormed'
  <2> USE JobKind
  <2>1. CASE DispatchCheckSent(t)
    BY <2>1, GoToKeeps, ReturnKeeps DEF DispatchCheckSent, TypeOK, ReactsToRequest
  <2>2. CASE DispatchInsert(t)
    <3> DEFINE row == [agent |-> job[t].agent, customer |-> job[t].customer,
                       search |-> job[t].search, status |-> "PENDING", by |-> t]
    <3>1. row \in Request
      BY <2>2 DEF DispatchInsert, DispatchJob, Request
    <3>2. row # Null
      BY <3>1, MatchingAssumption
    <3>3. PICK r \in Requests : requests' = [requests EXCEPT ![r] = row]
      BY <2>2 DEF DispatchInsert
    <3> HIDE DEF row
    <3> QED
      BY <2>2, <3>1, <3>2, <3>3, ReturnKeeps
         DEF DispatchInsert, TypeOK, ReactsToRequest, ReactJob
  <2>3. CASE PublishDecline(t)
    BY <2>3, GoToKeeps DEF PublishDecline, TypeOK, ReactJob, ReactsToRequest
  <2>4. CASE Decline(t)
    <3>1. job[t] \in ReactJob /\ job[t].req \in Requests /\ requests[job[t].req] # Null
      BY <2>4 DEF Decline, ReactJob, ReactsToRequest
    <3>2. /\ requests' \in [Requests -> Request \cup {Null}]
          /\ \A q \in Requests : requests'[q] # Null <=> requests[q] # Null
      BY <2>4, <3>1, DecisionKeeps DEF Decline
    <3> QED
      BY <2>4, <3>2, ReturnKeeps DEF Decline, TypeOK, ReactJob, ReactsToRequest
  <2>5. CASE CheckCustomer(t)
    BY <2>5, GoToKeeps, ReturnKeeps DEF CheckCustomer, TypeOK, ReactsToRequest
  <2>6. CASE Accept(t)
    <3>1. job[t] \in ReactJob /\ job[t].req \in Requests /\ requests[job[t].req] # Null
      BY <2>6 DEF Accept, ReactJob, ReactsToRequest
    <3>2. /\ requests' \in [Requests -> Request \cup {Null}]
          /\ \A q \in Requests : requests'[q] # Null <=> requests[q] # Null
      BY <2>6, <3>1, DecisionKeeps DEF Accept
    <3> QED
      BY <2>6, <3>1, <3>2, GoToKeeps DEF Accept, TypeOK, ReactJob, ReactsToRequest
  <2>7. CASE OpenTxn(t)
    <3>1. job[t] \in ReactJob /\ requests[job[t].req] \in Request
      BY <2>7 DEF OpenTxn, TypeOK, ReactJob, ReactsToRequest
    <3>2. [request |-> job[t].req, customer |-> requests[job[t].req].customer,
           agent |-> requests[job[t].req].agent, status |-> "IN-PROGRESS", by |-> t] \in Txn
      BY <3>1 DEF ReactJob, Request, Txn
    <3> QED
      BY <2>7, <3>1, <3>2, GoToKeeps DEF OpenTxn, TypeOK, ReactsToRequest
  <2>8. CASE PublishAccept(t)
    BY <2>8, ReturnKeeps DEF PublishAccept, TypeOK, ReactJob, ReactsToRequest
  <2> QED
    BY <1>5, <2>1, <2>2, <2>3, <2>4, <2>5, <2>6, <2>7, <2>8 DEF Step
<1>6. ASSUME NEW t \in Threads, Abort(t) PROVE WellFormed'
  BY <1>6, ReturnKeeps, JobKind DEF Abort, TypeOK, ReactJob, ReactsToRequest
<1>7. ASSUME NEW x \in Txns, CloseTxn(x) PROVE WellFormed'
  BY <1>7 DEF CloseTxn, TypeOK, Txn, ReactsToRequest
<1>8. CASE UNCHANGED vars
  BY <1>8 DEF vars, TypeOK, ReactsToRequest
<1> QED
  BY <1>1, <1>2, <1>3, <1>4, <1>5, <1>6, <1>7, <1>8 DEF Next

(* Every state the handlers reach is well formed.                          *)
THEOREM TypeCorrect == Spec => []TypeOK
<1>1. Spec => []WellFormed
  BY InitWellFormed, NextWellFormed, PTL DEF Spec
<1>2. WellFormed => TypeOK
  BY DEF WellFormed
<1> QED
  BY <1>1, <1>2, PTL

-----------------------------------------------------------------------------
(* Rows persist: a step keeps every row with all but its status, decides or *)
(* closes it at most, and adds a row only where a handler inserts one.      *)

RequestsPersist ==
    \A r \in Requests : requests[r] # Null =>
       /\ requests'[r] # Null
       /\ requests'[r].agent = requests[r].agent
       /\ requests'[r].customer = requests[r].customer
       /\ requests'[r].search = requests[r].search
       /\ requests'[r].by = requests[r].by
       /\ requests'[r].status = "PENDING" => requests[r].status = "PENDING"

TxnsPersist ==
    \A x \in Txns : txns[x] # Null =>
       /\ txns'[x] # Null
       /\ txns'[x].request = txns[x].request
       /\ txns'[x].customer = txns[x].customer
       /\ txns'[x].agent = txns[x].agent
       /\ txns'[x].by = txns[x].by
       /\ txns'[x].status = "IN-PROGRESS" => txns[x].status = "IN-PROGRESS"

LEMMA CloseKeeps ==
    ASSUME TypeOK, NEW x \in Txns, CloseTxn(x)
    PROVE  TxnsPersist /\ \A y \in Txns : txns[y] = Null => txns'[y] = Null
<1> DEFINE row == [txns[x] EXCEPT !.status = "CLOSED"]
<1>1. txns[x] \in Txn /\ txns' = [txns EXCEPT ![x] = row]
  BY DEF CloseTxn, TypeOK
<1>2. /\ row \in Txn
      /\ row.request = txns[x].request
      /\ row.customer = txns[x].customer
      /\ row.agent = txns[x].agent
      /\ row.by = txns[x].by
      /\ row.status = "CLOSED"
  BY <1>1 DEF Txn
<1>3. row # Null
  BY <1>2, MatchingAssumption
<1> HIDE DEF row
<1> QED
  BY <1>1, <1>2, <1>3 DEF CloseTxn, TypeOK, TxnsPersist

LEMMA RowsPersist ==
    ASSUME WellFormed, [Next]_vars
    PROVE  RequestsPersist /\ TxnsPersist
<1> USE DEF WellFormed
<1>1. ASSUME NEW t \in Threads, Step(t) PROVE RequestsPersist /\ TxnsPersist
  <2>1. CASE DispatchInsert(t)
    BY <2>1 DEF DispatchInsert, TypeOK, RequestsPersist, TxnsPersist
  <2>2. CASE Decline(t) \/ Accept(t)
    <3>1. job[t].req \in Requests /\ requests[job[t].req] # Null
      BY <2>2, JobKind DEF Decline, Accept, ReactJob, ReactsToRequest
    <3>2. PICK d \in {"ACCEPTED", "DECLINED"} :
             requests' = [requests EXCEPT ![job[t].req].status = d]
      BY <2>2 DEF Decline, Accept
    <3>3. \A q \in Requests :
             /\ requests'[q] # Null <=> requests[q] # Null
             /\ requests'[q] # Null =>
                  /\ requests'[q].agent = requests[q].agent
                  /\ requests'[q].customer = requests[q].customer
                  /\ requests'[q].search = requests[q].search
                  /\ requests'[q].by = requests[q].by
                  /\ requests'[q].status = IF q = job[t].req THEN d ELSE requests[q].status
      BY <3>1, <3>2, DecisionKeeps
    <3>4. RequestsPersist
      BY <3>3 DEF RequestsPersist
    <3> QED
      BY <2>2, <3>4 DEF Decline, Accept, TxnsPersist
  <2>3. CASE OpenTxn(t)
    BY <2>3 DEF OpenTxn, TypeOK, RequestsPersist, TxnsPersist
  <2>4. CASE requests' = requests /\ txns' = txns
    BY <2>4 DEF RequestsPersist, TxnsPersist
  <2> QED
    BY <1>1, <2>1, <2>2, <2>3, <2>4
       DEF Step, DispatchCheckSent, PublishDecline, CheckCustomer, PublishAccept
<1>2. ASSUME NEW x \in Txns, CloseTxn(x) PROVE RequestsPersist /\ TxnsPersist
  BY <1>2, CloseKeeps DEF CloseTxn, RequestsPersist
<1>3. CASE requests' = requests /\ txns' = txns
  BY <1>3 DEF RequestsPersist, TxnsPersist
<1> QED
  BY <1>1, <1>2, <1>3 DEF Next, vars, Search, ExpireSearch, DispatchLookup, ReactLookup,
     Abort

\* Rows come from one handler each.
LEMMA NewRequest ==
    ASSUME WellFormed, [Next]_vars, NEW r \in Requests, requests[r] = Null, requests'[r] # Null
    PROVE  \E t \in Threads :
              /\ DispatchInsert(t)
              /\ requests'[r].agent = job[t].agent
              /\ requests'[r].customer = job[t].customer
              /\ requests'[r].search = job[t].search
              /\ requests'[r].status = "PENDING"
              /\ requests'[r].by = t
              /\ \A q \in Requests \ {r} : requests'[q] = requests[q]
<1> USE DEF WellFormed
<1>1. ASSUME NEW t \in Threads, Decline(t) \/ Accept(t) PROVE FALSE
  <2>1. job[t].req \in Requests /\ requests[job[t].req] # Null
    BY <1>1, JobKind DEF Decline, Accept, ReactJob, ReactsToRequest
  <2> QED
    BY <1>1, <2>1 DEF Decline, Accept, TypeOK
<1>2. PICK t \in Threads : DispatchInsert(t)
  BY <1>1 DEF Next, Step, vars, Search, ExpireSearch, DispatchLookup, DispatchCheckSent,
     ReactLookup,
              PublishDecline, CheckCustomer, OpenTxn, PublishAccept, Abort, CloseTxn
<1> DEFINE row == [agent |-> job[t].agent, customer |-> job[t].customer,
                   search |-> job[t].search, status |-> "PENDING", by |-> t]
<1>3. PICK q \in Requests : requests' = [requests EXCEPT ![q] = row]
  BY <1>2 DEF DispatchInsert
<1>4. requests'[r] = row /\ \A p \in Requests \ {r} : requests'[p] = requests[p]
  BY <1>3 DEF TypeOK
<1> QED
  BY <1>2, <1>4

LEMMA NewTxn ==
    ASSUME WellFormed, [Next]_vars, NEW x \in Txns, txns[x] = Null, txns'[x] # Null
    PROVE  \E t \in Threads :
              /\ OpenTxn(t)
              /\ txns'[x].request = job[t].req
              /\ txns'[x].customer = requests[job[t].req].customer
              /\ txns'[x].agent = requests[job[t].req].agent
              /\ txns'[x].status = "IN-PROGRESS"
              /\ txns'[x].by = t
              /\ \A y \in Txns \ {x} : txns'[y] = txns[y]
<1> USE DEF WellFormed
<1>1. ~ \E y \in Txns : CloseTxn(y)
  BY CloseKeeps
<1>2. PICK t \in Threads : OpenTxn(t)
  BY <1>1 DEF Next, Step, vars, Search, ExpireSearch, DispatchLookup, DispatchCheckSent,
              DispatchInsert, ReactLookup, PublishDecline, Decline, CheckCustomer, Accept,
              PublishAccept, Abort
<1> DEFINE row == [request |-> job[t].req, customer |-> requests[job[t].req].customer,
                   agent |-> requests[job[t].req].agent, status |-> "IN-PROGRESS", by |-> t]
<1>3. PICK z \in Txns : txns' = [txns EXCEPT ![z] = row]
  BY <1>2 DEF OpenTxn
<1>4. txns'[x] = row /\ \A y \in Txns \ {x} : txns'[y] = txns[y]
  BY <1>3 DEF TypeOK
<1> QED
  BY <1>2, <1>4

-----------------------------------------------------------------------------
(* Transactions follow their requests.                                      *)

DispatchJoinsTwo == \A t \in Threads : job[t] \in DispatchJob => job[t].agent # job[t].customer
RequestJoinsTwo == \A r \in Requests : requests[r] # Null => requests[r].agent # requests[r].customer
DecidedFirst ==
    \A t \in Threads : job[t].at \in {"insert txn", "publish accept"} =>
       requests[job[t].req].status # "PENDING"

AgreementInv ==
    /\ WellFormed
    /\ DispatchJoinsTwo
    /\ RequestJoinsTwo
    /\ DecidedFirst
    /\ TxnFollowsRequest

LEMMA InitAgreement == Init => AgreementInv
<1> SUFFICES ASSUME Init PROVE AgreementInv
  OBVIOUS
<1>1. DispatchJoinsTwo /\ DecidedFirst
  BY DEF Init, DispatchJoinsTwo, DecidedFirst, Idle, DispatchJob
<1>2. RequestJoinsTwo /\ TxnFollowsRequest
  BY DEF Init, RequestJoinsTwo, TxnFollowsRequest
<1> QED
  BY <1>1, <1>2, InitWellFormed DEF AgreementInv

\* How a handler's job changes as it goes on.
LEMMA GoToJob ==
    ASSUME NEW t \in Threads, NEW a, TypeOK, GoTo(t, a)
    PROVE  /\ \A u \in Threads \ {t} : job'[u] = job[u]
           /\ job[t] \in ReactJob => job'[t].at = a /\ job'[t].req = job[t].req
           /\ job[t] \in DispatchJob =>
                 /\ job'[t].at = a
                 /\ job'[t].agent = job[t].agent
                 /\ job'[t].customer = job[t].customer
                 /\ job'[t].search = job[t].search
<1>1. job' = [job EXCEPT ![t] = [job[t] EXCEPT !.at = a]]
  BY DEF GoTo
<1> QED
  BY <1>1 DEF TypeOK, ReactJob, DispatchJob

LEMMA ReturnJob ==
    ASSUME NEW t \in Threads, TypeOK, Return(t)
    PROVE  job'[t] = Idle /\ \A u \in Threads \ {t} : job'[u] = job[u]
BY DEF TypeOK, Return

\* A job that a step changes was started or moved on by its own thread, or ended.
LEMMA JobMoves ==
    ASSUME WellFormed, [Next]_vars, NEW t \in Threads, job'[t] # job[t], job'[t] # Idle
    PROVE  \/ \E c, a \in Users, s \in Searches : DispatchLookup(t, c, a, s)
           \/ \E r \in Requests, reaction \in {"ACCEPTED", "DECLINED"} : ReactLookup(t, r, reaction)
           \/ Step(t)
<1>1. ASSUME NEW u \in Threads, Step(u), u # t PROVE FALSE
  BY <1>1, GoToJob, ReturnJob
     DEF WellFormed, Step, DispatchCheckSent, DispatchInsert, PublishDecline, Decline,
         CheckCustomer, Accept, OpenTxn, PublishAccept
<1>2. ASSUME NEW u \in Threads, Abort(u) PROVE FALSE
  BY <1>2, ReturnJob DEF WellFormed, Abort
<1>3. ASSUME NEW u \in Threads, NEW c \in Users, NEW a \in Users, NEW s \in Searches,
             DispatchLookup(u, c, a, s), u # t
      PROVE  FALSE
  BY <1>3 DEF WellFormed, TypeOK, DispatchLookup
<1>4. ASSUME NEW u \in Threads, NEW r \in Requests, NEW reaction \in {"ACCEPTED", "DECLINED"},
             ReactLookup(u, r, reaction), u # t
      PROVE  FALSE
  BY <1>4 DEF WellFormed, TypeOK, ReactLookup
<1> QED
  BY <1>1, <1>2, <1>3, <1>4 DEF Next, vars, Search, ExpireSearch, CloseTxn

\* The two ways a thread gets to a dispatch, and the ways it gets on in a reaction.
LEMMA DispatchMoves ==
    ASSUME WellFormed, [Next]_vars, NEW t \in Threads, job'[t] \in DispatchJob, job'[t] # job[t]
    PROVE  \/ /\ job'[t].at = "check sent"
              /\ job'[t].agent # job'[t].customer
              /\ search[job'[t].search] # Null
           \/ /\ DispatchCheckSent(t) /\ ~Sent(job[t].agent, job[t].search)
              /\ job[t] \in DispatchJob
              /\ job'[t].at = "insert request"
              /\ job'[t].agent = job[t].agent
              /\ job'[t].customer = job[t].customer
              /\ job'[t].search = job[t].search
<1> USE DEF WellFormed
<1>1. ASSUME NEW c \in Users, NEW a \in Users, NEW s \in Searches, DispatchLookup(t, c, a, s)
      PROVE  /\ job'[t].at = "check sent"
             /\ job'[t].agent # job'[t].customer
             /\ search[job'[t].search] # Null
  <2>1. /\ job'[t].at = "check sent"
        /\ job'[t].agent = a /\ job'[t].customer = c /\ job'[t].search = s
    BY <1>1 DEF DispatchLookup, TypeOK
  <2>2. a # c /\ search[s] # Null
    BY <1>1 DEF DispatchLookup, MayServe, Cached
  <2> QED
    BY <2>1, <2>2
<1>2. ASSUME NEW r \in Requests, NEW reaction \in {"ACCEPTED", "DECLINED"}, ReactLookup(t, r, reaction)
      PROVE  FALSE
  <2>1. job'[t].at \in {"publish decline", "check customer"}
    BY <1>2 DEF ReactLookup, TypeOK
  <2> QED
    BY <2>1 DEF DispatchJob
<1>3. CASE DispatchCheckSent(t)
  BY <1>3, GoToJob, ReturnJob, JobKind, JobAt DEF DispatchCheckSent
<1>4. CASE PublishDecline(t) \/ CheckCustomer(t) \/ Accept(t) \/ OpenTxn(t)
  BY <1>4, GoToJob, ReturnJob, JobKind, JobAt
     DEF PublishDecline, CheckCustomer, Accept, OpenTxn
<1>5. CASE DispatchInsert(t) \/ Decline(t) \/ PublishAccept(t)
  BY <1>5, ReturnJob, JobAt DEF DispatchInsert, Decline, PublishAccept
<1>6. job'[t] # Idle
  BY JobAt
<1> QED
  BY <1>1, <1>2, <1>3, <1>4, <1>5, <1>6, JobMoves DEF Step

LEMMA ReactMoves ==
    ASSUME WellFormed, [Next]_vars, NEW t \in Threads, job'[t] \in ReactJob, job'[t] # job[t]
    PROVE  /\ requests' = requests \/ Accept(t)
           /\ \/ /\ job'[t].at \in {"publish decline", "check customer"}
                 /\ requests[job'[t].req] # Null
                 /\ requests[job'[t].req].status = "PENDING"
                 /\ txns' = txns
              \/ /\ job[t] \in ReactJob
                 /\ job'[t].req = job[t].req
                 /\ \/ PublishDecline(t) /\ job'[t].at = "decline"
                    \/ /\ CheckCustomer(t) /\ job'[t].at = "accept"
                       /\ InProgress(requests[job[t].req].customer) = {}
                    \/ Accept(t) /\ job'[t].at = "insert txn"
                    \/ OpenTxn(t) /\ job'[t].at = "publish accept"
<1> USE DEF WellFormed
<1>1. ASSUME NEW c \in Users, NEW a \in Users, NEW s \in Searches, DispatchLookup(t, c, a, s)
      PROVE  FALSE
  <2>1. job'[t].at = "check sent"
    BY <1>1 DEF DispatchLookup, TypeOK
  <2> QED
    BY <2>1 DEF ReactJob
<1>2. ASSUME NEW r \in Requests, NEW reaction \in {"ACCEPTED", "DECLINED"}, ReactLookup(t, r, reaction)
      PROVE  /\ requests' = requests /\ txns' = txns
             /\ job'[t].at \in {"publish decline", "check customer"}
             /\ requests[job'[t].req] # Null
             /\ requests[job'[t].req].status = "PENDING"
  <2>1. job'[t].at \in {"publish decline", "check customer"} /\ job'[t].req = r
    BY <1>2 DEF ReactLookup, TypeOK
  <2> QED
    BY <1>2, <2>1 DEF ReactLookup
<1>3. ASSUME DispatchCheckSent(t) PROVE FALSE
  BY <1>3, GoToJob, ReturnJob, JobKind, JobAt DEF DispatchCheckSent
<1>4. CASE PublishDecline(t)
  BY <1>4, GoToJob, JobKind DEF PublishDecline
<1>5. CASE CheckCustomer(t)
  BY <1>5, GoToJob, ReturnJob, JobKind, JobAt DEF CheckCustomer
<1>6. CASE Accept(t)
  BY <1>6, GoToJob, JobKind DEF Accept
<1>7. CASE OpenTxn(t)
  BY <1>7, GoToJob, JobKind DEF OpenTxn
<1>8. ASSUME DispatchInsert(t) \/ Decline(t) \/ PublishAccept(t) PROVE FALSE
  BY <1>8, ReturnJob, JobAt DEF DispatchInsert, Decline, PublishAccept
<1>9. job'[t] # Idle
  BY JobAt
<1> QED
  BY <1>1, <1>2, <1>3, <1>4, <1>5, <1>6, <1>7, <1>8, <1>9, JobMoves DEF Step

LEMMA NextAgreement == AgreementInv /\ [Next]_vars => AgreementInv'
<1> SUFFICES ASSUME AgreementInv, [Next]_vars PROVE AgreementInv'
  OBVIOUS
<1>1. WellFormed /\ WellFormed' /\ RequestsPersist /\ TxnsPersist
  BY NextWellFormed, RowsPersist DEF AgreementInv
<1>2. ASSUME NEW t \in Threads, job'[t] \in DispatchJob
      PROVE  job'[t].agent # job'[t].customer
  BY <1>1, <1>2, DispatchMoves DEF AgreementInv, DispatchJoinsTwo
<1>3. ASSUME NEW r \in Requests, requests'[r] # Null
      PROVE  requests'[r].agent # requests'[r].customer
  <2>1. CASE requests[r] # Null
    BY <2>1, <1>1 DEF RequestsPersist, AgreementInv, RequestJoinsTwo
  <2>2. CASE requests[r] = Null
    <3>1. PICK t \in Threads : /\ DispatchInsert(t)
                               /\ requests'[r].agent = job[t].agent
                               /\ requests'[r].customer = job[t].customer
      BY <1>3, <2>2, NewRequest, <1>1
    <3>2. job[t] \in DispatchJob
      BY <3>1, <1>1, JobKind DEF DispatchInsert, WellFormed
    <3> QED
      BY <3>1, <3>2 DEF AgreementInv, DispatchJoinsTwo
  <2> QED
    BY <2>1, <2>2
<1>4. ASSUME NEW t \in Threads, job'[t].at \in {"insert txn", "publish accept"}
      PROVE  requests'[job'[t].req].status # "PENDING"
  <2>1. job'[t] \in ReactJob /\ requests'[job'[t].req] # Null
    BY <1>1, <1>4, JobAt DEF WellFormed, TypeOK, ReactsToRequest
  <2>2. CASE job'[t] = job[t]
    BY <1>1, <1>4, <2>1, <2>2
       DEF RequestsPersist, AgreementInv, DecidedFirst, WellFormed, ReactsToRequest, ReactJob
  <2>3. CASE Accept(t) /\ job'[t].req = job[t].req /\ job[t] \in ReactJob
    <3>1. job[t].req \in Requests /\ requests[job[t].req] # Null
      BY <1>1, <2>3 DEF WellFormed, ReactsToRequest, ReactJob
    <3>2. requests'[job[t].req].status = "ACCEPTED"
      BY <1>1, <2>3, <3>1, DecisionKeeps DEF Accept, WellFormed
    <3> QED
      BY <2>3, <3>2
  <2>4. CASE OpenTxn(t) /\ job'[t].req = job[t].req /\ job[t] \in ReactJob
    BY <2>4 DEF OpenTxn, AgreementInv, DecidedFirst
  <2> QED
    BY <1>1, <1>4, <2>1, <2>2, <2>3, <2>4, ReactMoves
<1>5. TxnFollowsRequest'
  <2> SUFFICES ASSUME NEW x \in Txns, txns'[x] # Null
               PROVE  LET r == txns'[x].request IN
                      /\ requests'[r] # Null
                      /\ requests'[r].status # "PENDING"
                      /\ txns'[x].customer = requests'[r].customer
                      /\ txns'[x].agent = requests'[r].agent
                      /\ txns'[x].customer # txns'[x].agent
    BY DEF TxnFollowsRequest
  <2>1. CASE txns[x] # Null
    <3>1. txns[x].request \in Requests
      BY <1>1, <2>1 DEF WellFormed, TypeOK, Txn
    <3> QED
      BY <1>1, <2>1, <3>1 DEF RequestsPersist, TxnsPersist, AgreementInv, TxnFollowsRequest
  <2>2. CASE txns[x] = Null
    <3>1. PICK t \in Threads :
             /\ OpenTxn(t)
             /\ txns'[x].request = job[t].req
             /\ txns'[x].customer = requests[job[t].req].customer
             /\ txns'[x].agent = requests[job[t].req].agent
      BY <1>1, <2>2, NewTxn
    <3>2. job[t].req \in Requests /\ requests[job[t].req] # Null
      BY <1>1, <3>1, JobKind DEF OpenTxn, WellFormed, ReactsToRequest, ReactJob
    <3> QED
      BY <3>1, <3>2 DEF OpenTxn, AgreementInv, DecidedFirst, RequestJoinsTwo
  <2> QED
    BY <2>1, <2>2
<1> QED
  BY <1>1, <1>2, <1>3, <1>4, <1>5 DEF AgreementInv, DispatchJoinsTwo, RequestJoinsTwo,
     DecidedFirst

(* Every transaction joins the two parties of a decided request.           *)
THEOREM TxnsFollowRequests == Spec => []TxnFollowsRequest
<1>1. Spec => []AgreementInv
  BY InitAgreement, NextAgreement, PTL DEF Spec
<1>2. AgreementInv => TxnFollowsRequest
  BY DEF AgreementInv
<1> QED
  BY <1>1, <1>2, PTL

-----------------------------------------------------------------------------
(* A thread's own dispatches never repeat: when it is about to insert, none *)
(* of its rows has that agent and search.                                   *)

NotSentByMe ==
    \A t \in Threads, p \in Requests :
       (job[t].at = "insert request" /\ requests[p] # Null /\ requests[p].by = t) =>
          ~ (requests[p].agent = job[t].agent /\ requests[p].search = job[t].search)

DispatchInv == WellFormed /\ NotSentByMe /\ OnlyOverlapDoublesDispatch

LEMMA InitDispatch == Init => DispatchInv
BY InitWellFormed DEF Init, DispatchInv, NotSentByMe, OnlyOverlapDoublesDispatch

LEMMA NextDispatch == DispatchInv /\ [Next]_vars => DispatchInv'
<1> SUFFICES ASSUME DispatchInv, [Next]_vars PROVE DispatchInv'
  OBVIOUS
<1>1. WellFormed /\ WellFormed' /\ RequestsPersist
  BY NextWellFormed, RowsPersist DEF DispatchInv
<1>2. ASSUME NEW t \in Threads, NEW p \in Requests,
             job'[t].at = "insert request", requests'[p] # Null, requests'[p].by = t
      PROVE  ~ (requests'[p].agent = job'[t].agent /\ requests'[p].search = job'[t].search)
  <2>1. job'[t] \in DispatchJob
    BY <1>1, <1>2, JobAt DEF WellFormed, TypeOK
  <2>2. CASE requests[p] = Null
    <3>1. DispatchInsert(t)
      BY <1>1, <1>2, <2>2, NewRequest
    <3> QED
      BY <1>1, <1>2, <3>1, ReturnJob, JobAt DEF DispatchInsert, WellFormed
  <2>3. CASE requests[p] # Null /\ job'[t] = job[t]
    <3>1. /\ requests[p].by = t
          /\ requests'[p].agent = requests[p].agent
          /\ requests'[p].search = requests[p].search
      BY <1>1, <1>2, <2>3 DEF RequestsPersist
    <3> QED
      BY <1>2, <2>3, <3>1 DEF DispatchInv, NotSentByMe
  <2>4. CASE requests[p] # Null /\ job'[t] # job[t]
    <3>1. /\ DispatchCheckSent(t) /\ ~Sent(job[t].agent, job[t].search)
          /\ job'[t].agent = job[t].agent /\ job'[t].search = job[t].search
      BY <1>1, <1>2, <2>1, <2>4, DispatchMoves
    <3> QED
      BY <2>4, <3>1 DEF DispatchCheckSent, Sent
  <2> QED
    BY <2>2, <2>3, <2>4
<1>3. ASSUME NEW p \in Requests, NEW q \in Requests, p # q, requests'[p] # Null,
             requests'[q] # Null, requests[p] = Null, requests'[p].by = requests'[q].by
      PROVE  ~ (requests'[p].agent = requests'[q].agent /\ requests'[p].search = requests'[q].search)
  <2>1. PICK t \in Threads : /\ DispatchInsert(t)
                             /\ requests'[p].agent = job[t].agent
                             /\ requests'[p].search = job[t].search
                             /\ requests'[p].by = t
                             /\ requests'[q] = requests[q]
    BY <1>1, <1>3, NewRequest
  <2>2. job[t].at = "insert request" /\ requests[q] # Null /\ requests[q].by = t
    BY <1>3, <2>1 DEF DispatchInsert
  <2>3. ~ (requests[q].agent = job[t].agent /\ requests[q].search = job[t].search)
    BY <2>2 DEF DispatchInv, NotSentByMe
  <2> QED
    BY <2>1, <2>3
<1>4. OnlyOverlapDoublesDispatch'
  <2> SUFFICES ASSUME NEW p \in Requests, NEW q \in Requests,
                      requests'[p] # Null, requests'[q] # Null, p # q
               PROVE  ~ /\ requests'[p].agent = requests'[q].agent
                        /\ requests'[p].search = requests'[q].search
                        /\ requests'[p].by = requests'[q].by
    BY DEF OnlyOverlapDoublesDispatch
  <2>1. CASE requests[p] = Null \/ requests[q] = Null
    BY <1>3, <2>1
  <2>2. CASE requests[p] # Null /\ requests[q] # Null
    BY <1>1, <2>2 DEF DispatchInv, OnlyOverlapDoublesDispatch, RequestsPersist
  <2> QED
    BY <2>1, <2>2
<1> QED
  BY <1>1, <1>2, <1>4 DEF DispatchInv, NotSentByMe

(* No two dispatches of one thread reach the same agent for one search.     *)
THEOREM DispatchDoublesOverlap == Spec => []OnlyOverlapDoublesDispatch
<1>1. Spec => []DispatchInv
  BY InitDispatch, NextDispatch, PTL DEF Spec
<1>2. DispatchInv => OnlyOverlapDoublesDispatch
  BY DEF DispatchInv
<1> QED
  BY <1>1, <1>2, PTL

-----------------------------------------------------------------------------
(* A thread's own reactions never open two transactions of one request, nor *)
(* two open transactions of one customer.  A reaction on its way has opened *)
(* none for its request; once past the busy check its thread has none open  *)
(* for the customer, as only the thread itself could add one.               *)

NotOpenedByMe ==
    \A t \in Threads, x \in Txns :
       /\ job[t].at \in {"publish decline", "decline", "check customer", "accept", "insert txn"}
       /\ txns[x] # Null
       /\ txns[x].by = t
       => txns[x].request # job[t].req

CustomerFreeOfMine ==
    \A t \in Threads, x \in Txns :
       /\ job[t].at \in {"accept", "insert txn"}
       /\ txns[x] # Null
       /\ txns[x].by = t
       /\ txns[x].status = "IN-PROGRESS"
       => txns[x].customer # requests[job[t].req].customer

OpeningInv ==
    /\ AgreementInv
    /\ NotOpenedByMe
    /\ CustomerFreeOfMine
    /\ OnlyOverlapDoublesTxns

LEMMA InitOpening == Init => OpeningInv
BY InitAgreement
   DEF Init, OpeningInv, NotOpenedByMe, CustomerFreeOfMine, OnlyOverlapDoublesTxns

LEMMA NextOpening == OpeningInv /\ [Next]_vars => OpeningInv'
<1> SUFFICES ASSUME OpeningInv, [Next]_vars PROVE OpeningInv'
  OBVIOUS
<1>1. /\ AgreementInv /\ AgreementInv' /\ WellFormed /\ WellFormed'
      /\ RequestsPersist /\ TxnsPersist
  BY NextAgreement, RowsPersist DEF OpeningInv, AgreementInv
<1>2. ASSUME NEW t \in Threads, NEW x \in Txns, txns'[x] # Null, txns'[x].by = t,
             job'[t].at \in {"publish decline", "decline", "check customer", "accept", "insert txn"}
      PROVE  /\ txns[x] # Null
             /\ job'[t] \in ReactJob
  <2>1. job'[t] \in ReactJob
    BY <1>1, <1>2, JobAt DEF WellFormed, TypeOK
  <2>2. ASSUME txns[x] = Null PROVE FALSE
    <3>1. OpenTxn(t)
      BY <1>1, <1>2, <2>2, NewTxn
    <3>2. job'[t].at = "publish accept"
      BY <1>1, <3>1, GoToJob, JobKind DEF OpenTxn, WellFormed
    <3> QED
      BY <1>2, <3>2
  <2> QED
    BY <2>1, <2>2
<1>3. NotOpenedByMe'
  <2> SUFFICES ASSUME NEW t \in Threads, NEW x \in Txns, txns'[x] # Null, txns'[x].by = t,
                      job'[t].at \in {"publish decline", "decline", "check customer",
                                      "accept", "insert txn"}
               PROVE  txns'[x].request # job'[t].req
    BY DEF NotOpenedByMe
  <2>1. /\ txns[x] # Null /\ job'[t] \in ReactJob
        /\ txns'[x].request = txns[x].request /\ txns[x].by = t
    BY <1>1, <1>2 DEF TxnsPersist
  <2>2. CASE job'[t] = job[t]
    BY <2>1, <2>2 DEF OpeningInv, NotOpenedByMe
  <2>3. CASE requests[job'[t].req].status = "PENDING"
    BY <1>1, <2>1, <2>3 DEF AgreementInv, TxnFollowsRequest
  <2>4. CASE job'[t].req = job[t].req /\ (PublishDecline(t) \/ CheckCustomer(t) \/ Accept(t))
    BY <2>1, <2>4 DEF PublishDecline, CheckCustomer, Accept, OpeningInv, NotOpenedByMe
  <2> QED
    BY <1>1, <2>1, <2>2, <2>3, <2>4, ReactMoves
<1>4. CustomerFreeOfMine'
  <2> SUFFICES ASSUME NEW t \in Threads, NEW x \in Txns, txns'[x] # Null, txns'[x].by = t,
                      txns'[x].status = "IN-PROGRESS", job'[t].at \in {"accept", "insert txn"}
               PROVE  txns'[x].customer # requests'[job'[t].req].customer
    BY DEF CustomerFreeOfMine
  <2>1. /\ txns[x] # Null /\ job'[t] \in ReactJob
        /\ txns'[x].customer = txns[x].customer /\ txns[x].by = t
        /\ txns[x].status = "IN-PROGRESS"
    BY <1>1, <1>2 DEF TxnsPersist
  <2>2. CASE job'[t] = job[t]
    <3>1. requests'[job[t].req].customer = requests[job[t].req].customer
      BY <1>1, <2>1, <2>2 DEF RequestsPersist, WellFormed, ReactsToRequest, ReactJob
    <3> QED
      BY <2>1, <2>2, <3>1 DEF OpeningInv, CustomerFreeOfMine
  <2>3. CASE /\ CheckCustomer(t) /\ job'[t].req = job[t].req
             /\ InProgress(requests[job[t].req].customer) = {}
    <3>1. requests' = requests
      BY <2>3 DEF CheckCustomer
    <3> QED
      BY <2>1, <2>3, <3>1 DEF InProgress
  <2>4. CASE Accept(t) /\ job'[t].req = job[t].req /\ job[t] \in ReactJob
    <3>1. requests'[job[t].req].customer = requests[job[t].req].customer
      BY <1>1, <2>4 DEF RequestsPersist, WellFormed, ReactsToRequest, ReactJob
    <3> QED
      BY <2>1, <2>4, <3>1 DEF Accept, OpeningInv, CustomerFreeOfMine
  <2> QED
    BY <1>1, <2>1, <2>2, <2>3, <2>4, ReactMoves
<1>5. ASSUME NEW x \in Txns, NEW y \in Txns, x # y, txns'[x] # Null, txns'[y] # Null,
             txns[x] = Null, txns'[x].by = txns'[y].by
      PROVE  /\ txns'[x].request # txns'[y].request
             /\ ~ /\ txns'[x].customer = txns'[y].customer
                  /\ txns'[y].status = "IN-PROGRESS"
  <2>1. PICK t \in Threads : /\ OpenTxn(t)
                             /\ txns'[x].request = job[t].req
                             /\ txns'[x].customer = requests[job[t].req].customer
                             /\ txns'[x].by = t
                             /\ txns'[y] = txns[y]
    BY <1>1, <1>5, NewTxn
  <2>2. job[t].at = "insert txn" /\ txns[y] # Null /\ txns[y].by = t
    BY <1>5, <2>1 DEF OpenTxn
  <2>3. txns[y].request # job[t].req
    BY <2>2 DEF OpeningInv, NotOpenedByMe
  <2>4. txns[y].status = "IN-PROGRESS" => txns[y].customer # requests[job[t].req].customer
    BY <2>2 DEF OpeningInv, CustomerFreeOfMine
  <2> QED
    BY <2>1, <2>3, <2>4
<1>6. OnlyOverlapDoublesTxns'
  <2> SUFFICES ASSUME NEW x \in Txns, NEW y \in Txns, txns'[x] # Null, txns'[y] # Null,
                      x # y, txns'[x].by = txns'[y].by
               PROVE  /\ txns'[x].request # txns'[y].request
                      /\ ~ /\ txns'[x].customer = txns'[y].customer
                           /\ txns'[x].status = "IN-PROGRESS"
                           /\ txns'[y].status = "IN-PROGRESS"
    BY DEF OnlyOverlapDoublesTxns
  <2>1. CASE txns[x] = Null \/ txns[y] = Null
    BY <1>5, <2>1
  <2>2. CASE txns[x] # Null /\ txns[y] # Null
    BY <1>1, <2>2 DEF OpeningInv, OnlyOverlapDoublesTxns, TxnsPersist
  <2> QED
    BY <2>1, <2>2
<1> QED
  BY <1>1, <1>3, <1>4, <1>6 DEF OpeningInv

(* Double transactions come only from reactions that overlapped.            *)
THEOREM TxnDoublesOverlap == Spec => []OnlyOverlapDoublesTxns
<1>1. Spec => []OpeningInv
  BY InitOpening, NextOpening, PTL DEF Spec
<1>2. OpeningInv => OnlyOverlapDoublesTxns
  BY DEF OpeningInv
<1> QED
  BY <1>1, <1>2, PTL

-----------------------------------------------------------------------------
(* What a lock would give.  The code claims one open transaction for a      *)
(* customer (serializers.py:270) and run matching_busy shows it broken by   *)
(* two reactions that overlap.  Nothing else breaks it: if reactions to the *)
(* requests of one customer take turns, by whatever means, the claim holds, *)
(* with searches, dispatches and reactions for others overlapping freely.   *)

TurnsPerCustomer ==
    \A t, u \in Threads :
       (t # u /\ job[t] \in ReactJob /\ job[u] \in ReactJob) =>
          requests[job[t].req].customer # requests[job[u].req].customer

OneTxnPerRequest ==
    \A x, y \in Txns :
       (x # y /\ txns[x] # Null /\ txns[y] # Null) => txns[x].request # txns[y].request

NotOpenedYet ==
    \A t \in Threads, x \in Txns :
       /\ job[t].at \in {"publish decline", "decline", "check customer", "accept", "insert txn"}
       /\ txns[x] # Null
       => txns[x].request # job[t].req

CustomerFree ==
    \A t \in Threads, x \in Txns :
       /\ job[t].at \in {"accept", "insert txn"}
       /\ txns[x] # Null
       /\ txns[x].status = "IN-PROGRESS"
       => txns[x].customer # requests[job[t].req].customer

OpenOncePerCustomer ==
    \A x, y \in Txns :
       /\ x # y /\ txns[x] # Null /\ txns[y] # Null
       /\ txns[x].status = "IN-PROGRESS" /\ txns[y].status = "IN-PROGRESS"
       => txns[x].customer # txns[y].customer

TurnsInv ==
    /\ AgreementInv
    /\ NotOpenedYet
    /\ CustomerFree
    /\ OneTxnPerRequest
    /\ OpenOncePerCustomer

LEMMA InitTurns == Init => TurnsInv
BY InitAgreement
   DEF Init, TurnsInv, NotOpenedYet, CustomerFree, OneTxnPerRequest, OpenOncePerCustomer

\* A transaction opened while another reaction is on its way is for another
\* customer, and so for another request.
LEMMA OpenedForAnother ==
    ASSUME AgreementInv, TurnsPerCustomer, [Next]_vars, NEW t \in Threads, NEW x \in Txns,
           job'[t].at \in {"publish decline", "decline", "check customer", "accept", "insert txn"},
           txns[x] = Null, txns'[x] # Null
    PROVE  /\ job'[t] = job[t]
           /\ txns'[x].customer # requests[job[t].req].customer
           /\ txns'[x].request # job[t].req
<1>1. WellFormed /\ WellFormed'
  BY NextWellFormed DEF AgreementInv
<1>2. PICK u \in Threads : /\ OpenTxn(u)
                           /\ txns'[x].request = job[u].req
                           /\ txns'[x].customer = requests[job[u].req].customer
  BY <1>1, NewTxn
<1>3. job[u] \in ReactJob /\ job'[u].at = "publish accept"
  BY <1>1, <1>2, GoToJob, JobKind DEF OpenTxn, WellFormed
<1>4. t # u
  BY <1>3
<1>5. job'[t] = job[t]
  BY <1>1, <1>2, <1>4, GoToJob DEF OpenTxn, WellFormed
<1>6. job[t] \in ReactJob
  BY <1>1, <1>5, JobKind DEF WellFormed
<1>7. requests[job[t].req].customer # requests[job[u].req].customer
  BY <1>3, <1>4, <1>6 DEF TurnsPerCustomer
<1> QED
  BY <1>2, <1>5, <1>7

LEMMA NextNotOpenedYet ==
    ASSUME TurnsInv, TurnsPerCustomer, [Next]_vars PROVE NotOpenedYet'
<1>1. AgreementInv /\ WellFormed /\ WellFormed' /\ TxnsPersist
  BY NextWellFormed, RowsPersist DEF TurnsInv, AgreementInv
<1> SUFFICES ASSUME NEW t \in Threads, NEW x \in Txns, txns'[x] # Null,
                    job'[t].at \in {"publish decline", "decline", "check customer",
                                    "accept", "insert txn"}
             PROVE  txns'[x].request # job'[t].req
  BY DEF NotOpenedYet
<1>2. CASE txns[x] = Null
  BY <1>1, <1>2, OpenedForAnother
<1>3. CASE txns[x] # Null
  <2>1. job'[t] \in ReactJob /\ txns'[x].request = txns[x].request
    BY <1>1, <1>3, JobAt DEF WellFormed, TypeOK, TxnsPersist
  <2>2. CASE job'[t] = job[t]
    BY <1>3, <2>1, <2>2 DEF TurnsInv, NotOpenedYet
  <2>3. CASE requests[job'[t].req].status = "PENDING"
    BY <1>1, <1>3, <2>1, <2>3 DEF AgreementInv, TxnFollowsRequest
  <2>4. CASE job'[t].req = job[t].req /\ (PublishDecline(t) \/ CheckCustomer(t) \/ Accept(t))
    BY <1>3, <2>1, <2>4 DEF PublishDecline, CheckCustomer, Accept, TurnsInv, NotOpenedYet
  <2> QED
    BY <1>1, <2>1, <2>2, <2>3, <2>4, ReactMoves
<1> QED
  BY <1>2, <1>3

LEMMA NextCustomerFree ==
    ASSUME TurnsInv, TurnsPerCustomer, [Next]_vars PROVE CustomerFree'
<1>1. AgreementInv /\ WellFormed /\ WellFormed' /\ RequestsPersist /\ TxnsPersist
  BY NextWellFormed, RowsPersist DEF TurnsInv, AgreementInv
<1> SUFFICES ASSUME NEW t \in Threads, NEW x \in Txns, txns'[x] # Null,
                    txns'[x].status = "IN-PROGRESS", job'[t].at \in {"accept", "insert txn"}
             PROVE  txns'[x].customer # requests'[job'[t].req].customer
  BY DEF CustomerFree
<1>2. job'[t] \in ReactJob
  BY <1>1, JobAt DEF WellFormed, TypeOK
<1>3. job[t] \in ReactJob => requests'[job[t].req].customer = requests[job[t].req].customer
  BY <1>1 DEF RequestsPersist, WellFormed, ReactsToRequest, ReactJob
<1>4. CASE txns[x] = Null
  BY <1>1, <1>2, <1>3, <1>4, OpenedForAnother
<1>5. CASE txns[x] # Null
  <2>1. txns'[x].customer = txns[x].customer /\ txns[x].status = "IN-PROGRESS"
    BY <1>1, <1>5 DEF TxnsPersist
  <2>2. CASE job'[t] = job[t]
    BY <1>2, <1>3, <1>5, <2>1, <2>2 DEF TurnsInv, CustomerFree
  <2>3. CASE /\ job[t] \in ReactJob /\ job'[t].req = job[t].req
             /\ InProgress(requests[job[t].req].customer) = {}
    BY <1>3, <1>5, <2>1, <2>3 DEF InProgress
  <2>4. CASE job[t] \in ReactJob /\ Accept(t) /\ job'[t].req = job[t].req
    BY <1>3, <1>5, <2>1, <2>4 DEF Accept, TurnsInv, CustomerFree
  <2> QED
    BY <1>1, <1>2, <2>2, <2>3, <2>4, ReactMoves
<1> QED
  BY <1>4, <1>5

\* A new transaction meets no other of its request, and no open one of its customer.
LEMMA OpensFirst ==
    ASSUME TurnsInv, [Next]_vars, NEW x \in Txns, NEW y \in Txns, x # y,
           txns[x] = Null, txns'[x] # Null, txns'[y] # Null
    PROVE  /\ txns'[x].request # txns'[y].request
           /\ txns'[y].status = "IN-PROGRESS" => txns'[x].customer # txns'[y].customer
<1>1. PICK t \in Threads : /\ OpenTxn(t)
                           /\ txns'[x].request = job[t].req
                           /\ txns'[x].customer = requests[job[t].req].customer
                           /\ txns'[y] = txns[y]
  BY NewTxn DEF TurnsInv, AgreementInv
<1> QED
  BY <1>1 DEF OpenTxn, TurnsInv, NotOpenedYet, CustomerFree

LEMMA NextTurns == TurnsInv /\ TurnsPerCustomer /\ [Next]_vars => TurnsInv'
<1> SUFFICES ASSUME TurnsInv, TurnsPerCustomer, [Next]_vars PROVE TurnsInv'
  OBVIOUS
<1>1. AgreementInv' /\ TxnsPersist
  BY NextAgreement, RowsPersist DEF TurnsInv, AgreementInv
<1>2. ASSUME NEW x \in Txns, NEW y \in Txns, x # y, txns'[x] # Null, txns'[y] # Null
      PROVE  /\ txns'[x].request # txns'[y].request
             /\ (txns'[x].status = "IN-PROGRESS" /\ txns'[y].status = "IN-PROGRESS") =>
                   txns'[x].customer # txns'[y].customer
  <2>1. CASE txns[x] = Null \/ txns[y] = Null
    BY <1>2, <2>1, OpensFirst
  <2>2. CASE txns[x] # Null /\ txns[y] # Null
    BY <1>1, <1>2, <2>2 DEF TurnsInv, OneTxnPerRequest, OpenOncePerCustomer, TxnsPersist
  <2> QED
    BY <2>1, <2>2
<1>3. OneTxnPerRequest' /\ OpenOncePerCustomer'
  BY <1>2 DEF OneTxnPerRequest, OpenOncePerCustomer
<1> QED
  BY <1>1, <1>3, NextNotOpenedYet, NextCustomerFree DEF TurnsInv

\* A set without two elements has at most one.
LEMMA AtMostOne ==
    ASSUME NEW S, \A x, y \in S : x = y
    PROVE  Cardinality(S) <= 1
<1>1. CASE S = {}
  BY <1>1, FS_EmptySet
<1>2. CASE S # {}
  <2>1. PICK x \in S : TRUE
    BY <1>2
  <2>2. S = {x}
    BY <2>1
  <2> QED
    BY <2>2, FS_Singleton
<1> QED
  BY <1>1, <1>2

LEMMA TurnsAlways == Spec /\ []TurnsPerCustomer => []TurnsInv
BY InitTurns, NextTurns, PTL DEF Spec

(* When reactions for one customer take turns, a customer has one open      *)
(* transaction and a request opens one: the overlap run matching_busy shows *)
(* is the only way to two.                                                  *)
THEOREM TurnsKeepOneOpen ==
    Spec /\ []TurnsPerCustomer => [](OneOpenTxnPerCustomer /\ OneTxnPerRequest)
<1>1. ASSUME TurnsInv PROVE OneOpenTxnPerCustomer /\ OneTxnPerRequest
  <2>1. ASSUME NEW c \in Users PROVE Cardinality(InProgress(c)) <= 1
    <3>1. \A x, y \in InProgress(c) : x = y
      BY <1>1 DEF TurnsInv, OpenOncePerCustomer, InProgress
    <3> QED
      BY <3>1, AtMostOne
  <2> QED
    BY <1>1, <2>1 DEF OneOpenTxnPerCustomer, TurnsInv
<1> QED
  BY TurnsAlways, <1>1, PTL

-----------------------------------------------------------------------------
(* The same for the dispatch: the look-up of earlier requests is enough     *)
(* when dispatches of one search to one agent take turns.                   *)

TurnsPerAgent ==
    \A t, u \in Threads :
       (t # u /\ job[t] \in DispatchJob /\ job[u] \in DispatchJob) =>
          job[t].agent # job[u].agent \/ job[t].search # job[u].search

AgentHearsOnce ==
    \A p, q \in Requests :
       (p # q /\ requests[p] # Null /\ requests[q] # Null) =>
          requests[p].agent # requests[q].agent \/ requests[p].search # requests[q].search

NotSentYet ==
    \A t \in Threads : job[t].at = "insert request" => ~Sent(job[t].agent, job[t].search)

HearingInv == WellFormed /\ NotSentYet /\ AgentHearsOnce

LEMMA InitHearing == Init => HearingInv
BY InitWellFormed, JobAt DEF Init, HearingInv, NotSentYet, AgentHearsOnce, Sent

LEMMA NextHearing == HearingInv /\ TurnsPerAgent /\ [Next]_vars => HearingInv'
<1> SUFFICES ASSUME HearingInv, TurnsPerAgent, [Next]_vars PROVE HearingInv'
  OBVIOUS
<1>1. WellFormed /\ WellFormed' /\ RequestsPersist
  BY NextWellFormed, RowsPersist DEF HearingInv
<1>2. ASSUME NEW t \in Threads, NEW p \in Requests,
             job'[t].at = "insert request", requests'[p] # Null
      PROVE  requests'[p].agent # job'[t].agent \/ requests'[p].search # job'[t].search
  <2>1. job'[t] \in DispatchJob
    BY <1>1, <1>2, JobAt DEF WellFormed, TypeOK
  <2>2. CASE requests[p] = Null
    <3>1. PICK u \in Threads : /\ DispatchInsert(u)
                               /\ requests'[p].agent = job[u].agent
                               /\ requests'[p].search = job[u].search
      BY <1>1, <1>2, <2>2, NewRequest
    <3>2. /\ job[u] \in DispatchJob /\ job'[u] = Idle
          /\ \A v \in Threads \ {u} : job'[v] = job[v]
      BY <1>1, <3>1, JobKind, ReturnJob DEF DispatchInsert, WellFormed
    <3>3. t # u
      BY <1>2, <3>2, JobAt
    <3> QED
      BY <2>1, <3>1, <3>2, <3>3 DEF TurnsPerAgent
  <2>3. CASE requests[p] # Null
    <3>1. /\ requests'[p].agent = requests[p].agent
          /\ requests'[p].search = requests[p].search
      BY <1>1, <2>3 DEF RequestsPersist
    <3>2. CASE job'[t] = job[t]
      BY <1>2, <2>3, <3>1, <3>2 DEF HearingInv, NotSentYet, Sent
    <3>3. CASE job'[t] # job[t]
      BY <1>1, <1>2, <2>1, <2>3, <3>1, <3>3, DispatchMoves DEF Sent
    <3> QED
      BY <3>2, <3>3
  <2> QED
    BY <2>2, <2>3
<1>3. ASSUME NEW p \in Requests, NEW q \in Requests, p # q, requests'[p] # Null,
             requests'[q] # Null, requests[p] = Null
      PROVE  requests'[p].agent # requests'[q].agent \/ requests'[p].search # requests'[q].search
  <2>1. PICK t \in Threads : /\ DispatchInsert(t)
                             /\ requests'[p].agent = job[t].agent
                             /\ requests'[p].search = job[t].search
                             /\ requests'[q] = requests[q]
    BY <1>1, <1>3, NewRequest
  <2> QED
    BY <1>3, <2>1 DEF DispatchInsert, HearingInv, NotSentYet, Sent
<1>4. AgentHearsOnce'
  <2> SUFFICES ASSUME NEW p \in Requests, NEW q \in Requests, p # q,
                      requests'[p] # Null, requests'[q] # Null
               PROVE  \/ requests'[p].agent # requests'[q].agent
                      \/ requests'[p].search # requests'[q].search
    BY DEF AgentHearsOnce
  <2>1. CASE requests[p] = Null \/ requests[q] = Null
    BY <1>3, <2>1
  <2>2. CASE requests[p] # Null /\ requests[q] # Null
    BY <1>1, <2>2 DEF HearingInv, AgentHearsOnce, RequestsPersist
  <2> QED
    BY <2>1, <2>2
<1> QED
  BY <1>1, <1>2, <1>4 DEF HearingInv, NotSentYet, Sent

(* When dispatches of one search to one agent take turns, the agent hears   *)
(* of the search once.                                                      *)
THEOREM TurnsKeepOneRequest == Spec /\ []TurnsPerAgent => []AgentHearsOnce
<1>1. Spec /\ []TurnsPerAgent => []HearingInv
  BY InitHearing, NextHearing, PTL DEF Spec
<1>2. HearingInv => AgentHearsOnce
  BY DEF HearingInv
<1> QED
  BY <1>1, <1>2, PTL

-----------------------------------------------------------------------------
(* Acceptances and their transactions.                                      *)

ToldAfterOpening ==
    \A t \in Threads : job[t].at = "publish accept" => Opened(job[t].req) # {}

AcceptanceInv ==
    /\ WellFormed
    /\ AcceptedHasTxn
    /\ ToldAfterOpening
    /\ ToldAcceptedHasTxn

LEMMA InitAcceptance == Init => AcceptanceInv
<1> SUFFICES ASSUME Init PROVE AcceptanceInv
  OBVIOUS
<1>1. AcceptedHasTxn /\ ToldAcceptedHasTxn
  BY DEF Init, AcceptedHasTxn, ToldAcceptedHasTxn
<1>2. ToldAfterOpening
  BY JobAt DEF Init, ToldAfterOpening
<1> QED
  BY <1>1, <1>2, InitWellFormed DEF AcceptanceInv

LEMMA OpenedPersists ==
    ASSUME TxnsPersist, NEW r, Opened(r) # {} PROVE Opened(r)' # {}
BY DEF Opened, TxnsPersist

\* Only the acceptance of a request makes it ACCEPTED.
LEMMA Accepting ==
    ASSUME WellFormed, [Next]_vars, NEW r \in Requests,
           requests'[r] # Null, requests'[r].status = "ACCEPTED",
           requests[r] = Null \/ requests[r].status # "ACCEPTED"
    PROVE  \E t \in Threads : Accept(t) /\ job[t].req = r
<1>1. requests[r] # Null
  BY NewRequest
<1>2. ASSUME NEW t \in Threads, DispatchInsert(t) PROVE FALSE
  BY <1>1, <1>2 DEF DispatchInsert, WellFormed, TypeOK
<1>3. ASSUME NEW t \in Threads, Decline(t) PROVE FALSE
  <2>1. job[t].req \in Requests /\ requests[job[t].req] # Null
    BY <1>3, JobKind DEF Decline, WellFormed, ReactsToRequest, ReactJob
  <2>2. requests'[r].status = IF r = job[t].req THEN "DECLINED" ELSE requests[r].status
    BY <1>1, <1>3, <2>1, DecisionKeeps DEF Decline, WellFormed
  <2> QED
    BY <1>1, <2>2
<1>4. PICK t \in Threads : Accept(t)
  BY <1>1, <1>2, <1>3
     DEF Next, Step, vars, Search, ExpireSearch, DispatchLookup, DispatchCheckSent, ReactLookup,
         PublishDecline, CheckCustomer, OpenTxn, PublishAccept, Abort, CloseTxn
<1>5. job[t].req \in Requests /\ requests[job[t].req] # Null
  BY <1>4, JobKind DEF Accept, WellFormed, ReactsToRequest, ReactJob
<1>6. requests'[r].status = IF r = job[t].req THEN "ACCEPTED" ELSE requests[r].status
  BY <1>1, <1>4, <1>5, DecisionKeeps DEF Accept, WellFormed
<1> QED
  BY <1>1, <1>4, <1>6

\* A handler about to insert a transaction does so or is cut.
LEMMA LeavingInsert ==
    ASSUME WellFormed, [Next]_vars, NEW t \in Threads,
           job[t].at = "insert txn", job'[t] # job[t]
    PROVE  OpenTxn(t) \/ Abort(t)
<1>1. job[t] # Idle
  BY JobAt
<1>2. ASSUME NEW u \in Threads, Step(u), u # t PROVE FALSE
  BY <1>2, GoToJob, ReturnJob
     DEF WellFormed, Step, DispatchCheckSent, DispatchInsert, PublishDecline, Decline,
         CheckCustomer, Accept, OpenTxn, PublishAccept
<1>3. ASSUME NEW u \in Threads, Abort(u), u # t PROVE FALSE
  BY <1>3, ReturnJob DEF WellFormed, Abort
<1>4. ASSUME NEW u \in Threads, NEW c \in Users, NEW a \in Users, NEW s \in Searches,
             DispatchLookup(u, c, a, s)
      PROVE  FALSE
  BY <1>1, <1>4 DEF WellFormed, TypeOK, DispatchLookup
<1>5. ASSUME NEW u \in Threads, NEW r \in Requests, NEW reaction \in {"ACCEPTED", "DECLINED"},
             ReactLookup(u, r, reaction)
      PROVE  FALSE
  BY <1>1, <1>5 DEF WellFormed, TypeOK, ReactLookup
<1>6. Step(t) => OpenTxn(t)
  BY DEF Step, DispatchCheckSent, DispatchInsert, PublishDecline, Decline, CheckCustomer,
         Accept, PublishAccept
<1> QED
  BY <1>2, <1>3, <1>4, <1>5, <1>6 DEF Next, vars, Search, ExpireSearch, CloseTxn

\* Inserting a transaction opens the request of the handler.
LEMMA OpeningOpens ==
    ASSUME WellFormed, NEW t \in Threads, OpenTxn(t)
    PROVE  /\ job'[t].req = job[t].req
           /\ \E x \in Txns : txns'[x] # Null /\ txns'[x].request = job[t].req
<1> DEFINE row == [request |-> job[t].req, customer |-> requests[job[t].req].customer,
                   agent |-> requests[job[t].req].agent, status |-> "IN-PROGRESS", by |-> t]
<1>1. PICK x \in Txns : txns' = [txns EXCEPT ![x] = row]
  BY DEF OpenTxn
<1>2. job[t] \in ReactJob /\ requests[job[t].req] \in Request
  BY JobKind DEF OpenTxn, WellFormed, TypeOK, ReactsToRequest, ReactJob
<1>3. row \in Txn
  BY <1>2 DEF Txn, Request, ReactJob
<1>4. txns'[x] = row /\ row # Null
  BY <1>1, <1>3, MatchingAssumption DEF WellFormed, TypeOK
<1>5. job'[t].req = job[t].req
  BY <1>2, GoToJob DEF OpenTxn, WellFormed
<1>6. txns'[x] # Null /\ txns'[x].request = job[t].req
  BY <1>4
<1> QED
  BY <1>5, <1>6

LEMMA NextAcceptance == AcceptanceInv /\ [Next]_vars => AcceptanceInv'
<1> SUFFICES ASSUME AcceptanceInv, [Next]_vars PROVE AcceptanceInv'
  OBVIOUS
<1>1. WellFormed /\ WellFormed' /\ RequestsPersist /\ TxnsPersist
  BY NextWellFormed, RowsPersist DEF AcceptanceInv
<1>2. ASSUME NEW r \in Requests, requests'[r] # Null, requests'[r].status = "ACCEPTED"
      PROVE  \/ Opened(r)' # {}
             \/ \E t \in Threads : job'[t].at = "insert txn" /\ job'[t].req = r
             \/ r \in lost'
  <2>1. CASE requests[r] = Null \/ requests[r].status # "ACCEPTED"
    <3>1. PICK t \in Threads : Accept(t) /\ job[t].req = r
      BY <1>1, <1>2, <2>1, Accepting
    <3>2. job'[t].at = "insert txn" /\ job'[t].req = r
      BY <1>1, <3>1, GoToJob, JobKind DEF Accept, WellFormed
    <3> QED
      BY <3>2
  <2>2. CASE Opened(r) # {}
    BY <1>1, <2>2, OpenedPersists
  <2>3. CASE r \in lost
    BY <2>3 DEF Next, Step, vars, Search, ExpireSearch, DispatchLookup, ReactLookup,
                DispatchCheckSent, DispatchInsert, PublishDecline, Decline, CheckCustomer,
                Accept, OpenTxn, PublishAccept, Abort, CloseTxn
  <2>4. ASSUME NEW t \in Threads, job[t].at = "insert txn", job[t].req = r
        PROVE  \/ Opened(r)' # {}
               \/ job'[t].at = "insert txn" /\ job'[t].req = r
               \/ r \in lost'
    <3>1. CASE OpenTxn(t)
      BY <1>1, <2>4, <3>1, OpeningOpens DEF Opened
    <3>2. CASE Abort(t)
      BY <2>4, <3>2 DEF Abort
    <3> QED
      BY <1>1, <2>4, <3>1, <3>2, LeavingInsert
  <2> QED
    BY <2>1, <2>2, <2>3, <2>4 DEF AcceptanceInv, AcceptedHasTxn
<1>3. ASSUME NEW t \in Threads, job'[t].at = "publish accept"
      PROVE  Opened(job[t].req)' # {} /\ job'[t].req = job[t].req
  <2>1. job'[t] \in ReactJob
    BY <1>1, <1>3, JobAt DEF WellFormed, TypeOK
  <2>2. CASE job'[t] = job[t]
    BY <1>1, <1>3, <2>2, OpenedPersists DEF AcceptanceInv, ToldAfterOpening
  <2>3. CASE OpenTxn(t) /\ job'[t].req = job[t].req
    BY <1>1, <2>3, OpeningOpens DEF Opened
  <2> QED
    BY <1>1, <1>3, <2>1, <2>2, <2>3, ReactMoves
<1>4. ASSUME NEW r \in Requests, "accepted" \in told'[r] PROVE Opened(r)' # {}
  <2>1. CASE "accepted" \in told[r]
    BY <1>1, <2>1, OpenedPersists DEF AcceptanceInv, ToldAcceptedHasTxn
  <2>2. CASE "accepted" \notin told[r]
    <3>1. PICK t \in Threads : PublishAccept(t) /\ job[t].req = r
      <4>1. ASSUME NEW t \in Threads, PublishDecline(t) PROVE FALSE
        BY <1>1, <1>4, <2>2, <4>1 DEF PublishDecline, WellFormed, TypeOK
      <4>2. ASSUME NEW t \in Threads, PublishAccept(t), job[t].req # r PROVE FALSE
        BY <1>1, <1>4, <2>2, <4>2 DEF PublishAccept, WellFormed, TypeOK
      <4> QED
        BY <1>4, <2>2, <4>1, <4>2
           DEF Next, Step, vars, Search, ExpireSearch, DispatchLookup, ReactLookup,
               DispatchCheckSent, DispatchInsert, Decline, CheckCustomer, Accept, OpenTxn,
               Abort, CloseTxn
    <3> QED
      BY <1>1, <3>1, OpenedPersists DEF PublishAccept, AcceptanceInv, ToldAfterOpening
  <2> QED
    BY <2>1, <2>2
<1>5. ToldAfterOpening'
  BY <1>3 DEF ToldAfterOpening, Opened
<1>6. AcceptedHasTxn' /\ ToldAcceptedHasTxn'
  BY <1>2, <1>4 DEF AcceptedHasTxn, ToldAcceptedHasTxn
<1> QED
  BY <1>1, <1>5, <1>6 DEF AcceptanceInv

LEMMA AlwaysAcceptance == Spec => []AcceptanceInv
BY InitAcceptance, NextAcceptance, PTL DEF Spec

\* An accepted request has its transaction unless the insert was cut.
THEOREM AcceptanceOpens == Spec => []AcceptedHasTxn
<1>1. AcceptanceInv => AcceptedHasTxn
  BY DEF AcceptanceInv
<1> QED
  BY <1>1, AlwaysAcceptance, PTL

\* The customer is told of an acceptance only once the transaction is there.
THEOREM ToldAfterInsert == Spec => []ToldAcceptedHasTxn
<1>1. AcceptanceInv => ToldAcceptedHasTxn
  BY DEF AcceptanceInv
<1> QED
  BY <1>1, AlwaysAcceptance, PTL

-----------------------------------------------------------------------------
(* Requests are made on searches that were issued; module Exchange relies   *)
(* on it when a settlement ends the search.                                 *)

SearchesExist ==
    /\ \A r \in Requests : requests[r] # Null => search[requests[r].search] # Null
    /\ \A t \in Threads : job[t] \in DispatchJob => search[job[t].search] # Null

LEMMA InitSearches == Init => SearchesExist
<1> SUFFICES ASSUME Init PROVE SearchesExist
  OBVIOUS
<1>1. \A t \in Threads : job[t] \notin DispatchJob
  BY JobAt DEF Init
<1> QED
  BY <1>1 DEF Init, SearchesExist

LEMMA SearchesPersist ==
    ASSUME WellFormed, [Next]_vars, NEW s \in Searches, search[s] # Null
    PROVE  search'[s] = search[s]
<1>1. ASSUME NEW c \in Users, NEW q \in Searches, NEW found \in SUBSET Agents, Search(c, q, found)
      PROVE  search'[s] = search[s]
  <2>1. s # q
    BY <1>1 DEF Search
  <2> QED
    BY <1>1, <2>1 DEF Search, WellFormed, TypeOK
<1> QED
  BY <1>1 DEF Next, Step, vars, ExpireSearch, DispatchLookup, DispatchCheckSent,
     DispatchInsert,
              ReactLookup, PublishDecline, Decline, CheckCustomer, Accept, OpenTxn,
              PublishAccept, Abort, CloseTxn

LEMMA NextSearches == WellFormed /\ SearchesExist /\ [Next]_vars => SearchesExist'
<1> SUFFICES ASSUME WellFormed, SearchesExist, [Next]_vars PROVE SearchesExist'
  OBVIOUS
<1>1. WellFormed' /\ RequestsPersist
  BY NextWellFormed, RowsPersist
<1>2. ASSUME NEW r \in Requests, requests'[r] # Null
      PROVE  search'[requests'[r].search] # Null
  <2>1. requests'[r].search \in Searches
    BY <1>1, <1>2 DEF WellFormed, TypeOK, Request
  <2>2. CASE requests[r] # Null
    BY <1>1, <2>1, <2>2, SearchesPersist DEF RequestsPersist, SearchesExist
  <2>3. CASE requests[r] = Null
    <3>1. PICK t \in Threads : DispatchInsert(t) /\ requests'[r].search = job[t].search
      BY <1>2, <2>3, NewRequest
    <3>2. job[t] \in DispatchJob
      BY <3>1, JobKind DEF DispatchInsert, WellFormed
    <3> QED
      BY <2>1, <3>1, <3>2, SearchesPersist DEF SearchesExist
  <2> QED
    BY <2>2, <2>3
<1>3. ASSUME NEW t \in Threads, job'[t] \in DispatchJob PROVE search'[job'[t].search] # Null
  <2>1. job'[t].search \in Searches
    BY <1>3 DEF DispatchJob
  <2>2. search[job'[t].search] # Null
    BY <1>3, DispatchMoves DEF SearchesExist
  <2> QED
    BY <2>1, <2>2, SearchesPersist
<1> QED
  BY <1>2, <1>3 DEF SearchesExist

-----------------------------------------------------------------------------
(* An answer is stored without another look at the request, so that one of  *)
(* two reactions that overlap writes over the other's.  When reactions for  *)
(* one customer take turns, the first answer stands.                        *)

StillPending ==
    \A t \in Threads :
       job[t].at \in {"publish decline", "decline", "check customer", "accept"} =>
          requests[job[t].req].status = "PENDING"

AnswersStand ==
    \A r \in Requests :
       (requests[r] # Null /\ requests[r].status # "PENDING") =>
          requests'[r].status = requests[r].status

\* A step that changes the status of a stored request is an answer to it.
LEMMA StatusMoves ==
    ASSUME WellFormed, [Next]_vars, NEW r \in Requests, requests[r] # Null,
           requests'[r].status # requests[r].status
    PROVE  \E t \in Threads : (Decline(t) \/ Accept(t)) /\ job[t].req = r
<1> USE DEF WellFormed
<1>1. ASSUME NEW t \in Threads, DispatchInsert(t) PROVE requests'[r] = requests[r]
  BY <1>1 DEF DispatchInsert, TypeOK
<1>2. ASSUME NEW t \in Threads, Decline(t) \/ Accept(t), job[t].req # r
      PROVE  requests'[r] = requests[r]
  BY <1>2 DEF Decline, Accept, TypeOK
<1> QED
  BY <1>1, <1>2 DEF Next, Step, vars, Search, ExpireSearch, DispatchLookup,
     DispatchCheckSent, ReactLookup, PublishDecline, CheckCustomer, OpenTxn, PublishAccept,
     Abort, CloseTxn

LEMMA NextStillPending ==
    ASSUME WellFormed, StillPending, TurnsPerCustomer, [Next]_vars PROVE StillPending'
<1>1. WellFormed' /\ RequestsPersist
  BY NextWellFormed, RowsPersist
<1> SUFFICES ASSUME NEW t \in Threads,
                    job'[t].at \in {"publish decline", "decline", "check customer", "accept"}
             PROVE  requests'[job'[t].req].status = "PENDING"
  BY DEF StillPending
<1>2. job'[t] \in ReactJob
  BY <1>1, JobAt DEF WellFormed, TypeOK
<1>3. CASE job'[t] = job[t]
  <2> DEFINE r == job[t].req
  <2>1. /\ r \in Requests /\ requests[r] # Null /\ requests[r].status = "PENDING"
        /\ job[t] \in ReactJob
    BY <1>2, <1>3 DEF StillPending, WellFormed, ReactsToRequest, ReactJob
  <2>2. ASSUME requests'[r].status # requests[r].status PROVE FALSE
    <3>1. PICK u \in Threads : (Decline(u) \/ Accept(u)) /\ job[u].req = r
      BY <2>1, <2>2, StatusMoves
    <3>2. job[u] \in ReactJob
      BY <3>1, JobKind DEF Decline, Accept, WellFormed
    <3>3. u = t
      BY <2>1, <3>1, <3>2 DEF TurnsPerCustomer
    <3>4. job'[t].at \in {"idle", "insert txn"}
      BY <3>1, <3>2, <3>3, GoToJob, ReturnJob, JobAt DEF Decline, Accept, WellFormed
    <3> QED
      BY <3>4
  <2> QED
    BY <1>3, <2>1, <2>2
<1>4. CASE job'[t] # job[t]
  <2>1. ~Accept(t) /\ requests' = requests
    <3>1. ASSUME Accept(t) PROVE FALSE
      <4>1. job'[t].at = "insert txn"
        BY <3>1, JobKind, GoToJob DEF Accept, WellFormed
      <4> QED
        BY <4>1
    <3> QED
      BY <1>2, <1>4, <3>1, ReactMoves
  <2>2. CASE requests[job'[t].req].status = "PENDING"
    BY <2>1, <2>2
  <2>3. CASE job'[t].req = job[t].req /\ (PublishDecline(t) \/ CheckCustomer(t))
    BY <2>1, <2>3 DEF PublishDecline, CheckCustomer, StillPending
  <2> QED
    BY <1>2, <1>4, <2>1, <2>2, <2>3, ReactMoves
<1> QED
  BY <1>3, <1>4

LEMMA NextAnswersStand == WellFormed /\ StillPending /\ [Next]_vars => AnswersStand
<1> SUFFICES ASSUME WellFormed, StillPending, [Next]_vars, NEW r \in Requests,
                    requests[r] # Null, requests[r].status # "PENDING"
             PROVE  requests'[r].status = requests[r].status
  BY DEF AnswersStand
<1>1. ASSUME NEW t \in Threads, Decline(t) \/ Accept(t) PROVE job[t].req # r
  BY <1>1 DEF Decline, Accept, StillPending
<1> QED
  BY <1>1, StatusMoves

\* An answer can be overwritten only by a reaction that overlapped the first one.  Where
\* the reactions for one customer take turns, whoever reacts later finds no pending
\* request, and the answer stands.
THEOREM TurnsKeepAnswers == Spec /\ []TurnsPerCustomer => [][AnswersStand]_vars
<1>1. Init => StillPending
  BY JobAt DEF Init, StillPending
<1> QED
  BY <1>1, InitWellFormed, NextWellFormed, NextStillPending, NextAnswersStand, PTL DEF Spec
=============================================================================
