----------------------------- MODULE Deal_proofs -----------------------------
(***************************************************************************)
(* The whole exchange keeps the promise of Deal.  A step writes one of the *)
(* four tables at most, so that it is one action of Deal or leaves Deal    *)
(* alone.                                                                  *)
(***************************************************************************)
EXTENDS Exchange_proofs

-----------------------------------------------------------------------------
(* The actions of Deal, in terms of the mapping.                            *)

LEMMA DealStutters ==
    ASSUME UNCHANGED <<Asked, Between, About, Outcome, Money, Rated>>
    PROVE  UNCHANGED D!vars
BY DEF D!vars

LEMMA DealAsks ==
    ASSUME NEW r \in Requests, NEW c \in Users, NEW a \in Users, c # a, Asked[r] = "none",
           Asked' = [Asked EXCEPT ![r] = "asked"], Between' = [Between EXCEPT ![r] = {c, a}],
           UNCHANGED <<About, Outcome, Money, Rated>>
    PROVE  D!Next
BY DEF D!Next, D!Ask

LEMMA DealAnswers ==
    ASSUME NEW r \in Requests, Asked[r] = "asked", Asked' = [Asked EXCEPT ![r] = "answered"],
           UNCHANGED <<Between, About, Outcome, Money, Rated>>
    PROVE  D!Next
BY DEF D!Next, D!Answer

LEMMA DealAgrees ==
    ASSUME NEW x \in Txns, NEW r \in Requests, Asked[r] = "answered", Outcome[x] = "none",
           Outcome' = [Outcome EXCEPT ![x] = "IN-PROGRESS"],
           About' = [About EXCEPT ![x] = {r}],
           UNCHANGED <<Asked, Between, Money, Rated>>
    PROVE  D!Next
BY DEF D!Next, D!Agree

LEMMA DealHolds ==
    ASSUME NEW x \in Txns, Outcome[x] # "none", Money[x] = "none",
           Money' = [Money EXCEPT ![x] = "held"],
           UNCHANGED <<Asked, Between, About, Outcome, Rated>>
    PROVE  D!Next
BY DEF D!Next, D!Hold

LEMMA DealSettles ==
    ASSUME NEW x \in Txns, Money[x] = "held", Money' = [Money EXCEPT ![x] = "settled"],
           UNCHANGED <<Asked, Between, About, Outcome, Rated>>
    PROVE  D!Next
BY DEF D!Next, D!Settle

LEMMA DealCompletes ==
    ASSUME NEW x \in Txns, Money[x] = "settled", Outcome' = [Outcome EXCEPT ![x] = "COMPLETED"],
           UNCHANGED <<Asked, Between, About, Money, Rated>>
    PROVE  D!Next
BY DEF D!Next, D!Complete

LEMMA DealCancels ==
    ASSUME NEW x \in Txns, Outcome[x] # "none", Outcome' = [Outcome EXCEPT ![x] = "CANCELLED"],
           UNCHANGED <<Asked, Between, About, Money, Rated>>
    PROVE  D!Next
BY DEF D!Next, D!Cancel

LEMMA DealRates ==
    ASSUME NEW x \in Txns, NEW u \in Users, Money[x] = "settled",
           \E r \in About[x] : u \in Between[r],
           Rated' = [Rated EXCEPT ![x] = @ \cup {u}],
           UNCHANGED <<Asked, Between, About, Outcome, Money>>
    PROVE  D!Next
BY DEF D!Next, D!Rate

-----------------------------------------------------------------------------
(* A step writes one table at most.                                         *)

LEMMA TablesChange ==
    ASSUME [Next]_vars
    PROVE  \/ UNCHANGED <<requests, txns, pay, ratings>>
           \/ \E t \in Threads :
                \/ /\ MP!DispatchInsert(t) \/ MP!Decline(t) \/ MP!Accept(t)
                   /\ UNCHANGED <<txns, pay, ratings>>
                \/ /\ OpenTxn(t) \/ MarkTxn(t) \/ Cancel(t)
                   /\ UNCHANGED <<requests, pay, ratings>>
                \/ /\ EP!Record(t) \/ EP!MarkPayment(t)
                   /\ UNCHANGED <<requests, txns, ratings>>
                \/ /\ InsertRating(t)
                   /\ UNCHANGED <<requests, txns, pay>>
<1> DEFINE Same == UNCHANGED <<requests, txns, pay, ratings>>
<1> USE DEF OutsideMatching, OutsideEscrow, OutsideRatings, matchingVars, escrowVars, ratingVars
<1>1. ASSUME NEW t \in Threads, MatchingStep(t)
      PROVE  \/ Same
             \/ /\ MP!DispatchInsert(t) \/ MP!Decline(t) \/ MP!Accept(t)
                /\ UNCHANGED <<txns, pay, ratings>>
             \/ OpenTxn(t) /\ UNCHANGED <<requests, pay, ratings>>
  BY <1>1, SameMatching
     DEF MatchingStep, OpenTxn, M!OpenTxn, M!DispatchCheckSent, M!PublishDecline,
         M!CheckCustomer, M!PublishAccept
<1>2. ASSUME NEW t \in Threads, EscrowStep(t)
      PROVE  \/ Same
             \/ /\ MarkTxn(t) \/ Cancel(t)
                /\ UNCHANGED <<requests, pay, ratings>>
             \/ /\ EP!Record(t) \/ EP!MarkPayment(t)
                /\ UNCHANGED <<requests, txns, ratings>>
  BY <1>2, SameEscrow
     DEF EscrowStep, MarkTxn, Cancel, ClearStage, E!MarkTxn, E!Cancel, E!ClearStage,
         E!CheckUnpaid, E!Debit, E!DebitUnanswered, E!SetStage, E!Respond, E!CallBank,
         E!BankCallRaises
<1>3. ASSUME NEW t \in Threads, StartMatching(t) \/ StartEscrow(t) \/ Abort(t) PROVE Same
  BY <1>3 DEF StartMatching, StartEscrow, Abort, CutClearing, M!DispatchLookup, M!ReactLookup,
              M!Abort, E!PayLookup, E!CancelLookup, E!SettleLookup, E!Abort, E!ClearStage
<1>4. ASSUME NEW t \in Threads, CheckRated(t) \/ \E x \in Txns, u \in Users : RateLookup(t, x, u)
      PROVE  Same
  BY <1>4 DEF CheckRated, RateLookup
<1>5. ASSUME NEW t \in Threads, InsertRating(t) PROVE UNCHANGED <<requests, txns, pay>>
  BY <1>5 DEF InsertRating
<1>6. ASSUME \/ \E c \in Users, s \in Searches, found \in SUBSET Agents : Search(c, s, found)
             \/ \E s \in Searches : ExpireSearch(s)
      PROVE  Same
  BY <1>6 DEF Search, ExpireSearch, M!Search, M!ExpireSearch
<1>7. CASE UNCHANGED vars
  BY <1>7 DEF vars
<1> QED
  BY <1>1, <1>2, <1>3, <1>4, <1>5, <1>6, <1>7 DEF Next, Step, RatingStep

\* What the mapping reads off the tables that a step leaves alone stays as it is.
LEMMA ReadsOff ==
    /\ requests' = requests => Asked' = Asked /\ Between' = Between
    /\ txns' = txns => About' = About /\ Outcome' = Outcome
    /\ pay' = pay => Money' = Money
    /\ ratings' = ratings => Rated' = Rated
<1>1. requests' = requests => Asked' = Asked /\ Between' = Between
  BY DEF Asked, Between
<1>2. txns' = txns => About' = About /\ Outcome' = Outcome
  BY DEF About, Outcome
<1>3. pay' = pay => Money' = Money
  BY DEF Money, E!PaymentsOf, E!Settled
<1>4. ratings' = ratings => Rated' = Rated
  BY DEF Rated
<1> QED
  BY <1>1, <1>2, <1>3, <1>4

\* The parties of a transaction's request are its members.
LEMMA SameParties ==
    ASSUME ExchangeInv, NEW x \in Txns, txns[x] # Null
    PROVE  About[x] = {txns[x].request} /\ Between[txns[x].request] = Members(x)
<1> DEFINE row == [txns[x] EXCEPT !.status = IF @ = "IN-PROGRESS" THEN @ ELSE "CLOSED"]
<1>1. txns[x] \in Txn /\ requests[txns[x].request] # Null
  BY Agreed
<1>2. row # Null
  <2>1. row \in MP!Txn
    BY <1>1 DEF Txn, MP!Txn
  <2> QED
    BY <2>1, Assumptions DEF MP!MatchingAssumption
<1>3. /\ row.request = txns[x].request
      /\ row.customer = txns[x].customer
      /\ row.agent = txns[x].agent
  BY <1>1 DEF Txn
<1>4. /\ row.customer = requests[row.request].customer
      /\ row.agent = requests[row.request].agent
  BY <1>2 DEF ExchangeInv, MP!AgreementInv, MP!TxnFollowsRequest
<1>5. /\ requests[txns[x].request].customer = txns[x].customer
      /\ requests[txns[x].request].agent = txns[x].agent
  BY <1>3, <1>4
<1>6. txns[x].request \in Requests
  BY <1>1 DEF Txn
<1> QED
  BY <1>1, <1>5, <1>6 DEF About, Between, Members

\* How far the money of a transaction has come, without the sets of payments.
PaidTxns == {x \in Txns : \E r \in Refs : pay[r] # Null /\ pay[r].txn = x}

LEMMA MoneyIs ==
    /\ Money = [x \in Txns |-> IF x \in SettledTxns THEN "settled"
                               ELSE IF x \in PaidTxns THEN "held" ELSE "none"]
    /\ SettledTxns \subseteq PaidTxns
<1>1. ASSUME NEW x \in Txns
      PROVE  /\ x \in SettledTxns <=> \E r \in E!PaymentsOf(x) : E!Settled(r)
             /\ x \in PaidTxns <=> E!PaymentsOf(x) # {}
  BY DEF SettledTxns, PaidTxns, E!PaymentsOf, E!Settled
<1> QED
  BY <1>1 DEF Money, SettledTxns, PaidTxns

LEMMA MoneyIsNext ==
    Money' = [x \in Txns |-> IF x \in SettledTxns' THEN "settled"
                             ELSE IF x \in PaidTxns' THEN "held" ELSE "none"]
<1>1. ASSUME NEW x \in Txns
      PROVE  /\ x \in SettledTxns' <=> (\E r \in E!PaymentsOf(x) : E!Settled(r))'
             /\ x \in PaidTxns' <=> (E!PaymentsOf(x) # {})'
  BY DEF SettledTxns, PaidTxns, E!PaymentsOf, E!Settled
<1> QED
  BY <1>1 DEF Money, SettledTxns, PaidTxns

-----------------------------------------------------------------------------
(* Each write is an action of Deal.                                         *)

LEMMA RequestsFollowDeal ==
    ASSUME ExchangeInv, [MP!Next]_(MP!vars), NEW t \in Threads,
           MP!DispatchInsert(t) \/ MP!Decline(t) \/ MP!Accept(t),
           UNCHANGED <<About, Outcome, Money, Rated>>
    PROVE  [D!Next]_(D!vars)
<1>1. MP!MatchingAssumption /\ MP!WellFormed /\ MP!DispatchJoinsTwo
  BY Assumptions DEF ExchangeInv, MP!AgreementInv
<1> USE DEF MP!WellFormed
<1>2. CASE MP!DispatchInsert(t)
  <2> DEFINE row == [agent |-> matching[t].agent, customer |-> matching[t].customer,
                     search |-> matching[t].search, status |-> "PENDING", by |-> t]
  <2>1. matching[t] \in MP!DispatchJob
    BY <1>1, <1>2, MP!JobKind DEF MP!DispatchInsert
  <2>2. PICK r \in Requests : requests[r] = Null /\ requests' = [requests EXCEPT ![r] = row]
    BY <1>2 DEF MP!DispatchInsert
  <2>3. row \in MP!Request
    BY <2>1 DEF MP!Request, MP!DispatchJob
  <2>4. row # Null
    BY <1>1, <2>3 DEF MP!MatchingAssumption
  <2>5. /\ requests'[r] = row
        /\ \A q \in Requests \ {r} : requests'[q] = requests[q]
    BY <1>1, <2>2 DEF MP!TypeOK
  <2>6. /\ row.customer \in Users /\ row.agent \in Users /\ row.status = "PENDING"
        /\ row.customer # row.agent
    BY <1>1, <2>1 DEF MP!DispatchJob, MP!DispatchJoinsTwo
  <2> HIDE DEF row
  <2>7. Asked[r] = "none" /\ Asked' = [Asked EXCEPT ![r] = "asked"]
    BY <2>2, <2>4, <2>5, <2>6 DEF Asked
  <2>8. Between' = [Between EXCEPT ![r] = {row.customer, row.agent}]
    BY <2>4, <2>5 DEF Between
  <2> QED
    BY <2>6, <2>7, <2>8, DealAsks
<1>3. CASE MP!Decline(t) \/ MP!Accept(t)
  <2> DEFINE r == matching[t].req
  <2>1. r \in Requests /\ requests[r] # Null
    BY <1>1, <1>3, MP!JobKind DEF MP!Decline, MP!Accept, MP!ReactsToRequest, MP!ReactJob
  <2>2. PICK s \in {"ACCEPTED", "DECLINED"} : requests' = [requests EXCEPT ![r].status = s]
    BY <1>3 DEF MP!Decline, MP!Accept
  <2> HIDE DEF r
  <2>3. \A q \in Requests :
             /\ requests'[q] # Null <=> requests[q] # Null
             /\ requests'[q] # Null =>
                  /\ requests'[q].agent = requests[q].agent
                  /\ requests'[q].customer = requests[q].customer
                  /\ requests'[q].status = IF q = r THEN s ELSE requests[q].status
    BY <1>1, <2>1, <2>2, MP!DecisionKeeps
  <2>4. Between' = Between
    BY <2>3 DEF Between
  <2>5. Asked' = [Asked EXCEPT ![r] = "answered"]
    BY <2>1, <2>3 DEF Asked
  <2>6. CASE requests[r].status = "PENDING"
    <3>1. Asked[r] = "asked"
      BY <2>1, <2>6 DEF Asked
    <3> QED
      BY <2>1, <2>4, <2>5, <3>1, DealAnswers
  <2>7. CASE requests[r].status # "PENDING"
    <3>1. Asked[r] = "answered"
      BY <2>1, <2>7 DEF Asked
    <3>2. Asked' = Asked
      BY <2>5, <3>1 DEF Asked
    <3> QED
      BY <2>4, <3>2, DealStutters
  <2> QED
    BY <2>6, <2>7
<1> QED
  BY <1>2, <1>3

\* An update of a status changes the outcome of one transaction, and what it is about
\* stays as it is.
LEMMA OutcomeFollows ==
    ASSUME ExchangeInv, NEW x \in Txns, txns[x] # Null, NEW s \in {"COMPLETED", "CANCELLED"},
           SetStatus(x, s)
    PROVE  /\ Outcome[x] # "none"
           /\ Outcome' = [Outcome EXCEPT ![x] = s]
           /\ About' = About
<1> DEFINE row == [txns[x] EXCEPT !.status = s]
<1>1. txns[x] \in Txn /\ txns \in [Txns -> Txn \cup {Null}]
  BY Agreed DEF ExchangeInv, Typed
<1>2. row \in Txn /\ row # Null /\ row.status = s /\ row.request = txns[x].request
  BY <1>1, ExchangeAssumption DEF Txn
<1>3. txns' = [txns EXCEPT ![x] = row]
  BY <1>1 DEF SetStatus
<1> HIDE DEF row
<1>4. txns'[x] = row /\ \A y \in Txns \ {x} : txns'[y] = txns[y]
  BY <1>1, <1>3
<1>5. Outcome[x] # "none"
  BY <1>1 DEF Outcome, Txn
<1>6. Outcome' = [Outcome EXCEPT ![x] = s]
  BY <1>2, <1>4 DEF Outcome
<1>7. About' = About
  BY <1>2, <1>4 DEF About
<1> QED
  BY <1>5, <1>6, <1>7

LEMMA TxnsFollowDeal ==
    ASSUME ExchangeInv, NEW t \in Threads, OpenTxn(t) \/ MarkTxn(t) \/ Cancel(t),
           UNCHANGED <<Asked, Between, Money, Rated>>
    PROVE  D!Next
<1>1. CASE OpenTxn(t)
  <2> DEFINE r == matching[t].req
             row == [request |-> r, customer |-> requests[r].customer,
                     agent |-> requests[r].agent, status |-> "IN-PROGRESS", by |-> t]
  <2>1. PICK x \in Txns : txns[x] = Null /\ txns' = [txns EXCEPT ![x] = row]
    BY <1>1 DEF OpenTxn
  <2>2. /\ r \in Requests
        /\ requests[r] # Null
        /\ requests[r] \in MP!Request
        /\ requests[r].status # "PENDING"
    <3>1. matching[t].at = "insert txn"
      BY <1>1 DEF OpenTxn
    <3>2. matching[t] \in MP!ReactJob
      BY <3>1, MP!JobKind, Assumptions DEF ExchangeInv, MP!AgreementInv, MP!WellFormed
    <3> QED
      BY <3>1, <3>2 DEF ExchangeInv, MP!AgreementInv, MP!WellFormed, MP!ReactsToRequest,
                        MP!DecidedFirst, MP!TypeOK, MP!ReactJob
  <2>3. row # Null
    <3>1. row \in Txn
      BY <2>2 DEF Txn, MP!Request
    <3> QED
      BY <3>1, ExchangeAssumption
  <2>4. txns'[x] = row /\ \A y \in Txns \ {x} : txns'[y] = txns[y]
    BY <2>1 DEF ExchangeInv, Typed
  <2>5. row.status = "IN-PROGRESS" /\ row.request = r
    OBVIOUS
  <2> HIDE DEF row, r
  <2>6. Asked[r] = "answered"
    BY <2>2 DEF Asked
  <2>7. Outcome[x] = "none" /\ Outcome' = [Outcome EXCEPT ![x] = "IN-PROGRESS"]
    <3>1. Outcome[x] = "none"
      BY <2>1 DEF Outcome
    <3>2. Outcome'[x] = "IN-PROGRESS"
      BY <2>3, <2>4, <2>5 DEF Outcome
    <3>3. \A y \in Txns \ {x} : Outcome'[y] = Outcome[y]
      BY <2>4 DEF Outcome
    <3>4. Outcome = [y \in Txns |-> Outcome[y]] /\ Outcome' = [y \in Txns |-> Outcome'[y]]
      BY DEF Outcome
    <3> QED
      BY <3>1, <3>2, <3>3, <3>4
  <2>8. About' = [About EXCEPT ![x] = {r}]
    BY <2>3, <2>4, <2>5 DEF About
  <2> QED
    BY <2>2, <2>6, <2>7, <2>8, DealAgrees
<1>2. CASE MarkTxn(t)
  <2> DEFINE x == pay[paying[t].ref].txn
  <2>1. /\ paying[t].at = "mark txn"
        /\ SetStatus(x, "COMPLETED")
    BY <1>2 DEF MarkTxn
  <2>2. paying[t].ref \in Refs /\ pay[paying[t].ref] # Null /\ x \in Txns /\ txns[x] # Null
    BY <2>1, Settles
  <2>3. pay[paying[t].ref].status # "IN_ESCROW"
    BY <2>1 DEF ExchangeInv, EP!WellFormed, EP!JobsFollowPayments, EP!JobFollowsPayment
  <2>4. x \in SettledTxns
    BY <2>2, <2>3 DEF SettledTxns
  <2>5. Money[x] = "settled"
    BY <2>2, <2>4, MoneyIs
  <2> QED
    BY <2>1, <2>2, <2>5, OutcomeFollows, DealCompletes
<1>3. CASE Cancel(t)
  BY <1>3, Cancels, OutcomeFollows, DealCancels DEF Cancel
<1> QED
  BY <1>1, <1>2, <1>3

LEMMA PaymentsFollowDeal ==
    ASSUME ExchangeInv, NEW t \in Threads, EP!Record(t) \/ EP!MarkPayment(t),
           UNCHANGED <<Asked, Between, About, Outcome, Rated>>
    PROVE  [D!Next]_(D!vars)
<1>1. EP!EscrowAssumption /\ EP!WellFormed
  BY Assumptions DEF ExchangeInv
<1>2. CASE EP!Record(t)
  <2> DEFINE x == paying[t].txn
  <2>1. /\ paying[t] \in EP!EntryJob
        /\ pay[paying[t].ref] = Null
        /\ pay'[paying[t].ref] # Null
        /\ pay'[paying[t].ref].txn = x
        /\ pay'[paying[t].ref].status = "IN_ESCROW"
        /\ \A q \in Refs \ {paying[t].ref} : pay'[q] = pay[q]
    BY <1>1, <1>2, EP!RecordEffect
  <2>2. paying[t].ref \in Refs /\ x \in Txns
    BY <2>1 DEF EP!EntryJob
  <2>3. PaidTxns' = PaidTxns \cup {x} /\ SettledTxns' = SettledTxns
    BY <2>1, <2>2 DEF PaidTxns, SettledTxns
  <2>4. Outcome[x] # "none"
    <3>1. txns[x] # Null
      BY <1>2 DEF EP!Record, ExchangeInv, PaidForOpened
    <3> QED
      BY <2>2, <3>1, Agreed DEF Outcome, Txn
  <2> HIDE DEF x
  <2>5. CASE Money[x] = "none"
    <3>1. x \notin SettledTxns
      BY <2>2, <2>5, MoneyIs
    <3>2. Money' = [Money EXCEPT ![x] = "held"]
      BY <2>2, <2>3, <3>1, MoneyIs, MoneyIsNext
    <3> QED
      BY <2>2, <2>4, <2>5, <3>2, DealHolds
  <2>6. CASE Money[x] # "none"
    <3>1. x \in PaidTxns
      BY <2>2, <2>6, MoneyIs
    <3>2. Money' = Money
      BY <2>3, <3>1, MoneyIs, MoneyIsNext
    <3> QED
      BY <3>2, DealStutters
  <2> QED
    BY <2>5, <2>6
<1>3. CASE EP!MarkPayment(t)
  <2> DEFINE r == paying[t].ref
             x == pay[r].txn
  <2>1. /\ paying[t] \in EP!SettleJob
        /\ pay[r] # Null
        /\ pay'[r] # Null
        /\ pay'[r].txn = x
        /\ pay'[r].status # "IN_ESCROW"
        /\ \A q \in Refs \ {r} : pay'[q] = pay[q]
    BY <1>1, <1>3, EP!MarkEffect
  <2>2. r \in Refs /\ x \in Txns
    BY <1>1, <2>1 DEF EP!SettleJob, EP!WellFormed, EP!TypeOK, EP!Payment
  <2> HIDE DEF r
  <2>3. /\ PaidTxns' = PaidTxns /\ x \in PaidTxns
        /\ SettledTxns' = SettledTxns \cup {x}
    BY <2>1, <2>2 DEF PaidTxns, SettledTxns
  <2> HIDE DEF x
  <2>4. CASE x \in SettledTxns
    <3>1. Money' = Money
      BY <2>3, <2>4, MoneyIs, MoneyIsNext
    <3> QED
      BY <3>1, DealStutters
  <2>5. CASE x \notin SettledTxns
    <3>1. Money[x] = "held"
      BY <2>2, <2>3, <2>5, MoneyIs
    <3>2. Money' = [Money EXCEPT ![x] = "settled"]
      BY <2>2, <2>3, MoneyIs, MoneyIsNext
    <3> QED
      BY <2>2, <3>1, <3>2, DealSettles
  <2> QED
    BY <2>4, <2>5
<1> QED
  BY <1>2, <1>3

LEMMA RatingsFollowDeal ==
    ASSUME ExchangeInv, RatedInv, NEW t \in Threads, InsertRating(t),
           UNCHANGED <<Asked, Between, About, Outcome, Money>>
    PROVE  D!Next
<1> DEFINE x == rating[t].txn
           u == rating[t].by
<1>1. PICK n \in Ratings : /\ ratings[n] = Null
                           /\ ratings'[n] # Null
                           /\ ratings'[n].txn = x
                           /\ ratings'[n].by = u
                           /\ \A m \in Ratings \ {n} : ratings'[m] = ratings[m]
  BY InsertEffect
<1>2. rating[t] \in RateJob
  BY InsertEffect
<1>3. x \in Txns /\ u \in Users /\ txns[x] # Null /\ u \in Members(x) /\ x \in SettledTxns
  BY <1>2 DEF RateJob, ExchangeInv, RatersAreMembers, RatedInv
<1> HIDE DEF x, u
<1>4. Rated' = [Rated EXCEPT ![x] = @ \cup {u}]
  <2>1. ASSUME NEW y \in Txns, NEW v \in Users
        PROVE  (\E m \in Ratings : ratings'[m] # Null /\ ratings'[m].txn = y /\ ratings'[m].by = v)
                 <=> \/ \E m \in Ratings : ratings[m] # Null /\ ratings[m].txn = y /\ ratings[m].by = v
                     \/ y = x /\ v = u
    BY <1>1
  <2>2. \A y \in Txns : Rated'[y] = IF y = x THEN Rated[y] \cup {u} ELSE Rated[y]
    BY <1>3, <2>1 DEF Rated
  <2>3. Rated = [y \in Txns |-> Rated[y]] /\ Rated' = [y \in Txns |-> Rated'[y]]
    BY DEF Rated
  <2> QED
    BY <1>3, <2>2, <2>3
<1>5. Money[x] = "settled"
  BY <1>3, MoneyIs
<1>6. \E r \in About[x] : u \in Between[r]
  BY <1>3, SameParties
<1> QED
  BY <1>3, <1>4, <1>5, <1>6, DealRates

-----------------------------------------------------------------------------
LEMMA DealInit == Init => D!Init
<1> SUFFICES ASSUME Init PROVE D!Init
  OBVIOUS
<1>1. requests = [r \in Requests |-> Null] /\ pay = [r \in Refs |-> Null]
  BY DEF Init, M!Init, E!Init
<1>2. Asked = [r \in Requests |-> "none"] /\ Between = [r \in Requests |-> {}]
  BY <1>1 DEF Asked, Between
<1>3. About = [x \in Txns |-> {}] /\ Outcome = [x \in Txns |-> "none"]
  BY DEF Init, About, Outcome
<1>4. Money = [x \in Txns |-> "none"]
  BY <1>1 DEF Money, E!PaymentsOf
<1>5. Rated = [x \in Txns |-> {}]
  BY DEF Init, Rated
<1> QED
  BY <1>2, <1>3, <1>4, <1>5 DEF D!Init

LEMMA DealNext == ExchangeInv /\ RatedInv /\ [Next]_vars => [D!Next]_(D!vars)
<1> SUFFICES ASSUME ExchangeInv, RatedInv, [Next]_vars PROVE [D!Next]_(D!vars)
  OBVIOUS
<1>1. [MP!Next]_(MP!vars)
  BY MatchingSteps
<1>2. CASE UNCHANGED <<requests, txns, pay, ratings>>
  BY <1>2, ReadsOff, DealStutters
<1>3. ASSUME NEW t \in Threads, MP!DispatchInsert(t) \/ MP!Decline(t) \/ MP!Accept(t),
             UNCHANGED <<txns, pay, ratings>>
      PROVE  [D!Next]_(D!vars)
  BY <1>1, <1>3, ReadsOff, RequestsFollowDeal
<1>4. ASSUME NEW t \in Threads, OpenTxn(t) \/ MarkTxn(t) \/ Cancel(t),
             UNCHANGED <<requests, pay, ratings>>
      PROVE  D!Next
  BY <1>4, ReadsOff, TxnsFollowDeal
<1>5. ASSUME NEW t \in Threads, EP!Record(t) \/ EP!MarkPayment(t),
             UNCHANGED <<requests, txns, ratings>>
      PROVE  [D!Next]_(D!vars)
  BY <1>5, ReadsOff, PaymentsFollowDeal
<1>6. ASSUME NEW t \in Threads, InsertRating(t), UNCHANGED <<requests, txns, pay>>
      PROVE  D!Next
  BY <1>6, ReadsOff, RatingsFollowDeal
<1> QED
  BY <1>2, <1>3, <1>4, <1>5, <1>6, TablesChange

\* From the request to the ratings the exchange keeps the promise of Deal, whatever
\* handlers overlap and whatever is cut short.
THEOREM KeepsDeal == Spec => ImplementsDeal
BY DealInit, DealNext, InitRated, NextRated, AlwaysExchangeInv, PTL
   DEF Spec, ImplementsDeal, D!Spec

-----------------------------------------------------------------------------
(* What Deal promises, in a state.                                          *)

\* A request that was asked joins two users.
AskedJoinsTwo ==
    \A r \in Requests : Asked[r] # "none" =>
       \E c, a \in Users : Between[r] = {c, a} /\ c # a

DealInv == D!TypeOK /\ AskedJoinsTwo /\ D!Honoured

LEMMA DealInvInit == D!Init => DealInv
BY DEF D!Init, DealInv, D!TypeOK, AskedJoinsTwo, D!Honoured

LEMMA DealInvNext == DealInv /\ [D!Next]_(D!vars) => DealInv'
<1> SUFFICES ASSUME DealInv, [D!Next]_(D!vars) PROVE DealInv'
  OBVIOUS
<1> USE DEF DealInv, D!TypeOK, AskedJoinsTwo, D!Honoured
<1>1. ASSUME NEW r \in Requests, NEW c \in Users, NEW a \in Users, D!Ask(r, c, a)
      PROVE  DealInv'
  BY <1>1 DEF D!Ask
<1>2. ASSUME NEW r \in Requests, D!Answer(r) PROVE DealInv'
  BY <1>2 DEF D!Answer
<1>3. ASSUME NEW x \in Txns, NEW r \in Requests, D!Agree(x, r) PROVE DealInv'
  BY <1>3 DEF D!Agree
<1>4. ASSUME NEW x \in Txns, D!Hold(x) PROVE DealInv'
  <2>1. /\ Outcome[x] # "none" /\ Money[x] = "none"
        /\ Money' = [Money EXCEPT ![x] = "held"]
        /\ UNCHANGED <<Asked, Between, About, Outcome, Rated>>
    BY <1>4 DEF D!Hold
  <2>2. D!TypeOK' /\ AskedJoinsTwo'
    BY <2>1
  <2>3. /\ Money'[x] = "held"
        /\ \A y \in Txns : y # x => Money'[y] = Money[y]
    BY <2>1
  <2>4. Outcome[x] # "COMPLETED" /\ Rated[x] = {}
    BY <2>1
  <2>5. D!Honoured'
    BY <2>1, <2>3, <2>4
  <2> QED
    BY <2>2, <2>5
<1>5. ASSUME NEW x \in Txns, D!Settle(x) PROVE DealInv'
  BY <1>5 DEF D!Settle
<1>6. ASSUME NEW x \in Txns, D!Complete(x) PROVE DealInv'
  BY <1>6 DEF D!Complete
<1>7. ASSUME NEW x \in Txns, D!Cancel(x) PROVE DealInv'
  BY <1>7 DEF D!Cancel
<1>8. ASSUME NEW x \in Txns, NEW u \in Users, D!Rate(x, u) PROVE DealInv'
  BY <1>8 DEF D!Rate
<1>9. CASE UNCHANGED D!vars
  BY <1>9 DEF D!vars
<1> QED
  BY <1>1, <1>2, <1>3, <1>4, <1>5, <1>6, <1>7, <1>8, <1>9 DEF D!Next

\* The exchange never leaves its parties with less than Deal promises in every state.
THEOREM DealsAreHonoured == Spec => []D!Honoured
<1>1. DealInv => D!Honoured
  BY DEF DealInv
<1> QED
  BY <1>1, DealInvInit, DealInvNext, KeepsDeal, PTL DEF ImplementsDeal, D!Spec
=============================================================================
