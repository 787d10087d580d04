--------------------------- MODULE Exchange_proofs ---------------------------
(***************************************************************************)
(* The composition, proved by assuming of each component what its own      *)
(* module proves, one step at a time: in a state where both components are *)
(* well-formed a step of the exchange is a step of each or leaves it       *)
(* alone, so that the step lemmas of Matching_proofs and Escrow_proofs     *)
(* carry the well-formedness over to the next state.                       *)
(***************************************************************************)
EXTENDS Exchange, TLAPS

\* The components and what is proved of them, with the mappings of M and E.
MP == INSTANCE Matching_proofs WITH
    job <- matching,
    txns <- [x \in Txns |->
               IF txns[x] = Null THEN Null
               ELSE [txns[x] EXCEPT !.status = IF @ = "IN-PROGRESS" THEN @ ELSE "CLOSED"]]

EP == INSTANCE Escrow_proofs WITH
    job <- paying,
    status <- [x \in Txns |-> IF txns[x] = Null THEN "IN-PROGRESS" ELSE txns[x].status]

\* The assumptions of the components follow from those of the exchange.
LEMMA Assumptions == MP!MatchingAssumption /\ EP!EscrowAssumption
<1>1. MP!SearchResult = M!SearchResult /\ MP!Request = M!Request /\ MP!Txn = M!Txn
  BY DEF MP!SearchResult, M!SearchResult, MP!Request, M!Request, MP!Txn, M!Txn
<1>2. EP!Payment = E!Payment
  BY DEF EP!Payment, E!Payment, EP!Gateways, E!Gateways
<1>3. MP!MatchingAssumption
  BY <1>1, ExchangeAssumption DEF MP!MatchingAssumption
<1>4. EP!EscrowAssumption
  BY <1>2, ExchangeAssumption DEF EP!EscrowAssumption
<1> QED
  BY <1>3, <1>4

-----------------------------------------------------------------------------
(* M and MP are two instances of one module, and so are E and EP: what they *)
(* define is the same.                                                      *)

LEMMA SameSize == ASSUME NEW S PROVE M!Cardinality(S) = MP!Cardinality(S)
BY DEF M!Cardinality, MP!Cardinality

LEMMA SameRoom ==
    /\ M!RoomForRequest <=> MP!RoomForRequest
    /\ M!RoomForTxn <=> MP!RoomForTxn
<1>1. /\ {t \in Threads : M!Dispatching(t)} = {t \in Threads : MP!Dispatching(t)}
      /\ {t \in Threads : M!Reacting(t)} = {t \in Threads : MP!Reacting(t)}
  BY DEF M!Dispatching, MP!Dispatching, M!Reacting, MP!Reacting, M!Idle, MP!Idle
<1>2. M!RoomForRequest <=> MP!RoomForRequest
  <2>1. M!Cardinality({t \in Threads : M!Dispatching(t)})
          = MP!Cardinality({t \in Threads : MP!Dispatching(t)})
    BY <1>1, SameSize, Zenon
  <2>2. M!Cardinality({r \in Requests : requests[r] = Null})
          = MP!Cardinality({r \in Requests : requests[r] = Null})
    BY SameSize, Zenon
  <2> QED
    BY <2>1, <2>2, Zenon DEF M!RoomForRequest, MP!RoomForRequest
<1>3. M!RoomForTxn <=> MP!RoomForTxn
  <2> DEFINE mapped == [x \in Txns |->
               IF txns[x] = Null THEN Null
               ELSE [txns[x] EXCEPT !.status = IF @ = "IN-PROGRESS" THEN @ ELSE "CLOSED"]]
  <2>1. M!Cardinality({t \in Threads : M!Reacting(t)})
          = MP!Cardinality({t \in Threads : MP!Reacting(t)})
    BY <1>1, SameSize, Zenon
  <2>2. M!Cardinality({x \in Txns : mapped[x] = Null})
          = MP!Cardinality({x \in Txns : mapped[x] = Null})
    BY SameSize, Zenon
  <2> QED
    BY <2>1, <2>2, Zenon DEF M!RoomForTxn, MP!RoomForTxn
<1> QED
  BY <1>2, <1>3

LEMMA SameMatching ==
    /\ M!Init <=> MP!Init
    /\ \A c, s, found : M!Search(c, s, found) <=> MP!Search(c, s, found)
    /\ \A s : M!ExpireSearch(s) <=> MP!ExpireSearch(s)
    /\ \A t, c, a, s : M!DispatchLookup(t, c, a, s) <=> MP!DispatchLookup(t, c, a, s)
    /\ \A t, r, reaction : M!ReactLookup(t, r, reaction) <=> MP!ReactLookup(t, r, reaction)
    /\ \A x : M!CloseTxn(x) <=> MP!CloseTxn(x)
    /\ \A t : M!DispatchCheckSent(t) <=> MP!DispatchCheckSent(t)
    /\ \A t : M!DispatchInsert(t) <=> MP!DispatchInsert(t)
    /\ \A t : M!PublishDecline(t) <=> MP!PublishDecline(t)
    /\ \A t : M!Decline(t) <=> MP!Decline(t)
    /\ \A t : M!CheckCustomer(t) <=> MP!CheckCustomer(t)
    /\ \A t : M!Accept(t) <=> MP!Accept(t)
    /\ \A t : M!OpenTxn(t) <=> MP!OpenTxn(t)
    /\ \A t : M!PublishAccept(t) <=> MP!PublishAccept(t)
    /\ \A t : M!Abort(t) <=> MP!Abort(t)
<1> USE DEF M!GoTo, MP!GoTo, M!Return, MP!Return, M!Idle, MP!Idle
<1>1. M!Init <=> MP!Init
  BY DEF M!Init, MP!Init
<1>2. ASSUME NEW c, NEW s, NEW found PROVE M!Search(c, s, found) <=> MP!Search(c, s, found)
  BY DEF M!Search, MP!Search
<1>3. ASSUME NEW s PROVE M!ExpireSearch(s) <=> MP!ExpireSearch(s)
  BY DEF M!ExpireSearch, MP!ExpireSearch, M!Cached, MP!Cached
<1>4. ASSUME NEW t, NEW c, NEW a, NEW s
      PROVE  M!DispatchLookup(t, c, a, s) <=> MP!DispatchLookup(t, c, a, s)
  BY SameRoom DEF M!DispatchLookup, MP!DispatchLookup, M!MayServe, MP!MayServe, M!Cached,
     MP!Cached
<1>5. ASSUME NEW t, NEW r, NEW reaction
      PROVE  M!ReactLookup(t, r, reaction) <=> MP!ReactLookup(t, r, reaction)
  BY SameRoom DEF M!ReactLookup, MP!ReactLookup
<1>6. ASSUME NEW x PROVE M!CloseTxn(x) <=> MP!CloseTxn(x)
  BY DEF M!CloseTxn, MP!CloseTxn
<1>7. ASSUME NEW t PROVE M!DispatchCheckSent(t) <=> MP!DispatchCheckSent(t)
  BY DEF M!DispatchCheckSent, MP!DispatchCheckSent, M!Sent, MP!Sent
<1>8. ASSUME NEW t PROVE M!DispatchInsert(t) <=> MP!DispatchInsert(t)
  BY DEF M!DispatchInsert, MP!DispatchInsert
<1>9. ASSUME NEW t PROVE M!PublishDecline(t) <=> MP!PublishDecline(t)
  BY DEF M!PublishDecline, MP!PublishDecline
<1>10. ASSUME NEW t PROVE M!Decline(t) <=> MP!Decline(t)
  BY DEF M!Decline, MP!Decline
<1>11. ASSUME NEW t PROVE M!CheckCustomer(t) <=> MP!CheckCustomer(t)
  BY DEF M!CheckCustomer, MP!CheckCustomer, M!InProgress, MP!InProgress
<1>12. ASSUME NEW t PROVE M!Accept(t) <=> MP!Accept(t)
  BY DEF M!Accept, MP!Accept
<1>13. ASSUME NEW t PROVE M!OpenTxn(t) <=> MP!OpenTxn(t)
  BY DEF M!OpenTxn, MP!OpenTxn
<1>14. ASSUME NEW t PROVE M!PublishAccept(t) <=> MP!PublishAccept(t)
  BY DEF M!PublishAccept, MP!PublishAccept
<1>15. ASSUME NEW t PROVE M!Abort(t) <=> MP!Abort(t)
  BY DEF M!Abort, MP!Abort
<1> QED
  BY <1>1, <1>2, <1>3, <1>4, <1>5, <1>6, <1>7, <1>8, <1>9, <1>10, <1>11, <1>12, <1>13,
     <1>14,
     <1>15

LEMMA SameEscrowRoom == E!RoomForPayment <=> EP!RoomForPayment
<1>1. ASSUME NEW S PROVE E!Cardinality(S) = EP!Cardinality(S)
  BY DEF E!Cardinality, EP!Cardinality
<1>2. E!Cardinality({t \in Threads : paying[t].at \in {"check unpaid", "debit"}})
        = EP!Cardinality({t \in Threads : paying[t].at \in {"check unpaid", "debit"}})
  BY <1>1, Zenon
<1>3. E!Cardinality(Refs \ charged) = EP!Cardinality(Refs \ charged)
  BY <1>1, Zenon
<1> QED
  BY <1>2, <1>3, Zenon DEF E!RoomForPayment, EP!RoomForPayment

LEMMA SameEscrow ==
    /\ E!Init <=> EP!Init
    /\ \A t, x, g : E!PayLookup(t, x, g) <=> EP!PayLookup(t, x, g)
    /\ \A t, r, as : E!SettleLookup(t, r, as) <=> EP!SettleLookup(t, r, as)
    /\ \A t, x : E!CancelLookup(t, x) <=> EP!CancelLookup(t, x)
    /\ \A t : E!CheckUnpaid(t) <=> EP!CheckUnpaid(t)
    /\ \A t : E!Debit(t) <=> EP!Debit(t)
    /\ \A t : E!DebitUnanswered(t) <=> EP!DebitUnanswered(t)
    /\ \A t : E!Record(t) <=> EP!Record(t)
    /\ \A t : E!SetStage(t) <=> EP!SetStage(t)
    /\ \A t : E!Respond(t) <=> EP!Respond(t)
    /\ \A t : E!CallBank(t) <=> EP!CallBank(t)
    /\ \A t : E!BankCallRaises(t) <=> EP!BankCallRaises(t)
    /\ \A t : E!MarkPayment(t) <=> EP!MarkPayment(t)
    /\ \A t : E!MarkTxn(t) <=> EP!MarkTxn(t)
    /\ \A t : E!ClearStage(t) <=> EP!ClearStage(t)
    /\ \A t : E!Cancel(t) <=> EP!Cancel(t)
    /\ \A t : E!Abort(t) <=> EP!Abort(t)
<1> USE DEF E!GoTo, EP!GoTo, E!Return, EP!Return, E!Idle, EP!Idle, E!PaymentsOf, EP!PaymentsOf
<1>1. E!Init <=> EP!Init
  BY DEF E!Init, EP!Init
<1>2. ASSUME NEW t, NEW x, NEW g PROVE E!PayLookup(t, x, g) <=> EP!PayLookup(t, x, g)
  BY SameEscrowRoom DEF E!PayLookup, EP!PayLookup
<1>3. ASSUME NEW t, NEW r, NEW as
      PROVE  E!SettleLookup(t, r, as) <=> EP!SettleLookup(t, r, as)
  BY DEF E!SettleLookup, EP!SettleLookup
<1>4. ASSUME NEW t, NEW x PROVE E!CancelLookup(t, x) <=> EP!CancelLookup(t, x)
  BY DEF E!CancelLookup, EP!CancelLookup
<1>5. ASSUME NEW t PROVE E!CheckUnpaid(t) <=> EP!CheckUnpaid(t)
  BY DEF E!CheckUnpaid, EP!CheckUnpaid
<1>6. ASSUME NEW t PROVE E!Debit(t) <=> EP!Debit(t)
  BY DEF E!Debit, EP!Debit
<1>7. ASSUME NEW t PROVE E!DebitUnanswered(t) <=> EP!DebitUnanswered(t)
  BY DEF E!DebitUnanswered, EP!DebitUnanswered
<1>8. ASSUME NEW t PROVE E!Record(t) <=> EP!Record(t)
  BY DEF E!Record, EP!Record
<1>9. ASSUME NEW t PROVE E!SetStage(t) <=> EP!SetStage(t)
  BY DEF E!SetStage, EP!SetStage
<1>10. ASSUME NEW t PROVE E!Respond(t) <=> EP!Respond(t)
  BY DEF E!Respond, EP!Respond
<1>11. ASSUME NEW t PROVE E!CallBank(t) <=> EP!CallBank(t)
  BY DEF E!CallBank, EP!CallBank
<1>12. ASSUME NEW t PROVE E!BankCallRaises(t) <=> EP!BankCallRaises(t)
  BY DEF E!BankCallRaises, EP!BankCallRaises
<1>13. ASSUME NEW t PROVE E!MarkPayment(t) <=> EP!MarkPayment(t)
  BY DEF E!MarkPayment, EP!MarkPayment
<1>14. ASSUME NEW t PROVE E!MarkTxn(t) <=> EP!MarkTxn(t)
  BY DEF E!MarkTxn, EP!MarkTxn
<1>15. ASSUME NEW t PROVE E!ClearStage(t) <=> EP!ClearStage(t)
  BY DEF E!ClearStage, EP!ClearStage
<1>16. ASSUME NEW t PROVE E!Cancel(t) <=> EP!Cancel(t)
  BY DEF E!Cancel, EP!Cancel
<1>17. ASSUME NEW t PROVE E!Abort(t) <=> EP!Abort(t)
  BY DEF E!Abort, EP!Abort
<1> QED
  BY <1>1, <1>2, <1>3, <1>4, <1>5, <1>6, <1>7, <1>8, <1>9, <1>10, <1>11, <1>12, <1>13,
     <1>14,
     <1>15, <1>16, <1>17

-----------------------------------------------------------------------------
(* The invariant: both components are well-formed, the rows they refer to   *)
(* in each other's tables exist, and whoever rates is a member.             *)

Typed ==
    /\ txns \in [Txns -> Txn \cup {Null}]
    /\ ratings \in [Ratings -> Rating \cup {Null}]
    /\ rating \in [Threads -> {Idle} \cup RateJob]
    /\ uncleared \in SUBSET Refs
    /\ unanswered \in SUBSET Refs

PaidForOpened ==
    /\ \A r \in Refs : pay[r] # Null => txns[pay[r].txn] # Null
    /\ \A t \in Threads :
          paying[t].at \in {"check unpaid", "debit", "record", "set stage", "respond", "cancel"} =>
             txns[paying[t].txn] # Null

RatersAreMembers ==
    \A t \in Threads : rating[t] \in RateJob =>
       txns[rating[t].txn] # Null /\ rating[t].by \in Members(rating[t].txn)

ExchangeInv ==
    /\ Typed
    /\ MP!AgreementInv
    /\ MP!SearchesExist
    /\ EP!WellFormed
    /\ PaidForOpened
    /\ RatersAreMembers

\* What the two components know of the table, in terms of the table.
LEMMA Agreed ==
    ASSUME ExchangeInv, NEW x \in Txns, txns[x] # Null
    PROVE  /\ txns[x] \in Txn
           /\ requests[txns[x].request] # Null
           /\ requests[txns[x].request] \in MP!Request
           /\ txns[x].customer # txns[x].agent
<1> DEFINE row == [txns[x] EXCEPT !.status = IF @ = "IN-PROGRESS" THEN @ ELSE "CLOSED"]
<1>1. txns[x] \in Txn
  BY DEF ExchangeInv, Typed
<1>2. row # Null
  <2>1. row \in MP!Txn
    BY <1>1 DEF Txn, MP!Txn
  <2> QED
    BY <2>1, Assumptions DEF MP!MatchingAssumption
<1>3. /\ row.request = txns[x].request
      /\ row.customer = txns[x].customer
      /\ row.agent = txns[x].agent
  BY <1>1 DEF Txn
<1>4. requests[row.request] # Null /\ row.customer # row.agent
  BY <1>2 DEF ExchangeInv, MP!AgreementInv, MP!TxnFollowsRequest
<1>5. requests[row.request] \in MP!Request
  BY <1>1, <1>3, <1>4 DEF ExchangeInv, MP!AgreementInv, MP!WellFormed, MP!TypeOK, Txn
<1> QED
  BY <1>1, <1>3, <1>4, <1>5

LEMMA InitExchangeInv == Init => ExchangeInv
<1> SUFFICES ASSUME Init PROVE ExchangeInv
  OBVIOUS
<1>1. MP!AgreementInv
  BY SameMatching, Assumptions, MP!InitAgreement DEF Init
<1>2. EP!WellFormed
  BY SameEscrow, Assumptions, EP!InitWellFormed DEF Init
<1>3. Typed
  BY DEF Init, Typed
<1>4. \A t \in Threads : matching[t].at = "idle" /\ paying[t].at = "idle"
  BY DEF Init, Idle
<1>5. PaidForOpened
  BY <1>4 DEF Init, PaidForOpened, E!Init
<1>6. MP!SearchesExist
  BY SameMatching, Assumptions, MP!InitSearches DEF Init
<1>7. RatersAreMembers
  BY DEF Init, RatersAreMembers, Idle, RateJob
<1> QED
  BY <1>1, <1>2, <1>3, <1>5, <1>6, <1>7 DEF ExchangeInv

\* An update of a status is, to Matching, the closing of an open row or nothing.
LEMMA ClosingCloses ==
    ASSUME ExchangeInv, NEW x \in Txns, txns[x] # Null, NEW s \in {"COMPLETED", "CANCELLED"},
           SetStatus(x, s), UNCHANGED matchingVars
    PROVE  [MP!Next]_(MP!vars)
<1> DEFINE mapped == [y \in Txns |->
              IF txns[y] = Null THEN Null
              ELSE [txns[y] EXCEPT !.status = IF @ = "IN-PROGRESS" THEN @ ELSE "CLOSED"]]
           row == [txns[x] EXCEPT !.status = s]
<1>1. txns[x] \in Txn /\ txns \in [Txns -> Txn \cup {Null}]
  BY Agreed DEF ExchangeInv, Typed
<1>2. row \in Txn /\ row # Null
  BY <1>1, ExchangeAssumption DEF Txn
<1>3. txns' = [txns EXCEPT ![x] = row]
  BY <1>1 DEF SetStatus
<1>4. mapped' = [mapped EXCEPT ![x].status = "CLOSED"]
  <2>1. mapped[x] = [txns[x] EXCEPT !.status = IF @ = "IN-PROGRESS" THEN @ ELSE "CLOSED"]
    OBVIOUS
  <2>2. [mapped[x] EXCEPT !.status = "CLOSED"] = [row EXCEPT !.status = "CLOSED"]
    BY <2>1, <1>1 DEF Txn
  <2>3. txns'[x] = row
    BY <1>1, <1>3
  <2>4. mapped'[x] = [row EXCEPT !.status = "CLOSED"]
    BY <1>2, <2>3
  <2>5. \A y \in Txns \ {x} : mapped'[y] = mapped[y]
    BY <1>1, <1>3
  <2> QED
    BY <2>2, <2>4, <2>5
<1>5. mapped[x] # Null
  <2>1. mapped[x] \in MP!Txn
    BY <1>1 DEF Txn, MP!Txn
  <2> QED
    BY <2>1, Assumptions DEF MP!MatchingAssumption
<1>6. CASE txns[x].status = "IN-PROGRESS"
  <2>1. mapped[x].status = "IN-PROGRESS"
    BY <1>1, <1>6 DEF Txn
  <2>2. MP!CloseTxn(x)
    BY <1>4, <1>5, <2>1 DEF MP!CloseTxn, matchingVars
  <2> QED
    BY <2>2 DEF MP!Next
<1>7. CASE txns[x].status # "IN-PROGRESS"
  <2>1. mapped[x] = [txns[x] EXCEPT !.status = "CLOSED"]
    BY <1>1, <1>7 DEF Txn
  <2>2. [mapped[x] EXCEPT !.status = "CLOSED"] = mapped[x]
    BY <1>1, <2>1 DEF Txn
  <2>3. mapped' = mapped
    BY <1>4, <2>2
  <2> QED
    BY <2>3 DEF MP!vars, matchingVars
<1> QED
  BY <1>6, <1>7

\* A settlement is one of a payment for an opened transaction, and so is a cancellation.
LEMMA Settles ==
    ASSUME ExchangeInv, NEW t \in Threads,
           paying[t].at \in {"call bank", "mark payment", "mark txn", "clear stage"}
    PROVE  /\ paying[t] \in EP!SettleJob
           /\ paying[t].ref \in Refs
           /\ pay[paying[t].ref] # Null
           /\ pay[paying[t].ref].txn \in Txns
           /\ txns[pay[paying[t].ref].txn] # Null
<1>1. paying[t] \in EP!SettleJob
  BY Assumptions, EP!JobKind DEF ExchangeInv, EP!WellFormed
<1>2. paying[t].ref \in Refs /\ pay[paying[t].ref] # Null
  BY <1>1 DEF ExchangeInv, EP!WellFormed, EP!JobsFollowPayments, EP!JobFollowsPayment,
              EP!SettleJob
<1> QED
  BY <1>1, <1>2 DEF ExchangeInv, PaidForOpened, EP!WellFormed, EP!TypeOK, EP!Payment

LEMMA Cancels ==
    ASSUME ExchangeInv, NEW t \in Threads, paying[t].at = "cancel"
    PROVE  paying[t].txn \in Txns /\ txns[paying[t].txn] # Null
<1>1. paying[t] \in EP!CancelJob
  BY Assumptions, EP!JobKind DEF ExchangeInv, EP!WellFormed
<1> QED
  BY <1>1 DEF ExchangeInv, PaidForOpened, EP!CancelJob

-----------------------------------------------------------------------------
(* Steps of the exchange are steps of the components.                       *)

\* To Matching, a settlement that ends a search is the expiry of its key.
LEMMA MatchingSteps == ExchangeInv /\ [Next]_vars => [MP!Next]_(MP!vars)
<1> SUFFICES ASSUME ExchangeInv, [Next]_vars PROVE [MP!Next]_(MP!vars)
  OBVIOUS
<1>1. ASSUME UNCHANGED <<txns, matchingVars>> PROVE UNCHANGED MP!vars
  BY <1>1 DEF MP!vars, matchingVars
<1>2. ASSUME NEW c \in Users, NEW s \in Searches, NEW found \in SUBSET Agents, Search(c, s, found)
      PROVE  MP!Next
  BY <1>2, SameMatching DEF Search, MP!Next
<1>3. ASSUME NEW s \in Searches, ExpireSearch(s) PROVE MP!Next
  BY <1>3, SameMatching DEF ExpireSearch, MP!Next
<1>4. ASSUME NEW t \in Threads, StartMatching(t) PROVE MP!Next
  BY <1>4, SameMatching DEF StartMatching, MP!Next
<1>5. ASSUME NEW t \in Threads, MatchingStep(t) PROVE MP!Next
  BY <1>5, SameMatching DEF MatchingStep, OpenTxn, MP!Next, MP!Step
<1>6. ASSUME NEW t \in Threads, EscrowStep(t) PROVE [MP!Next]_(MP!vars)
  <2>1. CASE MarkTxn(t)
    BY <2>1, Settles, ClosingCloses DEF MarkTxn, OutsideEscrow
  <2>2. CASE Cancel(t)
    BY <2>2, Cancels, ClosingCloses DEF Cancel, OutsideEscrow
  <2>3. CASE ClearStage(t)
    <3> DEFINE s == requests[txns[pay[paying[t].ref].txn].request].search
    <3>1. search[s] # Null /\ s \in Searches
      BY <2>3, Settles, Agreed DEF ClearStage, ExchangeInv, MP!SearchesExist, Txn,
         MP!Request
    <3>2. CASE s \in expired
      BY <2>3, <3>2 DEF ClearStage, MP!vars, matchingVars
    <3>3. CASE s \notin expired
      <4>1. MP!ExpireSearch(s)
        BY <2>3, <3>1, <3>3 DEF ClearStage, MP!ExpireSearch, MP!Cached
      <4> QED
        BY <3>1, <4>1 DEF MP!Next
    <3> QED
      BY <3>2, <3>3
  <2> QED
    BY <1>1, <1>6, <2>1, <2>2, <2>3 DEF EscrowStep, OutsideEscrow
<1>7. ASSUME NEW t \in Threads, Abort(t) PROVE [MP!Next]_(MP!vars)
  BY <1>1, <1>7, SameMatching DEF Abort, CutClearing, OutsideEscrow, OutsideRatings, MP!Next
<1>8. ASSUME NEW t \in Threads,
             \/ StartEscrow(t) \/ RatingStep(t)
             \/ \E x \in Txns, u \in Users : RateLookup(t, x, u)
      PROVE  [MP!Next]_(MP!vars)
  BY <1>1, <1>8 DEF StartEscrow, RatingStep, CheckRated, InsertRating, RateLookup,
                    OutsideEscrow, OutsideRatings
<1>9. CASE UNCHANGED vars
  BY <1>1, <1>9 DEF vars
<1> QED
  BY <1>2, <1>3, <1>4, <1>5, <1>6, <1>7, <1>8, <1>9 DEF Next, Step

\* To Escrow, the opening of a row changes nothing: the row was open all along.
LEMMA EscrowSteps == ExchangeInv /\ [Next]_vars => [EP!Next]_(EP!vars)
<1> SUFFICES ASSUME ExchangeInv, [Next]_vars PROVE [EP!Next]_(EP!vars)
  OBVIOUS
<1>1. ASSUME UNCHANGED <<txns, escrowVars>> PROVE UNCHANGED EP!vars
  BY <1>1 DEF EP!vars, escrowVars
<1>2. ASSUME NEW t \in Threads, StartEscrow(t) PROVE EP!Next
  BY <1>2, SameEscrow DEF StartEscrow, EP!Next, E!Gateways, EP!Gateways
<1>3. ASSUME NEW t \in Threads, EscrowStep(t) PROVE EP!Next
  BY <1>3, SameEscrow DEF EscrowStep, MarkTxn, Cancel, ClearStage, EP!Next, EP!Step
<1>4. ASSUME NEW t \in Threads, OpenTxn(t) PROVE UNCHANGED EP!vars
  <2> DEFINE row == [request |-> matching[t].req,
                     customer |-> requests[matching[t].req].customer,
                     agent |-> requests[matching[t].req].agent,
                     status |-> "IN-PROGRESS", by |-> t]
             mapped == [x \in Txns |-> IF txns[x] = Null THEN "IN-PROGRESS" ELSE txns[x].status]
  <2>1. PICK x \in Txns : txns[x] = Null /\ txns' = [txns EXCEPT ![x] = row]
    BY <1>4 DEF OpenTxn
  <2>2. txns \in [Txns -> Txn \cup {Null}]
    BY DEF ExchangeInv, Typed
  <2>3. \A y \in Txns \ {x} : txns'[y] = txns[y]
    BY <2>1, <2>2
  <2>4. txns'[x] = row /\ row.status = "IN-PROGRESS"
    BY <2>1, <2>2
  <2>5. mapped' = mapped
    BY <2>1, <2>3, <2>4
  <2> QED
    BY <1>4, <2>5 DEF OpenTxn, OutsideMatching, EP!vars, escrowVars
<1>5. ASSUME NEW t \in Threads, Abort(t) PROVE [EP!Next]_(EP!vars)
  BY <1>1, <1>5, SameEscrow DEF Abort, CutClearing, OutsideMatching, OutsideRatings,
     EP!Next, EP!Step
<1>6. ASSUME \/ \E c \in Users, s \in Searches, found \in SUBSET Agents : Search(c, s, found)
             \/ \E s \in Searches : ExpireSearch(s)
             \/ \E t \in Threads :
                  \/ StartMatching(t)
                  \/ MatchingStep(t) /\ ~OpenTxn(t)
                  \/ RatingStep(t)
                  \/ \E x \in Txns, u \in Users : RateLookup(t, x, u)
      PROVE  UNCHANGED EP!vars
  BY <1>1, <1>6 DEF Search, ExpireSearch, StartMatching, MatchingStep, RatingStep,
     CheckRated,
                    InsertRating, RateLookup, OutsideMatching, OutsideRatings
<1>7. CASE UNCHANGED vars
  BY <1>1, <1>7 DEF vars
<1> QED
  BY <1>2, <1>3, <1>4, <1>5, <1>6, <1>7 DEF Next, Step

-----------------------------------------------------------------------------
(* Steps keep the invariant: each component keeps its own part, and the     *)
(* rows that one refers to are not removed by the other.                    *)

\* Who changes the table, and how.
LEMMA TxnsChange ==
    ASSUME [Next]_vars
    PROVE  \/ txns' = txns
           \/ \E t \in Threads : OpenTxn(t) \/ MarkTxn(t) \/ Cancel(t)
BY DEF Next, vars, Step, Search, ExpireSearch, StartMatching, MatchingStep, StartEscrow,
   EscrowStep,
       ClearStage, RateLookup, RatingStep, CheckRated, InsertRating, Abort, CutClearing,
       OutsideRatings

\* A row that was opened keeps everything but its status.
LEMMA RowsStay ==
    ASSUME ExchangeInv, [Next]_vars
    PROVE  /\ txns' \in [Txns -> Txn \cup {Null}]
           /\ \A x \in Txns : txns[x] # Null =>
                 /\ txns'[x] # Null
                 /\ txns'[x].request = txns[x].request
                 /\ txns'[x].customer = txns[x].customer
                 /\ txns'[x].agent = txns[x].agent
<1>1. txns \in [Txns -> Txn \cup {Null}]
  BY DEF ExchangeInv, Typed
<1>2. ASSUME NEW x \in Txns, NEW s \in {"COMPLETED", "CANCELLED"}, txns[x] # Null, SetStatus(x, s)
      PROVE  /\ txns' \in [Txns -> Txn \cup {Null}]
             /\ \A y \in Txns : txns[y] # Null =>
                   /\ txns'[y] # Null
                   /\ txns'[y].request = txns[y].request
                   /\ txns'[y].customer = txns[y].customer
                   /\ txns'[y].agent = txns[y].agent
  <2> DEFINE row == [txns[x] EXCEPT !.status = s]
  <2>1. txns[x] \in Txn /\ txns' = [txns EXCEPT ![x] = row]
    BY <1>1, <1>2 DEF SetStatus
  <2>2. /\ row \in Txn /\ row # Null /\ row.request = txns[x].request
        /\ row.customer = txns[x].customer /\ row.agent = txns[x].agent
    BY <2>1, ExchangeAssumption DEF Txn
  <2> QED
    BY <1>1, <2>1, <2>2
<1>3. ASSUME NEW t \in Threads, OpenTxn(t)
      PROVE  /\ txns' \in [Txns -> Txn \cup {Null}]
             /\ \A y \in Txns : txns[y] # Null => txns'[y] = txns[y]
  <2> DEFINE row == [request |-> matching[t].req,
                     customer |-> requests[matching[t].req].customer,
                     agent |-> requests[matching[t].req].agent,
                     status |-> "IN-PROGRESS", by |-> t]
  <2>1. PICK x \in Txns : txns[x] = Null /\ txns' = [txns EXCEPT ![x] = row]
    BY <1>3 DEF OpenTxn
  <2>2. matching[t] \in MP!ReactJob
    BY <1>3, MP!JobKind, Assumptions DEF OpenTxn, ExchangeInv, MP!AgreementInv,
       MP!WellFormed
  <2>3. matching[t].req \in Requests /\ requests[matching[t].req] \in MP!Request
    BY <2>2 DEF ExchangeInv, MP!AgreementInv, MP!WellFormed, MP!ReactsToRequest, MP!TypeOK,
                MP!ReactJob
  <2>4. row \in Txn
    BY <2>3 DEF Txn, MP!Request
  <2> QED
    BY <1>1, <2>1, <2>4
<1> QED
  BY <1>1, <1>2, <1>3, TxnsChange, Settles, Cancels DEF MarkTxn, Cancel

\* How the ratings change.
LEMMA RatingSteps ==
    ASSUME [Next]_vars
    PROVE  \/ UNCHANGED ratingVars
           \/ \E t \in Threads :
                /\ UNCHANGED <<txns, matchingVars, escrowVars>>
                /\ \/ \E x \in Txns, u \in Users : RateLookup(t, x, u)
                   \/ CheckRated(t) \/ InsertRating(t)
                   \/ /\ ratings' = ratings
                      /\ rating' = [rating EXCEPT ![t] = Idle]
BY DEF Next, vars, Step, Search, ExpireSearch, StartMatching, MatchingStep, OpenTxn,
   StartEscrow,
       EscrowStep, MarkTxn, Cancel, ClearStage, RateLookup, RatingStep, CheckRated,
       InsertRating,
       Abort, CutClearing, OutsideMatching, OutsideEscrow, OutsideRatings

LEMMA RaterKind ==
    ASSUME Typed, NEW t \in Threads, rating[t].at \in {"check rated", "insert rating"}
    PROVE  rating[t] \in RateJob
<1>1. Idle.at = "idle"
  BY DEF Idle
<1> QED
  BY <1>1 DEF Typed

\* A new rating is that of one member on the other.
LEMMA InsertEffect ==
    ASSUME ExchangeInv, NEW t \in Threads, InsertRating(t)
    PROVE  /\ rating[t] \in RateJob
           /\ rating' = [rating EXCEPT ![t] = Idle]
           /\ ratings' \in [Ratings -> Rating \cup {Null}]
           /\ \E n \in Ratings :
                /\ ratings[n] = Null
                /\ ratings'[n] \in Rating
                /\ ratings'[n] # Null
                /\ ratings'[n].txn = rating[t].txn
                /\ ratings'[n].by = rating[t].by
                /\ ratings'[n].thread = t
                /\ ratings'[n].by # ratings'[n].of
                /\ {ratings'[n].by, ratings'[n].of} = Members(rating[t].txn)
                /\ \A m \in Ratings \ {n} : ratings'[m] = ratings[m]
<1> DEFINE x == rating[t].txn
           row == [txn |-> x, by |-> rating[t].by,
                   of |-> IF rating[t].by = txns[x].agent THEN txns[x].customer
                                                          ELSE txns[x].agent,
                   thread |-> t]
<1>1. rating[t] \in RateJob
  BY RaterKind DEF InsertRating, ExchangeInv
<1>2. x \in Txns /\ txns[x] # Null /\ rating[t].by \in Members(x)
  BY <1>1 DEF ExchangeInv, RatersAreMembers, RateJob
<1>3. /\ txns[x].customer # txns[x].agent
      /\ txns[x].customer \in Users /\ txns[x].agent \in Users
  BY <1>2, Agreed DEF Txn
<1>4. row.by # row.of /\ {row.by, row.of} = Members(x) /\ row \in Rating
  BY <1>1, <1>2, <1>3 DEF Members, Rating, RateJob
<1>5. row # Null
  BY <1>4, ExchangeAssumption
<1>6. PICK n \in Ratings : ratings[n] = Null /\ ratings' = [ratings EXCEPT ![n] = row]
  BY DEF InsertRating
<1>7. /\ ratings' \in [Ratings -> Rating \cup {Null}]
      /\ ratings'[n] = row
      /\ \A m \in Ratings \ {n} : ratings'[m] = ratings[m]
  BY <1>4, <1>6 DEF ExchangeInv, Typed
<1>8. rating' = [rating EXCEPT ![t] = Idle]
  BY DEF InsertRating
<1>9. row.txn = x /\ row.by = rating[t].by /\ row.thread = t
  OBVIOUS
<1> HIDE DEF row, x
<1> DEFINE Inserted(m) ==
             /\ ratings[m] = Null
             /\ ratings'[m] \in Rating
             /\ ratings'[m] # Null
             /\ ratings'[m].txn = x
             /\ ratings'[m].by = rating[t].by
             /\ ratings'[m].thread = t
             /\ ratings'[m].by # ratings'[m].of
             /\ {ratings'[m].by, ratings'[m].of} = Members(x)
             /\ \A k \in Ratings \ {m} : ratings'[k] = ratings[k]
<1>10. Inserted(n)
  BY <1>4, <1>5, <1>6, <1>7, <1>9
<1>11. \E m \in Ratings : Inserted(m)
  BY <1>10
<1> QED
  BY <1>1, <1>7, <1>8, <1>11 DEF x

\* What a thread does about ratings.
LEMMA RaterMoves ==
    ASSUME ExchangeInv, [Next]_vars, NEW t \in Threads, rating'[t] \in RateJob
    PROVE  \/ \E x \in Txns, u \in Users : RateLookup(t, x, u)
           \/ /\ rating[t] \in RateJob
              /\ rating'[t].txn = rating[t].txn
              /\ rating'[t].by = rating[t].by
              /\ rating'[t] = rating[t] \/ CheckRated(t)
<1>1. rating'[t] # Idle
  <2>1. Idle.at = "idle" /\ \A j \in RateJob : j.at # "idle"
    BY DEF RateJob, Idle
  <2> QED
    BY <2>1
<1>2. CASE UNCHANGED ratingVars
  BY <1>2 DEF ratingVars
<1>3. ASSUME NEW u \in Threads, NEW x \in Txns, NEW v \in Users, RateLookup(u, x, v), u # t
      PROVE  rating'[t] = rating[t]
  BY <1>3 DEF RateLookup, ExchangeInv, Typed
<1>4. ASSUME NEW u \in Threads, CheckRated(u)
      PROVE  \/ rating'[t] = rating[t]
             \/ /\ CheckRated(t) /\ rating[t] \in RateJob
                /\ rating'[t].txn = rating[t].txn
                /\ rating'[t].by = rating[t].by
  <2>1. CASE u # t
    BY <1>4, <2>1 DEF CheckRated, ExchangeInv, Typed
  <2>2. CASE u = t
    <3>1. rating[t] \in RateJob
      BY <1>4, <2>2, RaterKind DEF CheckRated, ExchangeInv
    <3> QED
      BY <1>1, <1>4, <2>2, <3>1 DEF CheckRated, ExchangeInv, Typed, RateJob
  <2> QED
    BY <2>1, <2>2
<1>5. ASSUME NEW u \in Threads, rating' = [rating EXCEPT ![u] = Idle]
      PROVE  rating'[t] = rating[t]
  BY <1>1, <1>5 DEF ExchangeInv, Typed
<1> QED
  BY <1>2, <1>3, <1>4, <1>5, RatingSteps, InsertEffect

\* How the histories of cut handlers change.
LEMMA CutsChange ==
    ASSUME [Next]_vars
    PROVE  \/ UNCHANGED cutVars
           \/ \E t \in Threads :
                \/ CutClearing(t)
                \/ /\ uncleared' = IF paying[t].at = "clear stage"
                                    THEN uncleared \cup {paying[t].ref} ELSE uncleared
                   /\ unanswered' = IF paying[t].at \in {"set stage", "respond"}
                                     THEN unanswered \cup {paying[t].ref} ELSE unanswered
                   /\ EP!Abort(t)
<1>1. ASSUME NEW t \in Threads, Abort(t)
      PROVE  \/ UNCHANGED cutVars
             \/ CutClearing(t)
             \/ /\ uncleared' = IF paying[t].at = "clear stage"
                                 THEN uncleared \cup {paying[t].ref} ELSE uncleared
                /\ unanswered' = IF paying[t].at \in {"set stage", "respond"}
                                  THEN unanswered \cup {paying[t].ref} ELSE unanswered
                /\ EP!Abort(t)
  BY <1>1, SameEscrow DEF Abort, OutsideMatching, OutsideRatings
<1> QED
  BY <1>1 DEF Next, vars, Step, Search, ExpireSearch, StartMatching, MatchingStep, OpenTxn,
     StartEscrow,
       EscrowStep, MarkTxn, Cancel, ClearStage, RateLookup, RatingStep, CheckRated,
       InsertRating,
       OutsideMatching, OutsideEscrow, OutsideRatings

LEMMA NextTyped == ExchangeInv /\ [Next]_vars => Typed'
<1> SUFFICES ASSUME ExchangeInv, [Next]_vars PROVE Typed'
  OBVIOUS
<1> DEFINE Fine == /\ ratings' \in [Ratings -> Rating \cup {Null}]
                   /\ rating' \in [Threads -> {Idle} \cup RateJob]
<1>1. Fine
  <2>1. CASE UNCHANGED ratingVars
    BY <2>1 DEF ExchangeInv, Typed, ratingVars
  <2>2. ASSUME NEW t \in Threads, NEW x \in Txns, NEW u \in Users, RateLookup(t, x, u)
        PROVE  Fine
    BY <2>2 DEF RateLookup, ExchangeInv, Typed, RateJob
  <2>3. ASSUME NEW t \in Threads, CheckRated(t) PROVE Fine
    <3>1. rating[t] \in RateJob
      BY <2>3, RaterKind DEF CheckRated, ExchangeInv
    <3> QED
      BY <2>3, <3>1 DEF CheckRated, ExchangeInv, Typed, RateJob
  <2>4. ASSUME NEW t \in Threads, InsertRating(t) PROVE Fine
    BY <2>4, InsertEffect DEF ExchangeInv, Typed
  <2>5. ASSUME NEW t \in Threads, ratings' = ratings, rating' = [rating EXCEPT ![t] = Idle]
        PROVE  Fine
    BY <2>5 DEF ExchangeInv, Typed
  <2> QED
    BY <2>1, <2>2, <2>3, <2>4, <2>5, RatingSteps
<1>2. ASSUME NEW t \in Threads, paying[t].at \in {"set stage", "respond", "clear stage"}
      PROVE  paying[t].ref \in Refs
  BY <1>2, Assumptions, EP!JobKind DEF ExchangeInv, EP!WellFormed, EP!EntryJob, EP!SettleJob
<1>3. uncleared' \in SUBSET Refs /\ unanswered' \in SUBSET Refs
  <2>1. CASE UNCHANGED cutVars
    BY <2>1 DEF ExchangeInv, Typed, cutVars
  <2>2. ASSUME NEW t \in Threads, CutClearing(t)
        PROVE  uncleared' \in SUBSET Refs /\ unanswered' \in SUBSET Refs
    BY <1>2, <2>2 DEF CutClearing, ExchangeInv, Typed
  <2>3. ASSUME NEW t \in Threads,
               uncleared' = IF paying[t].at = "clear stage"
                            THEN uncleared \cup {paying[t].ref} ELSE uncleared,
               unanswered' = IF paying[t].at \in {"set stage", "respond"}
                             THEN unanswered \cup {paying[t].ref} ELSE unanswered
        PROVE  uncleared' \in SUBSET Refs /\ unanswered' \in SUBSET Refs
    BY <1>2, <2>3 DEF ExchangeInv, Typed
  <2> QED
    BY <2>1, <2>2, <2>3, CutsChange
<1> QED
  BY <1>1, <1>3, RowsStay DEF Typed

\* Whose step changes what a thread pays for.
LEMMA PayerSteps ==
    ASSUME [Next]_vars
    PROVE  \/ paying' = paying
           \/ \E t \in Threads : StartEscrow(t) \/ EP!Step(t) \/ EP!Abort(t)
<1>1. ASSUME NEW t \in Threads, EscrowStep(t) PROVE EP!Step(t)
  BY <1>1, SameEscrow DEF EscrowStep, MarkTxn, Cancel, ClearStage, EP!Step
<1>2. ASSUME NEW t \in Threads, Abort(t) PROVE paying' = paying \/ EP!Step(t) \/ EP!Abort(t)
  BY <1>2, SameEscrow DEF Abort, CutClearing, OutsideMatching, OutsideRatings, escrowVars,
     EP!Step
<1> QED
  BY <1>1, <1>2 DEF Next, vars, escrowVars, Step, Search, ExpireSearch, StartMatching,
     MatchingStep,
       OpenTxn, RateLookup, RatingStep, CheckRated, InsertRating, OutsideMatching,
       OutsideRatings

\* Rows are paid for that were opened: a payment is recorded by a handler that found
\* the row, and a handler starts on a row that exists.
LEMMA NextPaid == ExchangeInv /\ [Next]_vars => PaidForOpened'
<1> SUFFICES ASSUME ExchangeInv, [Next]_vars PROVE PaidForOpened'
  OBVIOUS
<1>1. [EP!Next]_(EP!vars) /\ EP!WellFormed /\ EP!EscrowAssumption
  BY EscrowSteps, Assumptions DEF ExchangeInv
<1>2. EP!WellFormed'
  BY <1>1, EP!NextWellFormed
<1>3. ASSUME NEW r \in Refs, pay'[r] # Null PROVE txns'[pay'[r].txn] # Null
  <2>1. CASE pay[r] # Null
    <3>1. pay[r].txn \in Txns /\ pay'[r].txn = pay[r].txn
      BY <1>1, <2>1, EP!RowsPersist DEF EP!PaymentsPersist, EP!WellFormed, EP!TypeOK,
         EP!Payment
    <3> QED
      BY <2>1, <3>1, RowsStay DEF ExchangeInv, PaidForOpened
  <2>2. CASE pay[r] = Null
    <3>1. PICK t \in Threads : /\ EP!Record(t) /\ paying[t] \in EP!EntryJob
                               /\ pay'[r].txn = paying[t].txn
      BY <1>1, <1>3, <2>2, EP!NewPayment
    <3>2. paying[t].txn \in Txns /\ txns[paying[t].txn] # Null
      BY <3>1 DEF ExchangeInv, PaidForOpened, EP!EntryJob
    <3> QED
      BY <3>1, <3>2, RowsStay
  <2> QED
    BY <2>1, <2>2
<1>4. ASSUME NEW t \in Threads,
             paying'[t].at \in {"check unpaid", "debit", "record", "set stage", "respond", "cancel"}
      PROVE  txns'[paying'[t].txn] # Null
  <2>1. \A x \in Txns : txns[x] # Null => txns'[x] # Null
    BY RowsStay
  <2>2. paying'[t].txn \in Txns
    <3>1. paying'[t] \in {EP!Idle} \cup EP!CheckJob \cup EP!EntryJob \cup EP!SettleJob \cup EP!CancelJob
      BY <1>2 DEF EP!WellFormed, EP!TypeOK
    <3>2. paying'[t] \in EP!CheckJob \cup EP!EntryJob \cup EP!CancelJob
      BY <1>4, <3>1, Assumptions, EP!JobAt
    <3> QED
      BY <3>2 DEF EP!CheckJob, EP!EntryJob, EP!CancelJob
  <2>3. CASE paying'[t] = paying[t]
    BY <1>4, <2>1, <2>2, <2>3 DEF ExchangeInv, PaidForOpened
  <2>4. CASE paying'[t] # paying[t] /\ paying'[t].at \in {"debit", "record"}
    BY <1>1, <2>1, <2>2, <2>4, EP!CheckMoves DEF ExchangeInv, PaidForOpened
  <2>5. CASE paying'[t] # paying[t] /\ paying'[t].at \in {"set stage", "respond"}
    <3>1. paying'[t].txn = paying[t].txn /\ paying[t].at \in {"record", "set stage"}
      BY <1>1, <2>5, EP!EntryMoves DEF EP!Record, EP!SetStage
    <3> QED
      BY <2>1, <2>2, <3>1 DEF ExchangeInv, PaidForOpened
  <2>6. CASE paying'[t] # paying[t] /\ paying'[t].at \in {"check unpaid", "cancel"}
    <3>1. PICK u \in Threads : StartEscrow(u)
      BY <1>1, <2>6, EP!StepsGoOn, PayerSteps
    <3>2. paying \in [Threads -> EP!Job]
      BY <1>1 DEF EP!WellFormed, EP!TypeOK, EP!Job
    <3>3. ASSUME NEW x \in Txns, NEW g, EP!PayLookup(u, x, g)
          PROVE  u = t /\ paying'[t].txn = x
      BY <2>6, <3>2, <3>3 DEF EP!PayLookup
    <3>4. ASSUME NEW x \in Txns, EP!CancelLookup(u, x) PROVE u = t /\ paying'[t].txn = x
      BY <2>6, <3>2, <3>4 DEF EP!CancelLookup
    <3>5. ASSUME NEW r, NEW as, EP!SettleLookup(u, r, as) PROVE FALSE
      BY <2>6, <3>2, <3>5 DEF EP!SettleLookup
    <3> QED
      BY <2>1, <3>1, <3>3, <3>4, <3>5, SameEscrow DEF StartEscrow, E!Gateways, EP!Gateways
  <2> QED
    BY <1>4, <2>3, <2>4, <2>5, <2>6
<1> QED
  BY <1>3, <1>4 DEF PaidForOpened

\* A member of a transaction stays one.
LEMMA NextRaters == ExchangeInv /\ [Next]_vars => RatersAreMembers'
<1> SUFFICES ASSUME ExchangeInv, [Next]_vars, NEW t \in Threads, rating'[t] \in RateJob
             PROVE  /\ txns'[rating'[t].txn] # Null
                    /\ rating'[t].by \in {txns'[rating'[t].txn].customer, txns'[rating'[t].txn].agent}
  BY DEF RatersAreMembers, Members
<1>1. \A x \in Txns : txns[x] # Null =>
         /\ txns'[x] # Null
         /\ txns'[x].customer = txns[x].customer /\ txns'[x].agent = txns[x].agent
  BY RowsStay
<1>2. CASE /\ rating[t] \in RateJob
           /\ rating'[t].txn = rating[t].txn
           /\ rating'[t].by = rating[t].by
  <2>1. rating[t].txn \in Txns
    BY <1>2 DEF RateJob
  <2> QED
    BY <1>1, <1>2, <2>1 DEF ExchangeInv, RatersAreMembers, Members
<1>3. ASSUME NEW x \in Txns, NEW u \in Users, RateLookup(t, x, u)
      PROVE  /\ txns'[rating'[t].txn] # Null
             /\ rating'[t].by \in {txns'[rating'[t].txn].customer, txns'[rating'[t].txn].agent}
  <2>1. rating'[t].txn = x /\ rating'[t].by = u /\ txns[x] # Null /\ u \in Members(x)
    BY <1>3 DEF RateLookup, ExchangeInv, Typed
  <2> QED
    BY <1>1, <2>1 DEF Members
<1> QED
  BY <1>2, <1>3, RaterMoves

LEMMA NextExchangeInv == ExchangeInv /\ [Next]_vars => ExchangeInv'
<1> SUFFICES ASSUME ExchangeInv, [Next]_vars PROVE ExchangeInv'
  OBVIOUS
<1>1. [MP!Next]_(MP!vars) /\ [EP!Next]_(EP!vars)
  BY MatchingSteps, EscrowSteps
<1>2. MP!AgreementInv'
  BY <1>1, Assumptions, MP!NextAgreement DEF ExchangeInv
<1>3. MP!SearchesExist'
  BY <1>1, Assumptions, MP!NextSearches DEF ExchangeInv, MP!AgreementInv
<1>4. EP!WellFormed'
  BY <1>1, Assumptions, EP!NextWellFormed DEF ExchangeInv
<1> QED
  BY <1>2, <1>3, <1>4, NextTyped, NextPaid, NextRaters DEF ExchangeInv

LEMMA AlwaysExchangeInv == Spec => []ExchangeInv
BY InitExchangeInv, NextExchangeInv, PTL DEF Spec

-----------------------------------------------------------------------------
(* Types, and the two components.                                           *)

LEMMA SameTypes ==
    /\ M!TypeOK <=> MP!TypeOK
    /\ E!TypeOK <=> EP!TypeOK
<1>1. /\ M!SearchResult = MP!SearchResult /\ M!Request = MP!Request /\ M!Txn = MP!Txn
      /\ M!Idle = MP!Idle /\ M!DispatchJob = MP!DispatchJob /\ M!ReactJob = MP!ReactJob
  BY DEF M!SearchResult, MP!SearchResult, M!Request, MP!Request, M!Txn, MP!Txn, M!Idle,
     MP!Idle,
         M!DispatchJob, MP!DispatchJob, M!ReactJob, MP!ReactJob
<1>2. /\ E!Payment = EP!Payment /\ E!Idle = EP!Idle /\ E!CheckJob = EP!CheckJob
      /\ E!EntryJob = EP!EntryJob /\ E!SettleJob = EP!SettleJob /\ E!CancelJob = EP!CancelJob
  BY DEF E!Gateways, EP!Gateways, E!Payment, EP!Payment, E!Idle, EP!Idle, E!CheckJob,
     EP!CheckJob,
         E!EntryJob, EP!EntryJob, E!SettleJob, EP!SettleJob, E!CancelJob, EP!CancelJob
<1>3. M!TypeOK <=> MP!TypeOK
  BY <1>1 DEF M!TypeOK, MP!TypeOK
<1>4. E!TypeOK <=> EP!TypeOK
  BY <1>2 DEF E!TypeOK, EP!TypeOK
<1> QED
  BY <1>3, <1>4

\* Every variable of the composition keeps its type, those of its components included.
THEOREM TypeCorrect == Spec => []TypeOK
<1>1. ExchangeInv => TypeOK
  BY SameTypes DEF ExchangeInv, Typed, TypeOK, MP!AgreementInv, MP!WellFormed, EP!WellFormed
<1> QED
  BY <1>1, AlwaysExchangeInv, PTL

\* Whatever payments, cancellations and ratings do to the table, searches, dispatches
\* and reactions behave as Matching says: a row closes once and never goes away.
THEOREM KeepsMatching == Spec => ImplementsMatching
<1>1. Init => M!Init
  BY DEF Init
<1>2. [MP!Next]_(MP!vars) => [M!Next]_(M!vars)
  <2>1. MP!Next => M!Next
    BY SameMatching DEF MP!Next, M!Next, MP!Step, M!Step
  <2>2. UNCHANGED MP!vars => UNCHANGED M!vars
    BY DEF MP!vars, M!vars
  <2> QED
    BY <2>1, <2>2
<1>3. ExchangeInv /\ [Next]_vars => [M!Next]_(M!vars)
  BY <1>2, MatchingSteps
<1> QED
  BY <1>1, <1>3, AlwaysExchangeInv, PTL DEF Spec, ImplementsMatching, M!Spec

\* Payments and cancellations behave as Escrow says while rows are opened, looked at
\* and rated.
THEOREM KeepsEscrow == Spec => ImplementsEscrow
<1>1. Init => E!Init
  BY DEF Init
<1>2. [EP!Next]_(EP!vars) => [E!Next]_(E!vars)
  <2>1. EP!Next => E!Next
    BY SameEscrow DEF EP!Next, E!Next, EP!Step, E!Step, EP!Gateways, E!Gateways
  <2>2. UNCHANGED EP!vars => UNCHANGED E!vars
    BY DEF EP!vars, E!vars
  <2> QED
    BY <2>1, <2>2
<1>3. ExchangeInv /\ [Next]_vars => [E!Next]_(E!vars)
  BY <1>2, EscrowSteps
<1> QED
  BY <1>1, <1>3, AlwaysExchangeInv, PTL DEF Spec, ImplementsEscrow, E!Spec

-----------------------------------------------------------------------------
(* Ratings follow settlements: a rating starts on a completed transaction,  *)
(* which has a settled payment, and that payment stays settled even if the  *)
(* transaction is cancelled meanwhile.                                      *)

SettledTxns == {x \in Txns : \E r \in Refs : /\ pay[r] # Null
                                              /\ pay[r].txn = x
                                              /\ pay[r].status # "IN_ESCROW"}

LEMMA SettledStay == ASSUME ExchangeInv, [Next]_vars PROVE SettledTxns \subseteq SettledTxns'
<1>1. EP!PaymentsPersist
  BY EscrowSteps, Assumptions, EP!RowsPersist DEF ExchangeInv
<1> QED
  BY <1>1 DEF SettledTxns, EP!PaymentsPersist

\* A completed row has a settled payment, in terms of the table.
LEMMA CompletedIsSettled ==
    ASSUME EP!CompletedTxnIsSettled, NEW x \in Txns, txns[x] # Null, txns[x].status = "COMPLETED"
    PROVE  x \in SettledTxns
BY DEF EP!CompletedTxnIsSettled, EP!PaymentsOf, EP!Settled, SettledTxns

FairlyRated(n) ==
    /\ ratings[n].txn \in SettledTxns
    /\ ratings[n].by # ratings[n].of
    /\ {ratings[n].by, ratings[n].of} = Members(ratings[n].txn)

RatedInv ==
    /\ EP!CompletedTxnIsSettled
    /\ \A t \in Threads : rating[t] \in RateJob => rating[t].txn \in SettledTxns
    /\ \A n \in Ratings : ratings[n] # Null =>
          /\ txns[ratings[n].txn] # Null
          /\ FairlyRated(n)

LEMMA InitRated == Init => RatedInv
<1> SUFFICES ASSUME Init PROVE RatedInv
  OBVIOUS
<1>1. \A t \in Threads : rating[t] \notin RateJob
  <2>1. Idle.at = "idle" /\ \A j \in RateJob : j.at # "idle"
    BY DEF RateJob, Idle
  <2> QED
    BY <2>1 DEF Init
<1>2. EP!CompletedTxnIsSettled
  BY DEF Init, EP!CompletedTxnIsSettled
<1> QED
  BY <1>1, <1>2 DEF Init, RatedInv

LEMMA NextRated == ExchangeInv /\ RatedInv /\ [Next]_vars => RatedInv'
<1> SUFFICES ASSUME ExchangeInv, RatedInv, [Next]_vars PROVE RatedInv'
  OBVIOUS
<1>1. EP!CompletedTxnIsSettled'
  BY EscrowSteps, Assumptions, EP!NextCompleted DEF ExchangeInv, RatedInv
<1>2. ASSUME NEW t \in Threads, rating'[t] \in RateJob PROVE rating'[t].txn \in SettledTxns'
  <2>1. rating'[t].txn \in SettledTxns
    <3>1. ASSUME NEW x \in Txns, NEW u \in Users, RateLookup(t, x, u)
          PROVE  rating'[t].txn \in SettledTxns
      <4>1. rating'[t].txn = x /\ txns[x] # Null /\ txns[x].status = "COMPLETED"
        BY <3>1 DEF RateLookup, ExchangeInv, Typed
      <4> QED
        BY <4>1, CompletedIsSettled DEF RatedInv
    <3> QED
      BY <1>2, <3>1, RaterMoves DEF RatedInv
  <2> QED
    BY <2>1, SettledStay
<1>3. ASSUME NEW n \in Ratings, ratings'[n] # Null
      PROVE  txns'[ratings'[n].txn] # Null /\ FairlyRated(n)'
  <2>1. CASE ratings'[n] = ratings[n]
    <3>1. /\ ratings[n].txn \in Txns /\ txns[ratings[n].txn] # Null
          /\ ratings[n].txn \in SettledTxns'
      BY <1>3, <2>1, SettledStay DEF RatedInv, FairlyRated, SettledTxns
    <3>2. /\ txns'[ratings[n].txn] # Null
          /\ txns'[ratings[n].txn].customer = txns[ratings[n].txn].customer
          /\ txns'[ratings[n].txn].agent = txns[ratings[n].txn].agent
      BY <3>1, RowsStay
    <3> QED
      BY <1>3, <2>1, <3>1, <3>2 DEF RatedInv, FairlyRated, Members
  <2>2. CASE ratings'[n] # ratings[n]
    <3>1. PICK t \in Threads : InsertRating(t) /\ UNCHANGED <<txns, escrowVars>>
      BY <2>2, RatingSteps DEF ratingVars, RateLookup, CheckRated
    <3>2. /\ rating[t] \in RateJob
          /\ ratings'[n].txn = rating[t].txn
          /\ ratings'[n].by # ratings'[n].of
          /\ {ratings'[n].by, ratings'[n].of} = Members(rating[t].txn)
      BY <2>2, <3>1, InsertEffect
    <3>3. txns[rating[t].txn] # Null /\ rating[t].txn \in SettledTxns'
      BY <3>2, SettledStay DEF ExchangeInv, RatersAreMembers, RatedInv
    <3> QED
      BY <3>1, <3>2, <3>3 DEF FairlyRated, Members
  <2> QED
    BY <2>1, <2>2
<1> QED
  BY <1>1, <1>2, <1>3 DEF RatedInv

\* A rating is one member's on the other, for an exchange whose payment was settled.
THEOREM RatingsAreFair == Spec => []RatedWasSettled
<1>1. ExchangeInv /\ RatedInv => RatedWasSettled
  <2> SUFFICES ASSUME ExchangeInv, RatedInv PROVE RatedWasSettled
    OBVIOUS
  <2>1. \A r \in Refs : pay[r] # Null => txns[pay[r].txn] # Null
    BY DEF ExchangeInv, PaidForOpened
  <2>2. ASSUME NEW x \in SettledTxns PROVE \E r \in E!PaymentsOf(x) : E!Settled(r)
    BY DEF SettledTxns, E!PaymentsOf, E!Settled
  <2> QED
    BY <2>1, <2>2 DEF RatedWasSettled, RatedInv, FairlyRated
<1> QED
  BY <1>1, InitRated, NextRated, AlwaysExchangeInv, PTL DEF Spec

-----------------------------------------------------------------------------
(* A thread that passed the check has not rated since.                      *)

NotRatedByMe ==
    \A t \in Threads, n \in Ratings :
       (rating[t].at = "insert rating" /\ ratings[n] # Null /\ ratings[n].thread = t) =>
          ~ (ratings[n].txn = rating[t].txn /\ ratings[n].by = rating[t].by)

LEMMA NextNotRated ==
    ExchangeInv /\ NotRatedByMe /\ [Next]_vars => NotRatedByMe'
<1> SUFFICES ASSUME ExchangeInv, NotRatedByMe, [Next]_vars, NEW t \in Threads, NEW n \in Ratings,
                    rating'[t].at = "insert rating", ratings'[n] # Null, ratings'[n].thread = t,
                    ratings'[n].txn = rating'[t].txn, ratings'[n].by = rating'[t].by
             PROVE  FALSE
  BY DEF NotRatedByMe
<1>1. rating'[t] \in RateJob
  <2>1. Idle.at = "idle"
    BY DEF Idle
  <2> QED
    BY <2>1, NextTyped DEF Typed
<1>2. CASE ratings'[n] # ratings[n]
  <2>1. PICK u \in Threads : InsertRating(u)
    BY <1>2, RatingSteps DEF ratingVars, RateLookup, CheckRated
  <2>2. ratings'[n].thread = u /\ rating' = [rating EXCEPT ![u] = Idle]
    BY <1>2, <2>1, InsertEffect
  <2>3. rating'[t] = Idle
    BY <2>2 DEF ExchangeInv, Typed
  <2> QED
    BY <2>3 DEF Idle
<1>3. CASE ratings'[n] = ratings[n]
  <2>1. CASE rating'[t] = rating[t]
    BY <1>3, <2>1 DEF NotRatedByMe
  <2>2. ASSUME NEW x \in Txns, NEW u \in Users, RateLookup(t, x, u) PROVE FALSE
    <3>1. rating'[t].at = "check rated"
      BY <2>2 DEF RateLookup, ExchangeInv, Typed
    <3> QED
      BY <3>1
  <2>3. ASSUME CheckRated(t), rating[t] \in RateJob, rating'[t] # rating[t],
               rating'[t].txn = rating[t].txn, rating'[t].by = rating[t].by
        PROVE  FALSE
    <3>1. CASE \E m \in Ratings : /\ ratings[m] # Null
                                  /\ ratings[m].txn = rating[t].txn
                                  /\ ratings[m].by = rating[t].by
      <4>1. rating'[t] = Idle
        BY <2>3, <3>1 DEF CheckRated, ExchangeInv, Typed
      <4> QED
        BY <4>1 DEF Idle
    <3> QED
      BY <1>3, <2>3, <3>1
  <2> QED
    BY <1>1, <2>1, <2>2, <2>3, RaterMoves
<1> QED
  BY <1>2, <1>3

LEMMA NextRatedOnce ==
    ExchangeInv /\ NotRatedByMe /\ OnlyOverlapDoublesRatings /\ [Next]_vars =>
       OnlyOverlapDoublesRatings'
<1> SUFFICES ASSUME ExchangeInv, NotRatedByMe, OnlyOverlapDoublesRatings, [Next]_vars,
                    NEW m \in Ratings, NEW n \in Ratings, m # n,
                    ratings'[m] # Null, ratings'[n] # Null,
                    ratings'[m].thread = ratings'[n].thread,
                    ratings'[m].txn = ratings'[n].txn, ratings'[m].by = ratings'[n].by
             PROVE  FALSE
  BY DEF OnlyOverlapDoublesRatings
<1>1. CASE ratings'[m] = ratings[m] /\ ratings'[n] = ratings[n]
  BY <1>1 DEF OnlyOverlapDoublesRatings
<1>2. ASSUME NEW a \in Ratings, NEW b \in Ratings, a # b, ratings'[a] # ratings[a],
             ratings'[b] # Null, ratings'[a].thread = ratings'[b].thread,
             ratings'[a].txn = ratings'[b].txn, ratings'[a].by = ratings'[b].by
      PROVE  FALSE
  <2>1. PICK t \in Threads : InsertRating(t)
    BY <1>2, RatingSteps DEF ratingVars, RateLookup, CheckRated
  <2>2. /\ ratings'[a].txn = rating[t].txn
        /\ ratings'[a].by = rating[t].by
        /\ ratings'[a].thread = t
        /\ ratings'[b] = ratings[b]
    BY <1>2, <2>1, InsertEffect
  <2>3. ratings[b] # Null /\ ratings[b].thread = t
    BY <1>2, <2>2
  <2>4. rating[t].at = "insert rating"
    BY <2>1 DEF InsertRating
  <2> QED
    BY <1>2, <2>2, <2>3, <2>4 DEF NotRatedByMe
<1> QED
  BY <1>1, <1>2

\* A member rates an exchange twice only by calls that overlapped.
THEOREM RatingDoublesOverlap == Spec => []OnlyOverlapDoublesRatings
<1>1. Init => NotRatedByMe /\ OnlyOverlapDoublesRatings
  BY DEF Init, NotRatedByMe, OnlyOverlapDoublesRatings
<1> QED
  BY <1>1, NextNotRated, NextRatedOnce, AlwaysExchangeInv, PTL DEF Spec

-----------------------------------------------------------------------------
(* What a lock on the pair of a transaction and its rater would give.       *)

\* Nobody rates a transaction in two calls at once: what such a lock would keep.
TurnsPerRater ==
    \A t, u \in Threads :
       (t # u /\ rating[t] # Idle /\ rating[u] # Idle) =>
          <<rating[t].txn, rating[t].by>> # <<rating[u].txn, rating[u].by>>

\* What the check before the insertion is there for.
RatedOnce ==
    \A m, n \in Ratings :
       (m # n /\ ratings[m] # Null /\ ratings[n] # Null) =>
          <<ratings[m].txn, ratings[m].by>> # <<ratings[n].txn, ratings[n].by>>

\* A thread that passed the check is still right.
NotRatedYet ==
    \A t \in Threads, n \in Ratings :
       (rating[t].at = "insert rating" /\ ratings[n] # Null) =>
          <<ratings[n].txn, ratings[n].by>> # <<rating[t].txn, rating[t].by>>

LEMMA NextNotRatedYet ==
    ExchangeInv /\ TurnsPerRater /\ NotRatedYet /\ [Next]_vars => NotRatedYet'
<1> SUFFICES ASSUME ExchangeInv, TurnsPerRater, NotRatedYet, [Next]_vars,
                    NEW t \in Threads, NEW n \in Ratings,
                    rating'[t].at = "insert rating", ratings'[n] # Null,
                    ratings'[n].txn = rating'[t].txn, ratings'[n].by = rating'[t].by
             PROVE  FALSE
  BY DEF NotRatedYet
<1>1. rating'[t] \in RateJob
  <2>1. Idle.at = "idle"
    BY DEF Idle
  <2> QED
    BY <2>1, NextTyped DEF Typed
<1>2. CASE ratings'[n] # ratings[n]
  <2>1. PICK u \in Threads : InsertRating(u)
    BY <1>2, RatingSteps DEF ratingVars, RateLookup, CheckRated
  <2>2. /\ rating[u] \in RateJob /\ rating' = [rating EXCEPT ![u] = Idle]
        /\ ratings'[n].txn = rating[u].txn /\ ratings'[n].by = rating[u].by
    BY <1>2, <2>1, InsertEffect
  <2>3. rating'[u] = Idle /\ (t # u => rating'[t] = rating[t])
    BY <2>2 DEF ExchangeInv, Typed
  <2>4. t # u /\ rating[t] # Idle /\ rating[u] # Idle
    <3>1. Idle.at = "idle" /\ rating[u].at # "idle"
      BY <2>2 DEF Idle, RateJob
    <3> QED
      BY <2>3, <3>1
  <2> QED
    BY <2>2, <2>3, <2>4 DEF TurnsPerRater
<1>3. CASE ratings'[n] = ratings[n]
  <2>1. CASE rating'[t] = rating[t]
    BY <1>3, <2>1 DEF NotRatedYet
  <2>2. ASSUME NEW x \in Txns, NEW u \in Users, RateLookup(t, x, u) PROVE FALSE
    <3>1. rating'[t].at = "check rated"
      BY <2>2 DEF RateLookup, ExchangeInv, Typed
    <3> QED
      BY <3>1
  <2>3. ASSUME CheckRated(t), rating[t] \in RateJob, rating'[t] # rating[t],
               rating'[t].txn = rating[t].txn, rating'[t].by = rating[t].by
        PROVE  FALSE
    <3>1. CASE \E m \in Ratings : /\ ratings[m] # Null
                                  /\ ratings[m].txn = rating[t].txn
                                  /\ ratings[m].by = rating[t].by
      <4>1. rating'[t] = Idle
        BY <2>3, <3>1 DEF CheckRated, ExchangeInv, Typed
      <4> QED
        BY <4>1 DEF Idle
    <3> QED
      BY <1>3, <2>3, <3>1
  <2> QED
    BY <1>1, <2>1, <2>2, <2>3, RaterMoves
<1> QED
  BY <1>2, <1>3

LEMMA NextOncePerRater == ExchangeInv /\ NotRatedYet /\ RatedOnce /\ [Next]_vars => RatedOnce'
<1> SUFFICES ASSUME ExchangeInv, NotRatedYet, RatedOnce, [Next]_vars,
                    NEW m \in Ratings, NEW n \in Ratings, m # n,
                    ratings'[m] # Null, ratings'[n] # Null,
                    ratings'[m].txn = ratings'[n].txn, ratings'[m].by = ratings'[n].by
             PROVE  FALSE
  BY DEF RatedOnce
<1>1. CASE ratings'[m] = ratings[m] /\ ratings'[n] = ratings[n]
  BY <1>1 DEF RatedOnce
<1>2. ASSUME NEW a \in Ratings, NEW b \in Ratings, a # b, ratings'[a] # ratings[a],
             ratings'[a] # Null, ratings'[b] # Null,
             ratings'[a].txn = ratings'[b].txn, ratings'[a].by = ratings'[b].by
      PROVE  FALSE
  <2>1. PICK t \in Threads : InsertRating(t)
    BY <1>2, RatingSteps DEF ratingVars, RateLookup, CheckRated
  <2>2. /\ ratings'[a].txn = rating[t].txn
        /\ ratings'[a].by = rating[t].by
        /\ ratings'[b] = ratings[b]
    BY <1>2, <2>1, InsertEffect
  <2>3. rating[t].at = "insert rating"
    BY <2>1 DEF InsertRating
  <2> QED
    BY <1>2, <2>2, <2>3 DEF NotRatedYet
<1> QED
  BY <1>1, <1>2

\* The overlap of a member's calls is the only cause of a second rating: where
\* the calls of a member on a transaction take turns, nobody rates it twice.
THEOREM TurnsKeepOneRating == Spec /\ []TurnsPerRater => []RatedOnce
<1>1. Init => NotRatedYet /\ RatedOnce
  BY DEF Init, NotRatedYet, RatedOnce
<1> QED
  BY <1>1, NextNotRatedYet, NextOncePerRater, AlwaysExchangeInv, PTL DEF Spec

-----------------------------------------------------------------------------
(* What handlers that were not cut leave behind.                            *)

\* A handler at work is moved on by its own steps or cut.
LEMMA PayerGoesOn ==
    ASSUME ExchangeInv, [Next]_vars, NEW t \in Threads, paying'[t] # paying[t],
           paying[t].at # "idle"
    PROVE  \/ EscrowStep(t)
           \/ CutClearing(t)
           \/ /\ uncleared' = IF paying[t].at = "clear stage"
                               THEN uncleared \cup {paying[t].ref} ELSE uncleared
              /\ unanswered' = IF paying[t].at \in {"set stage", "respond"}
                                THEN unanswered \cup {paying[t].ref} ELSE unanswered
              /\ EP!Abort(t)
<1> DEFINE Cut(u) ==
      /\ uncleared' = IF paying[u].at = "clear stage"
                      THEN uncleared \cup {paying[u].ref} ELSE uncleared
      /\ unanswered' = IF paying[u].at \in {"set stage", "respond"}
                       THEN unanswered \cup {paying[u].ref} ELSE unanswered
      /\ EP!Abort(u)
<1>1. \E u \in Threads : StartEscrow(u) \/ EscrowStep(u) \/ CutClearing(u) \/ Cut(u)
  <2>1. ASSUME NEW u \in Threads, Abort(u)
        PROVE  paying' = paying \/ CutClearing(u) \/ Cut(u)
    BY <2>1, SameEscrow DEF Abort, OutsideMatching, OutsideRatings, escrowVars
  <2> QED
    BY <2>1 DEF Next, vars, escrowVars, Step, Search, ExpireSearch, StartMatching,
       MatchingStep,
       OpenTxn, RateLookup, RatingStep, CheckRated, InsertRating, OutsideMatching,
       OutsideRatings
<1> HIDE DEF Cut
<1>2. ASSUME NEW u \in Threads, StartEscrow(u) PROVE FALSE
  <2>1. paying \in [Threads -> EP!Job]
    BY DEF ExchangeInv, EP!WellFormed, EP!TypeOK, EP!Job
  <2>2. paying[u] = Idle
    BY <1>2 DEF StartEscrow, Free
  <2>3. u # t
    BY <2>2 DEF Idle
  <2>4. paying'[t] = paying[t]
    BY <1>2, <2>1, <2>3 DEF StartEscrow, E!PayLookup, E!CancelLookup, E!SettleLookup
  <2> QED
    BY <2>4
<1>3. ASSUME NEW u \in Threads, EscrowStep(u) \/ CutClearing(u) \/ Cut(u) PROVE u = t
  <2>1. EP!Step(u) \/ EP!Abort(u)
    BY <1>3, SameEscrow
       DEF EscrowStep, MarkTxn, Cancel, ClearStage, CutClearing, Cut, EP!Step
  <2> QED
    BY <2>1, Assumptions, EP!OwnStep DEF ExchangeInv
<1> QED
  BY <1>1, <1>2, <1>3 DEF Cut

\* What was deleted stays deleted, and what was told or cut is not forgotten.
LEMMA HistoriesGrow ==
    ASSUME ExchangeInv, [Next]_vars
    PROVE  /\ expired \subseteq expired'
           /\ unclosed \subseteq unclosed' /\ known \subseteq known'
           /\ uncleared \subseteq uncleared' /\ unanswered \subseteq unanswered'
<1>1. [EP!Next]_(EP!vars) /\ [MP!Next]_(MP!vars)
  BY EscrowSteps, MatchingSteps
<1>2. expired \subseteq expired'
  BY <1>1 DEF MP!Next, MP!vars, MP!Step, MP!Search, MP!ExpireSearch, MP!DispatchLookup,
     MP!ReactLookup, MP!DispatchCheckSent, MP!DispatchInsert, MP!PublishDecline, MP!Decline,
     MP!CheckCustomer, MP!Accept, MP!OpenTxn, MP!PublishAccept, MP!Abort, MP!CloseTxn
<1>3. unclosed \subseteq unclosed'
  BY <1>1, Assumptions, EP!HistoryPersists
<1>4. known \subseteq known'
  BY <1>1, Assumptions, EP!KnownChanges DEF EP!Respond
<1>5. uncleared \subseteq uncleared' /\ unanswered \subseteq unanswered'
  BY CutsChange DEF cutVars, CutClearing
<1> QED
  BY <1>2, <1>3, <1>4, <1>5

LEMMA NextEnds == ExchangeInv /\ SettlementEndsSearch /\ [Next]_vars => SettlementEndsSearch'
<1> SUFFICES ASSUME ExchangeInv, SettlementEndsSearch, [Next]_vars, NEW r \in Refs,
                    pay'[r] # Null, pay'[r].status # "IN_ESCROW"
             PROVE  \/ requests'[txns'[pay'[r].txn].request].search \in expired'
                    \/ r \in unclosed' \cup uncleared'
                    \/ \E t \in Threads : /\ paying'[t].at \in {"mark txn", "clear stage"}
                                           /\ paying'[t].ref = r
  BY DEF SettlementEndsSearch, E!Settled
<1>1. [EP!Next]_(EP!vars) /\ EP!WellFormed /\ EP!EscrowAssumption
  BY EscrowSteps, Assumptions DEF ExchangeInv
<1>2. CASE pay[r] = Null \/ pay[r].status = "IN_ESCROW"
  <2>1. PICK t \in Threads : EP!MarkPayment(t) /\ paying[t].ref = r
    BY <1>1, <1>2, EP!PayChanges, EP!RecordEffect, EP!MarkEffect, EP!NewPayment
  <2>2. paying[t] \in EP!SettleJob
    BY <1>1, <2>1, EP!MarkEffect
  <2>3. paying'[t].at = "mark txn" /\ paying'[t].ref = r
    BY <1>1, <2>1, <2>2, EP!GoToJob DEF EP!MarkPayment, EP!WellFormed
  <2> QED
    BY <2>3
<1>3. CASE pay[r] # Null /\ pay[r].status # "IN_ESCROW"
  <2> DEFINE x == pay[r].txn
  <2>1. pay'[r].txn = x /\ x \in Txns /\ txns[x] # Null
    BY <1>1, <1>3, EP!RowsPersist
       DEF EP!PaymentsPersist, EP!WellFormed, EP!TypeOK, EP!Payment, ExchangeInv, PaidForOpened
  <2>2. requests'[txns'[x].request].search = requests[txns[x].request].search
    <3>1. txns'[x].request = txns[x].request
      BY <2>1, RowsStay
    <3>2. txns[x].request \in Requests /\ requests[txns[x].request] # Null
      BY <2>1, Agreed DEF Txn
    <3> QED
      BY <3>1, <3>2, MatchingSteps, Assumptions, MP!RowsPersist
         DEF MP!RequestsPersist, ExchangeInv, MP!AgreementInv
  <2>3. ASSUME NEW t \in Threads, paying[t].at \in {"mark txn", "clear stage"}, paying[t].ref = r,
               paying'[t] # paying[t]
        PROVE  \/ requests[txns[x].request].search \in expired'
               \/ r \in unclosed' \cup uncleared'
               \/ paying'[t].at = "clear stage" /\ paying'[t].ref = r
    <3>1. paying[t] \in EP!SettleJob
      BY <2>3, Settles
    <3>2. CASE EscrowStep(t)
      <4>1. CASE MarkTxn(t)
        BY <1>1, <2>3, <3>1, <4>1, SameEscrow, EP!GoToJob
           DEF MarkTxn, EP!MarkTxn, EP!WellFormed
      <4>2. CASE ClearStage(t)
        BY <2>3, <4>2 DEF ClearStage
      <4> QED
        BY <2>3, <3>2, <4>1, <4>2
           DEF EscrowStep, Cancel, E!CheckUnpaid, E!Debit, E!DebitUnanswered, E!Record, E!SetStage,
               E!Respond, E!CallBank, E!BankCallRaises, E!MarkPayment
    <3>3. CASE CutClearing(t)
      BY <2>3, <3>3 DEF CutClearing
    <3>4. ASSUME EP!Abort(t), paying[t].at = "mark txn" PROVE r \in unclosed'
      BY <2>3, <3>4 DEF EP!Abort
    <3> QED
      BY <2>3, <3>2, <3>3, <3>4, PayerGoesOn
  <2>4. \/ requests[txns[x].request].search \in expired
        \/ r \in unclosed \cup uncleared
        \/ \E t \in Threads : paying[t].at \in {"mark txn", "clear stage"} /\ paying[t].ref = r
    BY <1>3 DEF SettlementEndsSearch, E!Settled
  <2> QED
    BY <2>1, <2>2, <2>3, <2>4, HistoriesGrow
<1> QED
  BY <1>2, <1>3

\* A settled exchange ends its search unless its handler was cut.
THEOREM SettlementsEndSearches == Spec => []SettlementEndsSearch
<1>1. Init => SettlementEndsSearch
  BY DEF Init, E!Init, SettlementEndsSearch, E!Settled
<1> QED
  BY <1>1, NextEnds, AlwaysExchangeInv, PTL DEF Spec

LEMMA NextHeld == ExchangeInv /\ HeldCanBeSettled /\ [Next]_vars => HeldCanBeSettled'
<1> SUFFICES ASSUME ExchangeInv, HeldCanBeSettled, [Next]_vars, NEW r \in Refs,
                    pay'[r] # Null, pay'[r].status = "IN_ESCROW"
             PROVE  \/ r \in known' \cup unanswered'
                    \/ \E t \in Threads : /\ paying'[t].at \in {"set stage", "respond"}
                                           /\ paying'[t].ref = r
  BY DEF HeldCanBeSettled
<1>1. [EP!Next]_(EP!vars) /\ EP!WellFormed /\ EP!EscrowAssumption
  BY EscrowSteps, Assumptions DEF ExchangeInv
<1>2. CASE pay[r] = Null
  <2>1. PICK t \in Threads : EP!Record(t) /\ paying[t] \in EP!EntryJob /\ paying[t].ref = r
    BY <1>1, <1>2, EP!NewPayment
  <2>2. paying'[t].at = "set stage" /\ paying'[t].ref = r
    BY <1>1, <2>1, EP!GoToJob DEF EP!Record, EP!WellFormed
  <2> QED
    BY <2>2
<1>3. CASE pay[r] # Null
  <2>1. pay[r].status = "IN_ESCROW"
    BY <1>1, <1>3, EP!RowsPersist DEF EP!PaymentsPersist
  <2>2. ASSUME NEW t \in Threads, paying[t].at \in {"set stage", "respond"}, paying[t].ref = r,
               paying'[t] # paying[t]
        PROVE  \/ r \in known' \cup unanswered'
               \/ paying'[t].at = "respond" /\ paying'[t].ref = r
    <3>1. paying[t] \in EP!EntryJob
      BY <1>1, <2>2, EP!JobKind DEF EP!WellFormed
    <3>2. CASE EscrowStep(t)
      <4>1. CASE E!SetStage(t)
        BY <1>1, <2>2, <3>1, <4>1, SameEscrow, EP!GoToJob DEF EP!SetStage, EP!WellFormed
      <4>2. CASE E!Respond(t)
        BY <2>2, <4>2 DEF E!Respond
      <4> QED
        BY <2>2, <3>2, <4>1, <4>2
           DEF EscrowStep, MarkTxn, Cancel, ClearStage, E!CheckUnpaid, E!Debit, E!DebitUnanswered,
               E!Record, E!CallBank, E!BankCallRaises, E!MarkPayment
    <3>3. ~CutClearing(t)
      BY <2>2 DEF CutClearing
    <3> QED
      BY <2>2, <3>2, <3>3, PayerGoesOn
  <2>3. \/ r \in known \cup unanswered
        \/ \E t \in Threads : paying[t].at \in {"set stage", "respond"} /\ paying[t].ref = r
    BY <1>3, <2>1 DEF HeldCanBeSettled
  <2> QED
    BY <2>2, <2>3, HistoriesGrow
<1> QED
  BY <1>2, <1>3

\* A payment held in escrow can be settled by its payer unless the handler was cut
\* before the response.
THEOREM HeldAreKnown == Spec => []HeldCanBeSettled
<1>1. Init => HeldCanBeSettled
  BY DEF Init, E!Init, HeldCanBeSettled
<1> QED
  BY <1>1, NextHeld, AlwaysExchangeInv, PTL DEF Spec

-----------------------------------------------------------------------------
(* What is proved of a component alone holds of it in the exchange, as the  *)
(* exchange runs both components.                                           *)

LEMMA ComponentsRun == Spec => MP!Spec /\ EP!Spec
<1>1. Init => MP!Init /\ EP!Init
  BY SameMatching, SameEscrow DEF Init
<1> QED
  BY <1>1, MatchingSteps, EscrowSteps, AlwaysExchangeInv, PTL DEF Spec, MP!Spec, EP!Spec

\* Searches, dispatches and reactions keep what Matching promises while others pay
\* for, cancel and rate the transactions that they open.
THEOREM MatchingPromises ==
    Spec => [](/\ M!TxnFollowsRequest
               /\ M!OnlyOverlapDoublesTxns
               /\ M!OnlyOverlapDoublesDispatch
               /\ M!AcceptedHasTxn
               /\ M!ToldAcceptedHasTxn)
<1>1. MP!Spec => []MP!TxnFollowsRequest
  BY MP!TxnsFollowRequests, Assumptions
<1>2. MP!Spec => []MP!OnlyOverlapDoublesTxns
  BY MP!TxnDoublesOverlap, Assumptions
<1>3. MP!Spec => []MP!OnlyOverlapDoublesDispatch
  BY MP!DispatchDoublesOverlap, Assumptions
<1>4. MP!Spec => []MP!AcceptedHasTxn
  BY MP!AcceptanceOpens, Assumptions
<1>5. MP!Spec => []MP!ToldAcceptedHasTxn
  BY MP!ToldAfterInsert, Assumptions
<1>6. /\ MP!TxnFollowsRequest => M!TxnFollowsRequest
      /\ MP!OnlyOverlapDoublesTxns => M!OnlyOverlapDoublesTxns
      /\ MP!OnlyOverlapDoublesDispatch => M!OnlyOverlapDoublesDispatch
  BY DEF MP!TxnFollowsRequest, M!TxnFollowsRequest, MP!OnlyOverlapDoublesTxns,
         M!OnlyOverlapDoublesTxns, MP!OnlyOverlapDoublesDispatch,
         M!OnlyOverlapDoublesDispatch
<1>7. /\ MP!AcceptedHasTxn => M!AcceptedHasTxn
      /\ MP!ToldAcceptedHasTxn => M!ToldAcceptedHasTxn
  BY DEF MP!AcceptedHasTxn, M!AcceptedHasTxn, MP!ToldAcceptedHasTxn, M!ToldAcceptedHasTxn,
         MP!Opened, M!Opened
<1> QED
  BY <1>1, <1>2, <1>3, <1>4, <1>5, <1>6, <1>7, ComponentsRun, PTL

\* Payments, settlements and cancellations keep what Escrow promises while others
\* open and rate the transactions that they are for.
THEOREM EscrowPromises ==
    Spec => [](/\ E!RecordedWasCharged
               /\ E!ChargeIsRecorded
               /\ E!OnlyOverlapDoublesPayments
               /\ E!CompletedTxnIsSettled
               /\ E!SettlementClosesTxn
               /\ E!AwaitedCashIsRecorded)
<1>1. EP!Spec => []EP!RecordedWasCharged
  BY EP!RecordedPaymentsWereCharged, Assumptions
<1>2. EP!Spec => []EP!ChargeIsRecorded
  BY EP!ChargesAreRecorded, Assumptions
<1>3. EP!Spec => []EP!OnlyOverlapDoublesPayments
  BY EP!PaymentDoublesOverlap, Assumptions
<1>4. EP!Spec => []EP!CompletedTxnIsSettled
  BY EP!CompletedAreSettled, Assumptions
<1>5. EP!Spec => []EP!SettlementClosesTxn
  BY EP!SettlementsClose, Assumptions
<1>6. EP!Spec => []EP!AwaitedCashIsRecorded
  BY EP!AwaitedIsRecorded, Assumptions
<1>7. /\ EP!RecordedWasCharged => E!RecordedWasCharged
      /\ EP!ChargeIsRecorded => E!ChargeIsRecorded
      /\ EP!OnlyOverlapDoublesPayments => E!OnlyOverlapDoublesPayments
  BY DEF EP!RecordedWasCharged, E!RecordedWasCharged, EP!ChargeIsRecorded,
         E!ChargeIsRecorded, EP!OnlyOverlapDoublesPayments, E!OnlyOverlapDoublesPayments
<1>8. /\ EP!CompletedTxnIsSettled => E!CompletedTxnIsSettled
      /\ EP!SettlementClosesTxn => E!SettlementClosesTxn
      /\ EP!AwaitedCashIsRecorded => E!AwaitedCashIsRecorded
  BY DEF EP!CompletedTxnIsSettled, E!CompletedTxnIsSettled, EP!SettlementClosesTxn,
         E!SettlementClosesTxn, EP!AwaitedCashIsRecorded, E!AwaitedCashIsRecorded,
         EP!PaymentsOf, E!PaymentsOf, EP!Settled, E!Settled
<1> QED
  BY <1>1, <1>2, <1>3, <1>4, <1>5, <1>6, <1>7, <1>8, ComponentsRun, PTL

-----------------------------------------------------------------------------
(* What follows for the exchange, from both.                                *)

\* A payment can be traced back: to a transaction between two members, to a request
\* of the one to the other that was answered, to a search that was issued.
Traced(r) ==
    LET x == pay[r].txn
        q == txns[x].request
    IN  /\ r \in charged
        /\ txns[x] # Null
        /\ requests[q] # Null
        /\ requests[q].status # "PENDING"
        /\ txns[x].customer = requests[q].customer
        /\ txns[x].agent = requests[q].agent
        /\ txns[x].customer # txns[x].agent
        /\ search[requests[q].search] # Null

PaymentsAreTraced == \A r \in Refs : pay[r] # Null => Traced(r)

\* Nobody's money is held or moved but for a request that was made and answered.
THEOREM MoneyIsTraced == Spec => []PaymentsAreTraced
<1>1. ASSUME ExchangeInv, M!TxnFollowsRequest, E!RecordedWasCharged, NEW r \in Refs,
             pay[r] # Null
      PROVE  Traced(r)
  <2> DEFINE x == pay[r].txn
             row == [txns[x] EXCEPT !.status = IF @ = "IN-PROGRESS" THEN @ ELSE "CLOSED"]
  <2>1. x \in Txns /\ txns[x] # Null
    BY <1>1 DEF ExchangeInv, PaidForOpened, EP!WellFormed, EP!TypeOK, EP!Payment
  <2>2. txns[x] \in Txn
    BY <1>1, <2>1 DEF ExchangeInv, Typed
  <2>3. /\ row.request = txns[x].request
        /\ row.customer = txns[x].customer
        /\ row.agent = txns[x].agent
    BY <2>2 DEF Txn
  <2>4. row # Null
    <3>1. row \in MP!Txn
      BY <2>2 DEF Txn, MP!Txn
    <3> QED
      BY <3>1, Assumptions DEF MP!MatchingAssumption
  <2>5. /\ requests[row.request] # Null
        /\ requests[row.request].status # "PENDING"
        /\ row.customer = requests[row.request].customer
        /\ row.agent = requests[row.request].agent
        /\ row.customer # row.agent
    BY <1>1, <2>1, <2>4 DEF M!TxnFollowsRequest
  <2>6. search[requests[txns[x].request].search] # Null
    BY <1>1, <2>2, <2>3, <2>5 DEF Txn, ExchangeInv, MP!SearchesExist
  <2>7. r \in charged
    BY <1>1 DEF E!RecordedWasCharged
  <2> QED
    BY <2>1, <2>3, <2>5, <2>6, <2>7 DEF Traced
<1>2. ExchangeInv /\ M!TxnFollowsRequest /\ E!RecordedWasCharged => PaymentsAreTraced
  BY <1>1 DEF PaymentsAreTraced
<1> QED
  BY <1>2, AlwaysExchangeInv, MatchingPromises, EscrowPromises, PTL

\* A customer has one open transaction at most, and an agreement is paid for once.
OneOpen ==
    \A x, y \in Txns :
       (/\ x # y /\ txns[x] # Null /\ txns[y] # Null
        /\ txns[x].status = "IN-PROGRESS" /\ txns[y].status = "IN-PROGRESS") =>
          txns[x].customer # txns[y].customer

AgreementPaidOnce ==
    \A p, q \in Refs :
       (p # q /\ pay[p] # Null /\ pay[q] # Null) =>
          txns[pay[p].txn].request # txns[pay[q].txn].request

\* A lock per customer around reactions and one per transaction around payments would
\* be enough: nothing else in searches, payments, cancellations, ratings or handlers
\* that end early opens a second transaction or pays for an agreement twice.
THEOREM TurnsKeepOneExchange ==
    Spec /\ []MP!TurnsPerCustomer /\ []EP!TurnsPerTxn => [](OneOpen /\ AgreementPaidOnce)
<1>1. MP!Spec /\ []MP!TurnsPerCustomer => []MP!TurnsInv
  BY MP!TurnsAlways, Assumptions
<1>2. EP!Spec /\ []EP!TurnsPerTxn => []EP!PaidOnce
  BY EP!TurnsKeepOnePayment, Assumptions
<1>3. ASSUME ExchangeInv, MP!TurnsInv, NEW x \in Txns, NEW y \in Txns, x # y,
             txns[x] # Null, txns[y] # Null
      PROVE  /\ txns[x].request # txns[y].request
             /\ txns[x].status = "IN-PROGRESS" /\ txns[y].status = "IN-PROGRESS" =>
                   txns[x].customer # txns[y].customer
  <2> DEFINE row(z) == [txns[z] EXCEPT !.status = IF @ = "IN-PROGRESS" THEN @ ELSE "CLOSED"]
  <2>1. ASSUME NEW z \in Txns, txns[z] # Null
        PROVE  /\ row(z) # Null
               /\ row(z).request = txns[z].request
               /\ row(z).customer = txns[z].customer
               /\ txns[z].status = "IN-PROGRESS" => row(z).status = "IN-PROGRESS"
    <3>1. txns[z] \in Txn
      BY <1>3, <2>1 DEF ExchangeInv, Typed
    <3>2. row(z) \in MP!Txn
      BY <3>1 DEF Txn, MP!Txn
    <3>3. row(z) # Null
      BY <3>2, Assumptions DEF MP!MatchingAssumption
    <3> QED
      BY <3>1, <3>3 DEF Txn
  <2>2. row(x).request # row(y).request
    BY <1>3, <2>1 DEF MP!TurnsInv, MP!OneTxnPerRequest
  <2>3. row(x).status = "IN-PROGRESS" /\ row(y).status = "IN-PROGRESS" =>
           row(x).customer # row(y).customer
    BY <1>3, <2>1 DEF MP!TurnsInv, MP!OpenOncePerCustomer
  <2> QED
    BY <1>3, <2>1, <2>2, <2>3
<1>4. ExchangeInv /\ MP!TurnsInv /\ EP!PaidOnce => OneOpen /\ AgreementPaidOnce
  <2> SUFFICES ASSUME ExchangeInv, MP!TurnsInv, EP!PaidOnce
               PROVE  OneOpen /\ AgreementPaidOnce
    OBVIOUS
  <2>1. \A r \in Refs : pay[r] # Null => pay[r].txn \in Txns /\ txns[pay[r].txn] # Null
    BY DEF ExchangeInv, PaidForOpened, EP!WellFormed, EP!TypeOK, EP!Payment
  <2>2. OneOpen
    BY <1>3 DEF OneOpen
  <2>3. AgreementPaidOnce
    BY <1>3, <2>1 DEF AgreementPaidOnce, EP!PaidOnce
  <2> QED
    BY <2>2, <2>3
<1> QED
  BY <1>1, <1>2, <1>4, ComponentsRun, AlwaysExchangeInv, PTL

\* In production an exchange that is completed or rated was paid for by card: nothing
\* else is ever settled there.
PaidByCard ==
    production =>
       \A x \in Txns :
          (\/ txns[x] # Null /\ txns[x].status = "COMPLETED"
           \/ \E n \in Ratings : ratings[n] # Null /\ ratings[n].txn = x) =>
             \E r \in Refs : /\ pay[r] # Null
                             /\ pay[r].txn = x
                             /\ pay[r].gateway = "ONEPIPE"
                             /\ pay[r].status = "COMPLETED"

\* The bank account is a way to pay in production but not to end an exchange.
THEOREM ProductionNeedsCards == Spec => []PaidByCard
<1>1. EP!Spec => []EP!TransfersStay
  BY EP!TransfersStayInEscrow, Assumptions
<1>2. ASSUME ExchangeInv, EP!TransfersStay, E!CompletedTxnIsSettled, RatedWasSettled,
             production, NEW x \in Txns,
             \/ txns[x] # Null /\ txns[x].status = "COMPLETED"
             \/ \E n \in Ratings : ratings[n] # Null /\ ratings[n].txn = x
      PROVE  \E r \in Refs : /\ pay[r] # Null
                             /\ pay[r].txn = x
                             /\ pay[r].gateway = "ONEPIPE"
                             /\ pay[r].status = "COMPLETED"
  <2>1. \E r \in E!PaymentsOf(x) : E!Settled(r)
    <3>1. CASE txns[x] # Null /\ txns[x].status = "COMPLETED"
      BY <1>2, <3>1 DEF E!CompletedTxnIsSettled
    <3>2. CASE \E n \in Ratings : ratings[n] # Null /\ ratings[n].txn = x
      BY <1>2, <3>2 DEF RatedWasSettled
    <3> QED
      BY <1>2, <3>1, <3>2
  <2>2. PICK r \in Refs : pay[r] # Null /\ pay[r].txn = x /\ pay[r].status # "IN_ESCROW"
    BY <2>1 DEF E!PaymentsOf, E!Settled
  <2>3. pay[r] \in EP!Payment
    BY <1>2, <2>2 DEF ExchangeInv, EP!WellFormed, EP!TypeOK
  <2>4. pay[r].gateway # "VFD_BANK" /\ pay[r].status # "REVERSED"
    BY <1>2, <2>2 DEF EP!TransfersStay
  <2> QED
    BY <2>2, <2>3, <2>4 DEF EP!Payment, EP!Gateways
<1>3. /\ ExchangeInv /\ EP!TransfersStay
      /\ E!CompletedTxnIsSettled /\ RatedWasSettled
      => PaidByCard
  BY <1>2 DEF PaidByCard
<1> QED
  BY <1>1, <1>3, ComponentsRun, AlwaysExchangeInv, EscrowPromises, RatingsAreFair, PTL

-----------------------------------------------------------------------------
(* What a step never does where handlers take turns.                        *)

\* The records of an exchange are not rewritten: whom a request and a transaction
\* join and what a payment is for stay, and so does an answer, a completion, a
\* settlement and a rating; a cancelled transaction is at most completed, by the
\* settlement of money that is still in escrow.
RecordsStand ==
    /\ \A r \in Requests : requests[r] # Null =>
          /\ requests'[r] # Null
          /\ requests'[r].customer = requests[r].customer
          /\ requests'[r].agent = requests[r].agent
          /\ requests'[r].search = requests[r].search
          /\ requests[r].status # "PENDING" => requests'[r].status = requests[r].status
    /\ \A x \in Txns : txns[x] # Null =>
          /\ txns'[x] # Null
          /\ txns'[x].request = txns[x].request
          /\ txns'[x].customer = txns[x].customer
          /\ txns'[x].agent = txns[x].agent
          /\ txns[x].status = "COMPLETED" => txns'[x].status = "COMPLETED"
          /\ txns[x].status = "CANCELLED" => txns'[x].status \in {"CANCELLED", "COMPLETED"}
    /\ \A r \in Refs : pay[r] # Null =>
          /\ pay'[r] # Null
          /\ pay'[r].txn = pay[r].txn
          /\ pay'[r].gateway = pay[r].gateway
          /\ pay[r].status # "IN_ESCROW" => pay'[r].status = pay[r].status
    /\ \A n \in Ratings : ratings[n] # Null => ratings'[n] = ratings[n]

LEMMA NextStands ==
    ASSUME ExchangeInv, [Next]_vars, [MP!AnswersStand]_(MP!vars),
           [EP!OutcomesStand /\ EP!SettledForGood]_(EP!vars)
    PROVE  RecordsStand
<1>1. [EP!Next]_(EP!vars) /\ [MP!Next]_(MP!vars) /\ MP!WellFormed /\ EP!WellFormed
  BY EscrowSteps, MatchingSteps DEF ExchangeInv, MP!AgreementInv
<1>2. MP!RequestsPersist
  BY <1>1, MP!RowsPersist, Assumptions
<1>3. EP!PaymentsPersist
  BY <1>1, EP!RowsPersist, Assumptions
<1>4. ASSUME NEW r \in Requests, requests[r] # Null, requests[r].status # "PENDING"
      PROVE  requests'[r].status = requests[r].status
  BY <1>4 DEF MP!AnswersStand, MP!vars
<1>5. ASSUME NEW x \in Txns, txns[x] # Null
      PROVE  /\ txns[x].status = "COMPLETED" => txns'[x].status = "COMPLETED"
             /\ txns[x].status = "CANCELLED" => txns'[x].status \in {"CANCELLED", "COMPLETED"}
  <2> DEFINE was == IF txns[x] = Null THEN "IN-PROGRESS" ELSE txns[x].status
             now == IF txns'[x] = Null THEN "IN-PROGRESS" ELSE txns'[x].status
  <2>1. /\ was = "COMPLETED" => now = "COMPLETED"
        /\ was = "CANCELLED" => now \in {"CANCELLED", "COMPLETED"}
    <3>1. CASE EP!OutcomesStand
      BY <3>1 DEF EP!OutcomesStand
    <3>2. CASE UNCHANGED EP!vars
      <4>1. [y \in Txns |-> IF txns'[y] = Null THEN "IN-PROGRESS" ELSE txns'[y].status]
               = [y \in Txns |-> IF txns[y] = Null THEN "IN-PROGRESS" ELSE txns[y].status]
        BY <3>2 DEF EP!vars
      <4>2. now = was
        BY <4>1
      <4> QED
        BY <4>2
    <3> QED
      BY <3>1, <3>2
  <2>2. txns'[x] # Null
    BY <1>5, RowsStay
  <2> QED
    BY <1>5, <2>1, <2>2
<1>6. ASSUME NEW r \in Refs, pay[r] # Null, pay[r].status # "IN_ESCROW"
      PROVE  pay'[r].status = pay[r].status
  BY <1>6 DEF EP!SettledForGood, EP!Settled, EP!vars
<1>7. ASSUME NEW n \in Ratings, ratings[n] # Null PROVE ratings'[n] = ratings[n]
  BY <1>7, RatingSteps, InsertEffect DEF ratingVars, RateLookup, CheckRated
<1> QED
  BY <1>2, <1>3, <1>4, <1>5, <1>6, <1>7, RowsStay
     DEF RecordsStand, MP!RequestsPersist, EP!PaymentsPersist

\* If the reactions for one customer take turns, and the handlers that close one
\* transaction, then nothing that was recorded is written over: not by overlapping
\* calls for others, nor by handlers that end early, nor by steps of another part.
THEOREM TurnsKeepRecords ==
    Spec /\ []MP!TurnsPerCustomer /\ []EP!TurnsPerClosing => [][RecordsStand]_vars
<1>1. MP!Spec /\ []MP!TurnsPerCustomer => [][MP!AnswersStand]_(MP!vars)
  BY MP!TurnsKeepAnswers, Assumptions
<1>2. EP!Spec /\ []EP!TurnsPerClosing =>
         [][EP!OutcomesStand /\ EP!SettledForGood]_(EP!vars)
  BY EP!TurnsKeepOutcomes, Assumptions
<1> QED
  BY <1>1, <1>2, NextStands, ComponentsRun, AlwaysExchangeInv, PTL DEF Spec
=============================================================================
