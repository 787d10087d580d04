------------------------------ MODULE Exchange ------------------------------
(***************************************************************************)
(* An exchange from the search for agents to the ratings its two members   *)
(* give each other: Matching, Escrow and the ratings of                    *)
(* transactionservice, run by the same threads over the same tables.       *)
(*                                                                         *)
(* Matching and Escrow each see a part of the table ExchangeTransactions:  *)
(* Matching opens its rows and takes for granted that a row closes once,   *)
(* Escrow takes the rows for granted and writes their status.  Here the    *)
(* table is one variable, every action says what it does to it, and the    *)
(* action of the component fills in the rest.  That each component still   *)
(* behaves as its module says is then checked and proved, not assumed.     *)
(***************************************************************************)
EXTENDS Naturals, FiniteSets

CONSTANTS Users, Agents, Searches, Requests, Txns, Refs, Ratings, Threads, Null

VARIABLES txns,      \* table ExchangeTransactions, by id
          search, expired, requests, told, lost,                        \* see Matching
          production, pay, charged, known, awaiting, unrecorded, unclosed, \* see Escrow
          ratings,   \* table TransactionUserRatings, by id
          matching,  \* the handler of Matching that each thread runs,
          paying,    \* or the handler of Escrow,
          rating,    \* or the rating
          uncleared, \* history: settled payments whose handler ended before the search
          unanswered \* history: payments whose handler ended before the response

matchingVars == <<search, expired, requests, told, matching, lost>>
escrowVars == <<production, pay, charged, known, awaiting, paying, unrecorded, unclosed>>
ratingVars == <<ratings, rating>>
cutVars == <<uncleared, unanswered>>
vars == <<txns, matchingVars, escrowVars, ratingVars, cutVars>>

-----------------------------------------------------------------------------
\* Matching tells open rows from closed ones.
M == INSTANCE Matching WITH
    job <- matching,
    txns <- [x \in Txns |->
               IF txns[x] = Null THEN Null
               ELSE [txns[x] EXCEPT !.status = IF @ = "IN-PROGRESS" THEN @ ELSE "CLOSED"]]

\* Escrow sees the status alone; a row that does not exist yet is as good as open.
E == INSTANCE Escrow WITH
    job <- paying,
    status <- [x \in Txns |-> IF txns[x] = Null THEN "IN-PROGRESS" ELSE txns[x].status]

Txn == [request : Requests, customer : Users, agent : Users,
        status : {"IN-PROGRESS", "COMPLETED", "CANCELLED"}, by : Threads]
Rating == [txn : Txns, by : Users, of : Users, thread : Threads]

Idle == [at |-> "idle"]
RateJob == [at : {"check rated", "insert rating"}, txn : Txns, by : Users]

\* Null stands for a row that does not exist, so it is none of them.
ASSUME ExchangeAssumption ==
    /\ Agents \subseteq Users
    /\ Null \notin Txn \cup Rating \cup M!SearchResult \cup M!Request \cup M!Txn \cup E!Payment

TypeOK ==
    /\ txns \in [Txns -> Txn \cup {Null}]
    /\ ratings \in [Ratings -> Rating \cup {Null}]
    /\ rating \in [Threads -> {Idle} \cup RateJob]
    /\ uncleared \in SUBSET Refs
    /\ unanswered \in SUBSET Refs
    /\ M!TypeOK
    /\ E!TypeOK

Init ==
    /\ txns = [x \in Txns |-> Null]
    /\ ratings = [n \in Ratings |-> Null]
    /\ rating = [t \in Threads |-> Idle]
    /\ uncleared = {}
    /\ unanswered = {}
    /\ matching = [t \in Threads |-> Idle]
    /\ paying = [t \in Threads |-> Idle]
    /\ M!Init
    /\ E!Init

-----------------------------------------------------------------------------
\* A thread runs one handler at a time.
Free(t) == matching[t] = Idle /\ paying[t] = Idle /\ rating[t] = Idle

Members(x) == {txns[x].customer, txns[x].agent}

\* An update of a row of ExchangeTransactions.
SetStatus(x, s) == txns' = [txns EXCEPT ![x].status = s]

\* Steps of one component leave the others alone.
OutsideMatching == UNCHANGED <<escrowVars, ratingVars, cutVars>>
OutsideEscrow == UNCHANGED <<matchingVars, ratingVars>>
OutsideRatings == UNCHANGED <<txns, matchingVars, escrowVars, cutVars>>

-----------------------------------------------------------------------------
(* Searching, dispatching and reacting.                                     *)

Search(c, s, found) == UNCHANGED txns /\ M!Search(c, s, found) /\ OutsideMatching
ExpireSearch(s) == UNCHANGED txns /\ M!ExpireSearch(s) /\ OutsideMatching

StartMatching(t) ==
    /\ Free(t)
    /\ UNCHANGED txns
    /\ \/ \E c, a \in Users, s \in Searches : M!DispatchLookup(t, c, a, s)
       \/ \E r \in Requests, reaction \in {"ACCEPTED", "DECLINED"} :
             M!ReactLookup(t, r, reaction)
    /\ OutsideMatching

OpenTxn(t) ==
    /\ matching[t].at = "insert txn"
    /\ \E x \in Txns :
         /\ txns[x] = Null
         /\ txns' = [txns EXCEPT ![x] =
                [request |-> matching[t].req,
                 customer |-> requests[matching[t].req].customer,
                 agent |-> requests[matching[t].req].agent,
                 status |-> "IN-PROGRESS", by |-> t]]
    /\ M!OpenTxn(t)
    /\ OutsideMatching

MatchingStep(t) ==
    \/ OpenTxn(t)
    \/ /\ UNCHANGED txns
       /\ \/ M!DispatchCheckSent(t) \/ M!DispatchInsert(t)
          \/ M!PublishDecline(t) \/ M!Decline(t)
          \/ M!CheckCustomer(t) \/ M!Accept(t) \/ M!PublishAccept(t)
       /\ OutsideMatching

-----------------------------------------------------------------------------
(* Paying, settling and cancelling.                                         *)

StartEscrow(t) ==
    /\ Free(t)
    /\ UNCHANGED <<txns, cutVars>>
    /\ \/ \E x \in Txns :
            /\ txns[x] # Null
            /\ \/ \E g \in E!Gateways : E!PayLookup(t, x, g)
               \/ E!CancelLookup(t, x)
       \/ \E r \in Refs, as \in {"COMPLETED", "REVERSED"} : E!SettleLookup(t, r, as)
    /\ OutsideEscrow

\* Definitions marked "Mutant" are faulty variants that nothing here uses: each
\* shows that a property below notices the fault.
\* Mutant: a reverted payment opens the transaction again.
MarkTxnReopens(t) ==
    /\ paying[t].at = "mark txn"
    /\ SetStatus(pay[paying[t].ref].txn,
                 IF paying[t].as = "REVERSED" THEN "IN-PROGRESS" ELSE "COMPLETED")
    /\ E!GoTo(t, "clear stage")
    /\ UNCHANGED <<production, pay, charged, known, awaiting, unrecorded, unclosed, cutVars>>
    /\ OutsideEscrow

\* Mutant: the transaction takes the status of the payment.
MarkTxnAsPayment(t) ==
    /\ paying[t].at = "mark txn"
    /\ SetStatus(pay[paying[t].ref].txn, paying[t].as)
    /\ E!GoTo(t, "clear stage")
    /\ UNCHANGED <<production, pay, charged, known, awaiting, unrecorded, unclosed, cutVars>>
    /\ OutsideEscrow

MarkTxn(t) ==
    /\ paying[t].at = "mark txn"
    /\ SetStatus(pay[paying[t].ref].txn, "COMPLETED")
    /\ E!MarkTxn(t)
    /\ UNCHANGED cutVars
    /\ OutsideEscrow

\* Mutant: a cancellation removes the row.
CancelAndRemove(t) ==
    /\ paying[t].at = "cancel"
    /\ txns' = [txns EXCEPT ![paying[t].txn] = Null]
    /\ E!Return(t)
    /\ UNCHANGED <<production, pay, charged, known, awaiting, unrecorded, unclosed, cutVars>>
    /\ OutsideEscrow

Cancel(t) ==
    /\ paying[t].at = "cancel"
    /\ SetStatus(paying[t].txn, "CANCELLED")
    /\ E!Cancel(t)
    /\ UNCHANGED cutVars
    /\ OutsideEscrow

\* Mutant: the key of the search is built without the search, like those of the stages.
ClearStageOnly(t) ==
    /\ UNCHANGED <<txns, cutVars>>
    /\ E!ClearStage(t)
    /\ OutsideEscrow

\* The keys that a settlement deletes include, at the end, that of the search it
\* began with.
ClearStage(t) ==
    /\ paying[t].at = "clear stage"
    /\ expired' = expired \cup {requests[txns[pay[paying[t].ref].txn].request].search}
    /\ UNCHANGED <<txns, cutVars, search, requests, told, matching, lost, ratingVars>>
    /\ E!ClearStage(t)

\* The keys are deleted one by one, and the handler may be cut before the last.
CutClearing(t) ==
    /\ paying[t].at = "clear stage"
    /\ uncleared' = uncleared \cup {paying[t].ref}
    /\ UNCHANGED <<txns, unanswered>>
    /\ E!ClearStage(t)
    /\ OutsideEscrow

EscrowStep(t) ==
    \/ MarkTxn(t)
    \/ Cancel(t)
    \/ ClearStage(t)
    \/ /\ UNCHANGED <<txns, cutVars>>
       /\ \/ E!CheckUnpaid(t) \/ E!Debit(t) \/ E!DebitUnanswered(t)
          \/ E!Record(t) \/ E!SetStage(t) \/ E!Respond(t)
          \/ E!CallBank(t) \/ E!BankCallRaises(t) \/ E!MarkPayment(t)
       /\ OutsideEscrow

-----------------------------------------------------------------------------
(* Rating (TransactionRatingSerializer): a member of a completed            *)
(* transaction rates the other member.  The score is left out.              *)

\* Bound of the model: a rating starts only while an id is left for its insert.
RoomForRating == Cardinality({t \in Threads : rating[t] # Idle})
                    < Cardinality({n \in Ratings : ratings[n] = Null})

\* Mutant: any closed transaction can be rated.
RateClosed(t, x, u) ==
    /\ Free(t)
    /\ RoomForRating
    /\ txns[x] # Null
    /\ txns[x].status # "IN-PROGRESS"
    /\ u \in Members(x)
    /\ rating' = [rating EXCEPT ![t] = [at |-> "check rated", txn |-> x, by |-> u]]
    /\ UNCHANGED ratings
    /\ OutsideRatings

RateLookup(t, x, u) ==
    /\ Free(t)
    /\ RoomForRating
    /\ txns[x] # Null
    /\ txns[x].status = "COMPLETED"
    /\ u \in Members(x)
    /\ rating' = [rating EXCEPT ![t] = [at |-> "check rated", txn |-> x, by |-> u]]
    /\ UNCHANGED ratings
    /\ OutsideRatings

\* Mutant: a user who was rated counts as the one who rated.
CheckRatedUser(t) ==
    /\ rating[t].at = "check rated"
    /\ rating' = IF \E n \in Ratings : /\ ratings[n] # Null
                                       /\ ratings[n].txn = rating[t].txn
                                       /\ ratings[n].of = rating[t].by
                 THEN [rating EXCEPT ![t] = Idle]
                 ELSE [rating EXCEPT ![t].at = "insert rating"]
    /\ UNCHANGED ratings
    /\ OutsideRatings

CheckRated(t) ==
    /\ rating[t].at = "check rated"
    /\ rating' = IF \E n \in Ratings : /\ ratings[n] # Null
                                       /\ ratings[n].txn = rating[t].txn
                                       /\ ratings[n].by = rating[t].by
                 THEN [rating EXCEPT ![t] = Idle]
                 ELSE [rating EXCEPT ![t].at = "insert rating"]
    /\ UNCHANGED ratings
    /\ OutsideRatings

InsertRating(t) ==
    /\ rating[t].at = "insert rating"
    /\ \E n \in Ratings :
         /\ ratings[n] = Null
         /\ ratings' = [ratings EXCEPT ![n] =
              LET x == rating[t].txn IN
              [txn |-> x, by |-> rating[t].by,
               of |-> IF rating[t].by = txns[x].agent THEN txns[x].customer
                                                      ELSE txns[x].agent,
               thread |-> t]]
    /\ rating' = [rating EXCEPT ![t] = Idle]
    /\ OutsideRatings

RatingStep(t) == CheckRated(t) \/ InsertRating(t)

-----------------------------------------------------------------------------
\* A handler of any component ends early.
Abort(t) ==
    \/ /\ UNCHANGED txns
       /\ M!Abort(t)
       /\ OutsideMatching
    \/ /\ uncleared' = IF paying[t].at = "clear stage"
                       THEN uncleared \cup {paying[t].ref} ELSE uncleared
       /\ unanswered' = IF paying[t].at \in {"set stage", "respond"}
                        THEN unanswered \cup {paying[t].ref} ELSE unanswered
       /\ UNCHANGED txns
       /\ E!Abort(t)
       /\ OutsideEscrow
    \/ CutClearing(t)
    \/ /\ rating[t] # Idle
       /\ rating' = [rating EXCEPT ![t] = Idle]
       /\ UNCHANGED ratings
       /\ OutsideRatings

Step(t) == MatchingStep(t) \/ EscrowStep(t) \/ RatingStep(t)

Next ==
    \/ \E c \in Users, s \in Searches, found \in SUBSET Agents : Search(c, s, found)
    \/ \E s \in Searches : ExpireSearch(s)
    \/ \E t \in Threads :
         \/ StartMatching(t)
         \/ StartEscrow(t)
         \/ \E x \in Txns, u \in Users : RateLookup(t, x, u)
         \/ Step(t)
         \/ Abort(t)

Spec == Init /\ [][Next]_vars

-----------------------------------------------------------------------------
(* Handlers run on, as threads share nothing they wait for; not every       *)
(* settlement of a thread is cut; and a payer who knows the reference goes  *)
(* on asking for the settlement and finds a thread to serve it.             *)

CallBank(t) == EscrowStep(t) /\ paying[t].at = "call bank"
MarkPayment(t) == EscrowStep(t) /\ paying[t].at = "mark payment"
Finalize(t, r) ==
    /\ Free(t)
    /\ UNCHANGED <<txns, cutVars>>
    /\ E!SettleLookup(t, r, "COMPLETED")
    /\ OutsideEscrow

Fairness ==
    /\ \A t \in Threads : WF_vars(Step(t)) /\ SF_vars(CallBank(t)) /\ SF_vars(MarkPayment(t))
    /\ \A r \in Refs : SF_vars(\E t \in Threads : Finalize(t, r))

FairSpec == Spec /\ Fairness

-----------------------------------------------------------------------------
(* Matching behaves as its module says whatever the other handlers do to    *)
(* the table: a row that was opened stays, and once closed stays closed.    *)
ImplementsMatching == M!Spec

(* So does Escrow: the rows that are opened, looked at and rated meanwhile  *)
(* have the status that the payments and cancellations gave them.           *)
ImplementsEscrow == E!Spec

(* Together they keep the promise of Deal, whose state is read off the four *)
(* tables.                                                                  *)
Asked ==
    [r \in Requests |-> IF requests[r] = Null THEN "none"
                        ELSE IF requests[r].status = "PENDING" THEN "asked" ELSE "answered"]
Between ==
    [r \in Requests |-> IF requests[r] = Null THEN {}
                        ELSE {requests[r].customer, requests[r].agent}]
About == [x \in Txns |-> IF txns[x] = Null THEN {} ELSE {txns[x].request}]
Outcome == [x \in Txns |-> IF txns[x] = Null THEN "none" ELSE txns[x].status]
Money ==
    [x \in Txns |-> IF \E r \in E!PaymentsOf(x) : E!Settled(r) THEN "settled"
                    ELSE IF E!PaymentsOf(x) # {} THEN "held" ELSE "none"]
Rated ==
    [x \in Txns |-> {u \in Users : \E n \in Ratings : /\ ratings[n] # Null
                                                     /\ ratings[n].txn = x
                                                     /\ ratings[n].by = u}]

D == INSTANCE Deal WITH
    asked <- Asked, between <- Between, about <- About, outcome <- Outcome,
    money <- Money, rated <- Rated

ImplementsDeal == D!Spec

(* Money is taken for an agreement: a payment belongs to a transaction that *)
(* was opened, and a rating to one whose payment was settled, however it    *)
(* ended since; it is given by one member to the other.                     *)
RatedWasSettled ==
    /\ \A r \in Refs : pay[r] # Null => txns[pay[r].txn] # Null
    /\ \A n \in Ratings : ratings[n] # Null =>
          /\ \E r \in E!PaymentsOf(ratings[n].txn) : E!Settled(r)
          /\ ratings[n].by # ratings[n].of
          /\ {ratings[n].by, ratings[n].of} = Members(ratings[n].txn)

(* A member rates an exchange twice only by two calls that overlapped.      *)
OnlyOverlapDoublesRatings ==
    \A m, n \in Ratings :
       (/\ m # n /\ ratings[m] # Null /\ ratings[n] # Null
        /\ ratings[m].thread = ratings[n].thread) =>
          <<ratings[m].txn, ratings[m].by>> # <<ratings[n].txn, ratings[n].by>>

(* A settled exchange ends its search, so that no further agent is asked    *)
(* for the same cash: the search is cached only while the handler is on its *)
(* way to delete it, or if that handler was cut.                            *)
SettlementEndsSearch ==
    \A r \in Refs : E!Settled(r) =>
       \/ requests[txns[pay[r].txn].request].search \in expired
       \/ r \in unclosed \cup uncleared
       \/ \E t \in Threads : paying[t].at \in {"mark txn", "clear stage"} /\ paying[t].ref = r

(* A payment held in escrow, which keeps others from paying, can be settled *)
(* by its payer: the response with the reference was sent or will be,       *)
(* unless the handler is cut after the row was written.                     *)
HeldCanBeSettled ==
    \A r \in Refs : (pay[r] # Null /\ pay[r].status = "IN_ESCROW") =>
       \/ r \in known \cup unanswered
       \/ \E t \in Threads : paying[t].at \in {"set stage", "respond"} /\ paying[t].ref = r

(* An acceptance that is stored is followed by its transaction unless the   *)
(* handler is cut.                                                          *)
AcceptanceOpensTxn ==
    \A r \in Requests :
       (requests[r] # Null /\ requests[r].status = "ACCEPTED")
          ~> (M!Opened(r) # {} \/ r \in lost)

(* Outside production an exchange whose payer knows the reference comes to  *)
(* an end: the payment is settled, the transaction closed and its search    *)
(* gone, unless the handler is cut before it gets there.  In production no  *)
(* transfer is ever settled (EscrowIsSettled in Escrow).  The transaction   *)
(* may have been cancelled while the cash was in escrow, which the code     *)
(* allows against its own TODO (NoCancelInEscrow in Escrow): the payment is *)
(* settled then all the same.                                               *)
PaidExchangeEnds ==
    \A r \in Refs : (~production /\ r \in known) ~>
       /\ E!Settled(r)
       /\ \/ r \in unclosed
          \/ /\ txns[pay[r].txn].status # "IN-PROGRESS"
             /\ \/ requests[txns[pay[r].txn].request].search \in expired
                \/ r \in uncleared
=============================================================================
