# A verification of the CashEx backend

CashEx lets a *customer* find a nearby *agent* who hands over cash in exchange
for a bank transfer or a card payment that the service keeps in escrow.  This
directory holds TLA+ modules of the parts of the backend that decide who trades
with whom and where the money is, TLC configurations that check them on small
instances, and TLAPS proofs that hold for every number of users, requests,
payments and threads.

Paths below are relative to `src/`.

## 1. Inventory

The server is Django 3.1 under ASGI with channels; Postgres holds the tables,
Redis the cache and the channel layer, celery sends mail.  Every HTTP request
runs in a thread of its own.  `ATOMIC_REQUESTS` is not set, and no handler
opens a transaction or takes a row lock, and the only unique columns are the
ids and the user's email and mobile number, so **each ORM statement, cache call,
gateway call and publication is a step of its own**, and handlers interleave
between any two of them.  The consumers of sockets share one event loop (the
`Procfile` starts one daphne process): between two awaits of a consumer no other
consumer does anything, but the threads of HTTP handlers do, so each write of a
consumer to Redis is a step too.

| Component | State | Operations | Talks to |
|---|---|---|---|
| Matching (`transactionservice/serializers.py`) | cached searches, `ExchangeRequests`, `ExchangeTransactions` | search, dispatch, accept / decline | presence keys, distance service, socket group of the request |
| Escrow (`paymentservice/serializers.py`) | `TransactionPayments`, status of the transaction, stage keys | pay by transfer or card, finalize, revert; cancel (`transactionservice`) | gateways, socket group |
| Gateways (`utils/helpers.py`: `VFDAuth`, `OnePipeProvider`) | remote | transfer, finalize, reverse, card debit | the two banks |
| Transaction socket (`transactionservice/consumers.py`) | cached destination, arrival flags, identity flags, stage keys in Redis, group membership, a queue per consumer | join, location, arrival, identity update, cancel | Redis, both members |
| Fee schedule (`transactionservice/serializers.py:31`) | none | fee of an amount | |
| Ratings (`transactionservice/serializers.py:383`) | `Ratings` | rate | `ExchangeTransactions` |
| Presence, distance (`utils/helpers.py:66`, `:138`) | last-seen keys | mark seen, list online, sort by distance | Redis, route service |
| Registration (`userservice/services.py`, `serializers.py`, `consumers.py`) | the session record under a key in Redis, then `User` | BVN, OTP, email, pre- and post-registration | BVN and SMS providers, mail |
| Accounts (`userservice/services.py`, `serializers.py`, `authentication.py`) | `User`, device rows, token blacklist | login, logout, profile, password and device reset | Redis, mail |
| Listings, routing, tasks, settings | none of their own | | |

### What is hard, and what makes each part correct

* **Matching.** The checks (not dispatched before, customer not busy, request
  still pending) and the writes they protect are separate statements.  The
  refusal is published *before* it is stored, the acceptance *after* the
  transaction is inserted; a handler can end between any two writes.  Correct
  means: a transaction joins the two parties of its own, decided request; an
  accepted request has a transaction; nobody hears of an acceptance that
  cannot be joined; checks that are passed are not undone by the same client's
  next call.
* **Escrow.** A gateway may take the money and its answer be lost; the row is
  written after the money is gone; the payer learns the reference only from the
  response; the payment and the transaction are closed by two updates;
  cancellation does not look at payments; `finalize` and `revert` may overlap.
  Correct means: no row without a charge, no charge without a row or a cause,
  no completed transaction without a settled payment, no settled payment whose
  transaction can be paid again, and whoever pays gets the payment settled.
* **Transaction socket.** What a member sends is handled by every consumer in
  its own time; queues fill, members leave and return, consumers die, and the
  HTTP handlers write the same flags and stages from their threads.  Correct
  means: an identity is confirmed only after an arrival, a stage stands for
  something that happened, messages that come up late take no stage back, a
  denial closes the transaction.  The code falls short of the second between the
  write of a stage and that of its flag, and of the third once, where the consumer
  that set the second identity flag writes its stage again; the properties name
  both.
* **Registration.** The session is read (up to three times), changed and written
  back whole by overlapping requests; it may expire or be deleted in between.
  Correct means: a user has entered the code and followed a link, one session
  makes one user, what was proved stays proved, a session ends with its user.
* **Accounts.** The list of logged-out tokens, the devices, the reset code and
  the user row are read, changed and written by overlapping requests.  Correct
  means: what a call has done (a token refused, a password set, a code sent, a
  device replaced) stays done unless a call that overlapped undoes it.
* **The exchange as a whole.** Reactions insert the transactions that payments,
  settlements, cancellations and ratings look up and overwrite, in one table.
  Correct means: each part is served what it takes for granted; money is taken
  for an agreement; only a settled exchange is rated, by its members, of each
  other; and a settled exchange ends the search it began with.
* **Fees, presence.** Band boundaries; keys that expire earlier than the window
  in which they count.

`PROJECT.json` lists each hazard at its line with the property that covers it.

## 2. Plan

| # | Module | Composes / refines | State |
|---|---|---|---|
| 1 | `Matching` | | checked, proved |
| 2 | `Escrow` | implements `EscrowLedger` | checked, proved |
| 3 | `TransactionSocket` | | checked, safety proved |
| 4 | `Registration` | | checked, proved |
| 5 | `Exchange` | composes `Matching`, `Escrow` and the ratings; implements `Matching`, `Escrow` and `Deal` | checked, proved |
| 6 | `Accounts` | | checked, proved |
| 7 | `Fees` | | proved for every amount |

The plan is carried out.  Two things of it changed on the way.  The abstract
specifications that `Exchange` implements are first `Matching` and `Escrow`
themselves, so that what is proved of them holds in the composition; `Deal`, what
the whole promises to its two parties, came after them.
And presence, which turned out to be a key that expires before the window in
which it counts is over, became two actions of `Accounts`.

What could follow: the socket composed with `Exchange` (it shares the status of
the transaction and the stage keys with the payments; today it is composed with
an outline of them), and liveness, which no prover here reaches.

## 3. Modules

| Module | What it is |
|---|---|
| `Matching.tla` | search, dispatch, reaction; safety and liveness properties |
| `Matching_proofs.tla` | its theorems |
| `MCMatching.tla` | users and symmetry for TLC |
| `EscrowLedger.tla` | what the payment service promises about each payment and each transaction |
| `Escrow.tla` | payment, settlement, cancellation; the refinement mapping to `EscrowLedger` |
| `Escrow_proofs.tla` | its theorems, with the refinement |
| `MCEscrow.tla` | symmetry for TLC |
| `TransactionSocket.tla` | the consumers of one exchange, their queues, and what the HTTP handlers do to the flags and stages |
| `TransactionSocket_proofs.tla` | its theorems |
| `Registration.tla` | the session of a registration and the user it becomes |
| `Registration_proofs.tla` | its theorems |
| `MCRegistration.tla` | two spellings of one address, and symmetry for TLC |
| `Exchange.tla` | `Matching`, `Escrow` and the ratings, run by the same threads over one table of transactions |
| `Exchange_proofs.tla` | its theorems: that `Matching` and `Escrow` are implemented, and what holds across them |
| `Deal.tla` | what the service promises to a customer and an agent, from the request to the ratings |
| `Deal_proofs.tla` | that `Exchange` implements it |
| `MCExchange.tla` | users, amounts at the bounds of the fee bands, and symmetry for TLC |
| `Accounts.tla` | login, logout, profile, and the resets of password and device |
| `Accounts_proofs.tla` | its theorems |
| `MCAccounts.tla` | symmetry for TLC |
| `Fees.tla` | the fee of an amount, and the theorem that the bands fit |

Definitions marked *Mutant* are faulty variants of the definition that follows
them (a dropped check, a swapped order, a missing update).  Nothing refers to
them; `PROJECT.json` pairs each with the property that fails when it replaces
the original.

### Reading the models

`job[t]` is the program counter and the local variables of the handler that
thread `t` runs: `at` names the statement it will execute *next*.  Validators
that only read what was read already are folded into the step that reads.

**`Matching`**

| TLA+ | Code |
|---|---|
| `search`, `expired` | the search stored in the cache by `InitiateRequestSerializer`, and the end of its entry: a day, or the deletion by a settlement |
| `requests`, `txns` | tables `ExchangeRequests`, `ExchangeTransactions`; `by` is a history field, the thread that inserted the row |
| `told` | events published to the request's group |
| `lost` | history: acceptances cut before the insert |
| `Search` | `InitiateRequestSerializer`; the agents found are any nonempty set without the requester: presence and routes decide it, and the exclusion of busy agents (`serializers.py:98`) compares ids with pairs and removes nobody |
| `DispatchLookup`, `DispatchCheckSent`, `DispatchInsert` | the validators, `filter` and `create` of `DispatchRequestSerializer`.  The membership test (`:163`) is the truth value of a `filter` object, so the model has no such guard |
| `ReactLookup` | the look-up of the pending request and the split on the reaction |
| `PublishDecline`, `Decline` | the refusal: event, then update |
| `CheckCustomer`, `Accept`, `OpenTxn`, `PublishAccept` | the acceptance: busy check, update, insert, event |
| `CloseTxn` | the end of a transaction, which `Escrow` models; in `Exchange` it is what a settlement or a cancellation looks like from here |
| `Abort` | the handler ends at any statement |

**`Escrow`**

| TLA+ | Code |
|---|---|
| `production` | `settings.IS_PROD_ENV`; outside production the helper answers for the bank |
| `status` | `transaction_status`; the transactions are open from the start, as `Matching` leaves them |
| `pay` | `TransactionPayments` by `transaction_reference`, `by` as above |
| `charged` | references for which a gateway took money |
| `known` | references that reached a payer in a response |
| `awaiting` | transactions whose stage keys say `AWAITING_CASH_CONFIRMATION` |
| `unrecorded`, `unclosed` | history: charges whose handler got no answer or was cut before the row; settlements cut before the transaction |
| `PayLookup`, `CheckUnpaid`, `Debit`, `DebitUnanswered`, `Record`, `SetStage`, `Respond` | `InitateEscrowSerializer` and `InitiateCardSerializer`, which have the same order of steps |
| `SettleLookup`, `CallBank`, `BankCallRaises`, `MarkPayment`, `MarkTxn`, `ClearStage` | `FinalizeEscrowSerializer`, `RevertEscrowSerializer`, `FinalizeCardSerializer`; a reverted payment completes the transaction as a finalized one does |
| `CancelLookup`, `Cancel` | `CancelExchangeTransactionSerializer` |
| `Abort` | a refusal of the gateway, a failure, the death of the process, a lost response |

**`TransactionSocket`**

| TLA+ | Code |
|---|---|
| `status`, `paid`, `job` | the HTTP handlers of `Matching` and `Escrow`, reduced to what they do to the status, the flags and the stages |
| `destination` | `{request}.destination_coordinates`, cached for a day by whoever joins |
| `reached`, `confirmed`, `stage` | the keys of arrival, identity and stage of each member |
| `conn[c]` | what the consumer of connection `c` is doing, with the write it does next; it handles one message at a time, and while it has writes to do (`Writing`) no other consumer gets in (`LoopFree`).  Look-ups of the database run in threads and hold nobody up |
| `inbox[c]` | its channel: at most `Capacity` messages, a full one misses the message |
| `Connect`, `RefuseAnonymous`, `JoinLookup`, `JoinCheck`, `Leave` | `connect`, `_is_transaction_member`, `disconnect`.  A consumer joins the group before it asks who the client is, and closing a socket ends nothing at the server until the client's end is gone; so a stranger, and a member of a cancelled transaction, is `open` like the others meanwhile |
| `SendLocation`, `Located`, `SendDenial`, `SendUnknown` | `receive_json`; the member a message is about is whatever the client says |
| `unflagged` | history: stages that a consumer wrote and did not get to the flag of |
| `SendConfirm`, `Confirming` | the flag is read, and then the message is sent to the group |
| `HandleNear`, `HandleConfirmed` | `handle_user_eta`, `user_identity_update`: the flags are read, and decide whether there is anything to write |
| `WriteStage`, `WriteFlag`, `Restage` | the writes, in their order: the stage of the consumer's *own* user, the flag of the member the message is about, and, once both identities are confirmed, the stage again.  The consumer that handles an arrival first sets its user's stage; the others find the flag and set none |
| `NearFails` | the `except` of `handle_user_eta` |
| `HandleDenied`, `CancelLookup`, `Cancel`, `HandleNotice` | `user_identity_update`, `_cancel_transaction`, `server_event_trigger` |
| `MarkPayment`, `MarkTxn`, `Publish`, `SetStage`, `DeleteKey`, `CancelRequest` | the HTTP handlers, one update, publication or key at a time |
| `HandleUnknown` | an event of an unknown name is passed on with the type `None`, for which channels finds no handler: every consumer of the group ends |

A *notice* stands for every message that changes nothing where it is handled: a
location that is not near, and what the HTTP handlers publish.

**`Registration`**

| TLA+ | Code |
|---|---|
| `session` | `user.registration.session:{reg_token}`; `limited` says whether the entry has a time limit |
| `issued` | tokens in use |
| `users` | table `User`; the column `token` is a history field |
| `passed`, `followed`, `early` | history: the right code was entered, a link was followed, one was followed before the code was entered |
| `astray` | history: the session was written while it was absent, or its deletion was cut |
| `EnquireLookup`, `StoreSession` | both enquiries; the number must be new to the users |
| `VerifyOtp`, `WriteOtp` | the code.  A wrong one is refused and is not a step |
| `AddressLookup`, `CheckOtp`, `ReadSession`, `WriteAddress` | pre-registration: the user with that address, the session twice, the write.  The mail changes nothing here: the link is made of the token, which the client has since the enquiry |
| `FollowLink`, `WriteVerified` | the page behind the link, for any token with a session, whatever that session says.  Its write has no time limit |
| `CheckVerified`, `ReadAccount`, `CreateUser`, `DeleteSession` | post-registration; `Taken` is the two unique columns, `get_or_create` ends in a refusal or an error when they are taken, and changes nothing |
| `Lower` | the spelling that `validate_existing_user_email` looks for; the address is stored as typed |

The first read of a session by a serializer's validator decides only whether it
exists; it is folded into the read that follows.

**`Exchange`**

| TLA+ | Code |
|---|---|
| `txns` | table `ExchangeTransactions`, read and written by all three parts; `Matching` sees its rows as open or closed, `Escrow` sees their status alone |
| `matching`, `paying`, `rating` | the handler that a thread runs, at most one of the three (`Free`) |
| `StartMatching`, `MatchingStep`, `OpenTxn`, `StartEscrow`, `EscrowStep`, `MarkTxn`, `Cancel` | the actions of `Matching` and `Escrow`, each with what it does to the shared table |
| `ClearStage`, `CutClearing` | the keys that end with a settlement, the cached search among them; they are deleted one by one |
| `ratings`, `RateLookup`, `CheckRated`, `InsertRating` | table `TransactionUserRatings` and `TransactionRatingSerializer` |
| `uncleared`, `unanswered` | history: settlements cut before the search, payments cut before the response |

**`Accounts`**

| TLA+ | Code |
|---|---|
| `call[c]`, `at[c]` | a request, made once: its kind, its user, the token or code it brings, and the calls that had ended before it; the statement it runs next |
| `password`, `kept` | `User.password`, named by the call that brought it, and the one that the authentication of a profile update read |
| `devices` | table `UserDevices` |
| `reset`, `deviceOtp` | the cached codes of the two resets |
| `blacklist`, `listed` | `blacklisted_tokens`, and the list that a logout read |
| `seen` | the `last_seen` keys |
| `Login`, `CheckDevice`, `PutDevice`, `InsertDevice`, `Sign` | `perform_local_auth`; `update_or_create` locks the row it finds, and nothing when it finds none |
| `Authenticate`, `MarkSeen`, `Authorize`, `ReadList`, `WriteList` | `JSONWebTokenAuthentication`, `IsTokenBlackListed`, `logout_user` |
| `WriteProfile` | `UserProfileSerializer.update`, which without a new password writes back the one read before |
| `InitiateReset` to `DeleteCode` | the reset of a password; finalizing it does not ask for the code |
| `InitiateDeviceReset` to `DropOtp` | the reset of the device |

A token is identified with the login that issued it.

**`EscrowLedger`** has one entry per reference (`none -> charged -> held ->
COMPLETED` or `REVERSED`), the transaction it belongs to, fixed when the entry is
made, the outcome of each transaction, and clerks with at most one task each.  A
clerk takes the order to settle an entry only while it is held, and the demand to
cancel a transaction only while it is open; it completes a transaction only after
it settled an entry of it.  An order or a demand is carried out as it was given,
whatever happened since: so one settlement overwrites another, and a cancellation
a completion, only if the two overlapped.  The mapping reads the entry from `pay`
and `charged`, its transaction from the row, the outcome from `status`, and the
task from the statement a thread is at (`ToWrite`, `Task`).  A `finalize` or
`revert` that does not ask whether the payment is still in escrow
(`SettleAnyLookup`), or a cancellation that does not ask whether the transaction
is open (`CancelAnyLookup`), breaks the refinement.  What the ledger does allow is
a cancellation while money is held, because the code does; that the code means
otherwise is `escrow_cancel`, section 5.

**`Deal`** says of each request whether it was asked and answered, and of each
transaction on which request it stands, how it ended, how far its money has come
(`none -> held -> settled`) and who rated it.  The mapping (end of `Exchange`) reads
all of it from the four tables and nothing from the handlers: the money of a
transaction with two payments is settled when one of them is, and a request that
two reactions answered differently is answered.  A cancellation is a step of
`Deal` at any time, with money held or settled, because the code lets a
cancellation overwrite the settlement it overlaps and never looks at payments;
`EscrowLedger` is the one that says when a cancellation may be asked for.  What
`Deal` says is the order of the rest: an agreement on an answer that is stored,
money for an agreement, a completion and a rating on money that was settled.

## 4. Runs

| Run | Instance | Shows |
|---|---|---|
| `matching` | 3 users (2 agents), 1 search, 2 requests, 2 transactions, 2 threads | the safety of `Matching`, below |
| `matching_busy` | as `matching` | *violated*: one open transaction per customer |
| `escrow` | 2 transactions, 3 references, 2 threads, production and not | the safety of `Escrow`, and `ImplementsLedger` |
| `escrow_cancel` | 1 transaction, 1 reference, 1 thread | *violated*: no cancellation while cash is in escrow |
| `escrow_production` | 1 transaction, 1 reference, 2 threads | *violated*: in production a payer who goes on asking gets the payment settled |
| `exchange` | a customer and an agent, 1 search, 1 request, 2 transactions, 1 reference, 2 ratings, 2 threads | the safety of `Exchange`, `ImplementsMatching`, `ImplementsEscrow`, `ImplementsDeal` |
| `exchange_liveness` | the same with 1 transaction and no ratings | `AcceptanceOpensTxn`, `PaidExchangeEnds` |
| `socket` | a connection of a member and one of a stranger, no threads, queues of 1 | `DenialCloses`, `DenialIsActedOn` |
| `socket_payment` | one connection, 1 thread, a queue of 2 | confirmations, stages and flags against the handlers that pay, settle and cancel: `ConfirmedHasArrived`, `StageIsEarned`, `OnlyPaymentMovesOn` |
| `registration` | 2 sessions, 1 number, 2 spellings of one address, 2 threads | the safety of `Registration` |
| `registration_link` | 1 session, 1 number, 2 threads | *violated*: a verified address stays verified |
| `accounts` | 1 user, 4 calls of any kind, 2 at a time | the safety of `Accounts` |

The properties of `matching`:

* `TxnFollowsRequest`: a transaction's request exists, is decided, and names
  the same two, different, parties, also when a refusal or a second acceptance
  overlaps.
* `OnlyOverlapDoublesTxns`, `OnlyOverlapDoublesDispatch`: two transactions of a
  request, two open ones of a customer, two requests to one agent from one
  search, are never the work of one thread.  This is what the checks in the
  code buy: sequential service is safe, overlap is not (`matching_busy`).
* `AcceptedHasTxn`, `ToldAcceptedHasTxn`: the acceptance and its transaction
  are separated by a cut or a running handler only; the customer hears of it
  only when it can be joined.

The properties of `escrow`: `ChargeIsRecorded` (money that a gateway took has its
row, up to handlers that run or were cut), `OnlyOverlapDoublesPayments`,
`CompletedTxnIsSettled`, `SettlementClosesTxn` (the transaction of a settled
payment is open only if its handler is between the two updates, or was cut
there), `ImplementsLedger` (settled only on an order given while the money was
held, completed only by who settled, cancelled only on a demand made while the
transaction was open).

The properties of the socket: `ConfirmedHasArrived` (while the
transaction is open, an identity is confirmed only of a member flagged as
arrived, however long the confirmation was queued), `OnlyPaymentMovesOn` (once both are
confirmed, no message that is still in a queue changes a stage of the open
transaction; a payment does, and the consumer that set the second flag writes its
own user's stage once more, over that of a payment made in between),
`StageIsEarned` (no stage is ahead of its cause, an arrival, a confirmation, a
payment, except between the write of the stage and that of its flag, or for good
where a consumer is cut there), `DenialCloses` and `DenialIsActedOn` (who is
told of a cancellation by a denial is not deceived, and a denial that comes up
in a queue takes effect unless both are confirmed, the client leaves or the
consumer is cut).

The properties of `registration`: `UserIsVerified`, `OneUserPerSession`,
`SessionEndsWithUser`, and `OtpStays`, the counterpart of the
`VerificationStays` that fails.  A handler of an address that writes back a
session has found the code entered in an earlier read.  The page of the link has
not, and its token is known to the client since the enquiry; a link that is
followed before the code is entered can therefore take the entry back, and the
property leaves out the sessions (`early`) where that happened.

The properties of `exchange`:

* `ImplementsMatching`, `ImplementsEscrow`: each component behaves as its own
  module says although others write the table it reads.  A settlement that
  reopened a transaction, or a cancellation that removed a row, would break them.
* `ImplementsDeal`: the tables, read as one exchange (`Asked`, `Between`, `About`,
  `Outcome`, `Money`, `Rated` in `Exchange`), change only as `Deal` allows: a request
  is answered once, an agreement stands on an answered one, money is held for an
  agreement and settled after it was held, a completion and a rating follow a
  settlement, the rating is one of the two parties', and nothing is reopened.
* `RatedWasSettled`: a payment belongs to a transaction that was opened; a
  rating to one with a settled payment, however it ended since, and it is given
  by one member to the other.  It spans agreement, payment, settlement and two
  steps of the rating.
* `OnlyOverlapDoublesRatings`: as for transactions.
* `SettlementEndsSearch`: once a payment is settled its search is gone, or its
  handler is on the way to delete it, or was cut; otherwise further agents could
  be asked for the same cash.
* `HeldCanBeSettled`: for money in escrow the reference was sent, will be, or
  the handler was cut; then nobody can settle the payment, and it goes on
  keeping others from paying.
* `AcceptanceOpensTxn`, `PaidExchangeEnds`: with handlers that run on, an
  acceptance gets its transaction, and outside production a payment whose
  reference reached the payer is settled, its transaction closed and its search
  gone, unless the handler is cut before it gets there.  The transaction may have
  been cancelled while the cash was in escrow (`escrow_cancel`); the payment is
  settled then all the same.  In production the goal is out of reach for
  transfers, which `escrow_production` shows.

The properties of `accounts` say each that what an answered call has done stays
done, except for calls that overlapped: `LoggedOutStaysListed`,
`NewPasswordStays`, `NewestCodeCounts`, `OneResetPerCode`, `ResetDeviceStays`,
`OnlyOverlapDoublesDevices`.  The exceptions are the races of the code, and each
names the kind of call that may undo what was done.

`Fees!FeesGrow` has no run: it is about numbers alone, and `BandsFit` proves it for
every set of amounts.  `MCExchange` extends `Fees` so that its assumption is
evaluated on both sides of every bound.

### Bounds

`RoomForRequest`, `RoomForTxn`, `RoomForPayment` and `RoomForRating` let a
handler start only while an unused id is left for its insert, so that no handler
is stuck for want of an id, and `MaxRunning` lets only so many calls of
`Accounts` overlap.  These are bounds, not guards of the code.  Some conditions
stand for what the code gets elsewhere: `Free` and `Idle` (a thread serves one
handler at a time), the agents of a search result and a gateway's answer (chosen
freely), `LoopFree` (the event loop).  Ids are never reused: two of each are
enough for every double the properties speak of, and a third reference lets a
pair of payments meet another transaction's.  Two threads give every overlap of
two handlers, and each thread serves one handler after the other, so sequences
of three and more calls are there too.  Ids, threads, agents and transactions
are interchangeable, hence the symmetry; the liveness runs use none.
`CHECK_DEADLOCK FALSE`: once the ids are used up and every transaction is closed
nothing is left to do.

The socket is checked in two instances, because two connections, a thread and
queues of two are too many states.  `socket` has what needs two consumers: a
message handled twice, in different order, by one of them only.  Its second
connection is a stranger's, which can do whatever a member's can except show a
stage.  `socket_payment` has what needs a thread: keys written and deleted
between two messages of one queue.  Messages are lost in both, at the first that
finds a full queue.  For any number of connections, threads and messages the
safety of the socket is proved.

In `registration` two sessions compete for one number and two spellings of an
address, which is where they meet: with a second number (checked as well, in
three minutes) they only part.  A third session could only repeat what two do,
since handlers touch one session each.

`exchange` has one search, request and reference, since the properties that
need two of a kind inside one component are those of `matching` and `escrow`; it
keeps two transactions (two acceptances of one request), two ratings and two
threads, the actors of every overlap across components.  `accounts` has one
user, because no call touches the state of another's, except the list of
tokens, where the user makes no difference; four calls of nine kinds are a login
and three requests by its token, or a reset and its two steps with a fourth call
in between, and `MaxRunning`, two, lets any two of them overlap.

### Fairness

* `WF(Step(t))` in `Exchange`: a running handler is scheduled again.  Handlers
  wait for nothing but their own calls, which have time limits.
* `SF(CallBank(t))`, `SF(MarkPayment(t))`: a thread that comes to these
  statements over and over is not cut there each time.  Without it every
  settlement could be cut, and nothing would follow from asking.
* `SF(\E t : Finalize(t, r))`: an assumption about the payer, who asks again
  after a failure, and finds a thread.  The same assumption, in
  `Escrow!FairSpec`, is what makes `escrow_production` telling: asking for ever
  does not help there.
* `SF(Handle(c))` in `TransactionSocket`: a consumer serves its queue and its
  client in turn, so messages of the client do not keep it from its queue.
  `WF(Located(c))`: the look-up of a route has a time limit.  Nobody has to
  connect, to send or to stay.

`Registration` and `Accounts` state no fairness: every call of theirs ends in a
few statements, and nobody waits for another's.

## 5. What the checks found

1. `matching_busy`: two overlapping acceptances open two transactions for one
   customer; the check at `transactionservice/serializers.py:272` protects only
   sequential calls.
2. `escrow_cancel`: "User shouldn't be able to cancel a transacton when cash is in
   ESCROW" (a TODO, `transactionservice/serializers.py:346`); `validate_request_id`
   looks for an open transaction of the member and at no payment, so either member
   can.  The money is not lost: the payer can still settle it, which turns the
   cancelled transaction into a completed one.
3. `escrow_production`: `finalize_transfer` and `reverse_transfer`
   (`utils/helpers.py:506`, `:542`) call a `string.Template`; the error becomes
   `UnavailableResourceException`, and no bank payment can be settled in
   production.
4. `registration_link`: the page behind the link says "You can continue your
   registration on the app"; a handler that read the session before, such as a
   repeated code, writes `is_email_verified` back as false, and the next request
   is refused with "Your email has not been verified."
   (`userservice/serializers.py:172`).

More facts are part of the models and visible in the actions, without a
statement in the repository to set against them:

* `bool(filter(...))` is always true (`transactionservice/serializers.py:163`), so a
  request can be dispatched to any other user, although the comment above it says
  the agent is checked against the search result (`DispatchLookup`);
* the consumer that sets the second identity flag writes its user's stage after
  it (`consumers.py:212`, `Restage`): the stage that asks for the cash, set by a
  payment in between, is gone;
* a stage is written before its flag (`WriteStage`, `WriteFlag`), and a consumer
  that ends in between leaves it there;
* a link that is followed before the code is entered can take the entry back
  (`FollowLink`, `WriteVerified`);
* the reference of a payment exists only in one response.  When it is lost, the
  payment is in escrow for good: another is refused with "Payment already
  initiated, Kinly complete or reverse" (`paymentservice/serializers.py:60`), and
  neither call can be made.  `HeldCanBeSettled` says that this needs a lost
  response;
* a reverted payment *completes* its transaction; a cancellation overlapping a
  settlement may overwrite `COMPLETED`;
* the bank handlers delete stage keys whose names lack the request id, so a
  closed transaction keeps its stage (`ClearStage`, `KeysOf`);
* only the first consumer to handle an arrival sets a stage (`HandleNear`), and
  an unknown event ends every consumer of the group (`HandleUnknown`);
* a new address leaves `is_email_verified` as it is (`WriteAddress`), the link
  makes the session last for ever (`WriteVerified`), and addresses are looked up
  in lower case but stored as typed (`AddressLookup`);
* the registration socket looks for `reg_token:{code}`, a key that nothing
  writes (`userservice/consumers.py:12`), and refuses every client;
* the refusal of an agent is told before it is stored (`PublishDecline`), and
  agents in a transaction are found by searches all the same (`Search`): user ids
  are compared with pairs of ids (`transactionservice/serializers.py:98`);
* a token that was logged out is refused, but marks its user as seen first
  (`MarkSeen` comes before `Authorize`), and the socket does not look at the list;
* the request that finalizes a reset carries the address and the new password,
  not the code (`FinalizeLookup`);
* with two device rows every later reset of the device raises
  `MultipleObjectsReturned` (`PutDevice`);
* a confirmed code has no time limit (`ConfirmCode`), and a late confirmation
  brings a used one back.

Facts that no model shows, met while reading: two logins of a user in one second
issue the same token; a profile update without a display name sets it to the
first name; the presence filter asks for 5000 s of keys that live 4000 s; login
looks for the address in lower case, like registration.

## 6. Proofs

All theorems hold for arbitrary constants, under the named assumptions of each
module: `MatchingAssumption` and `ExchangeAssumption` (agents are users, `Null` is
not a row), `EscrowAssumption` (`Null` is not a row), `RegistrationAssumption`
(`Lower` maps addresses to addresses, `Null` is no session and no address),
`AccountsAssumption` (some users are `BvnUsers`, `Null` is no call and no entry),
`SocketAssumption` (no connection is of both members, the capacity of a queue is a
number), `AmountsAssumption` (amounts are integers).
Nothing is assumed to be finite: the bounds are guards, and no proof uses them.

| Theorem | Invariant it rests on |
|---|---|
| `Matching_proofs!TypeCorrect` | `WellFormed`: types, and a reaction runs on a request that exists |
| `TxnsFollowRequests` | `AgreementInv`: dispatch jobs and requests join two users, a request that an insert or a transaction stands on is decided; needs that requests persist with their parties and that a decision is never undone to `PENDING` |
| `DispatchDoublesOverlap` | `DispatchInv`: a thread about to insert has inserted no such request itself |
| `TxnDoublesOverlap` | `OpeningInv`: a thread past the look-up opened nothing on the request, and past the busy check has no open transaction with the customer |
| `AcceptanceOpens`, `ToldAfterInsert` | `AcceptanceInv`: past the insert, and once told, a transaction exists |
| `Escrow_proofs!TypeCorrect`, `RecordedPaymentsWereCharged` | `WellFormed`: types; each entry handler's reference is charged; unrecorded before the insert, recorded for the handler's own transaction after; no two handlers about to insert share a reference; references in responses are recorded; past the update of a payment it is settled |
| `ChargesAreRecorded` | itself, with `WellFormed`: the step "record" is left by the insert or by a cut |
| `PaymentDoublesOverlap` | `CheckHolds`: between the check and the insert a thread has no row of its own for the transaction |
| `CompletedAreSettled`, `SettlementsClose`, `AwaitedIsRecorded` | themselves, with `WellFormed` and `RowsPersist` (a row keeps its transaction and stays settled) |
| `HandlersKeepLedger` (`Spec => ImplementsLedger`) | `WellFormed`: each action maps to one abstract action or to a stutter; a thread at a statement that writes has the task that allows it, which needs that rows keep their transaction |
| `Registration_proofs!TypeCorrect` | itself |
| `UsersAreVerified` | `EarnedInv`: what a session says, in Redis or in the hands of a handler about to write it, has happened, and a handler past a check has what it checked; needs that the histories only grow |
| `OtpIsKept` | `OtpInv`: unless a link of it is followed early, once a handler of an address has found the code of a token entered the session says so while it lives, and so does every base about to be written; needs `IssuedInv` (a new session starts under a token that nothing refers to) |
| `SessionsMakeOneUser` | `MobileInv`: all that is ever said of a token names one mobile number, which the unique column then admits once |
| `SessionsEnd` | itself with `IssuedInv`; the deletion is left with the session gone or the token marked |
| `TransactionSocket_proofs!TypeCorrect` | `WellFormed`: types, and a settlement that deletes keys has one left to delete |
| `ConfirmationsFollowArrivals`, `PaymentsMoveOn` | `LoopInv`: one consumer at most has writes to do, and what it read of the identity flags is still so; `ArrivalInv`: while the transaction is open no handler is past the end of a settlement, so no flag is deleted, every confirmation that is sent or waits in a queue is of a member flagged as arrived, and an arrival about to be written is not of a confirmed member |
| `StagesAreEarned` | `StageInv`: handlers past the insert of a payment have made it; with `LoopInv` and `ArrivalInv`, since a deleted flag would leave a stage without its cause |
| `DenialsClose` | itself: a consumer that cancels does so or is cut (`CancellerMoves`) |
| `Exchange_proofs!TypeCorrect`, `KeepsMatching`, `KeepsEscrow` | `ExchangeInv`: the types of the composition; `AgreementInv` and `SearchesExist` of `Matching`, `WellFormed` of `Escrow`; `PaidForOpened` (rows and handlers of `Escrow` stand on opened transactions) and `RatersAreMembers` |
| `RatingsAreFair` | `RatedInv`: a completed transaction, and the one that a rating or its handler stands on, has a settled payment |
| `RatingDoublesOverlap` | `NotRatedByMe`: a thread about to insert a rating has not given it before |
| `SettlementsEndSearches`, `HeldAreKnown` | themselves, with `ExchangeInv` |
| `Deal_proofs!KeepsDeal` (`Spec => ImplementsDeal`) | `ExchangeInv` and `RatedInv`: each update of a table (`TablesChange`) maps to one step of `Deal` or to a stutter |
| `DealsAreHonoured` (`Spec => []D!Honoured`) | `DealInv` of `Deal` itself: a request that was asked joins two users; carried over by `KeepsDeal` |
| `Exchange_proofs!MatchingPromises`, `EscrowPromises` | the theorems of the components, with `ComponentsRun` (`Spec => MP!Spec /\ EP!Spec`) |
| `MoneyIsTraced` | `ExchangeInv` with a promise of each component, chained from the payment to the search |
| `ProductionNeedsCards` | `TransfersStayInEscrow` and `CompletedAreSettled` of `Escrow`, `RatedWasSettled` |
| `TurnsKeepRecords` | `ExchangeInv`, and `TurnsKeepAnswers`, `TurnsKeepOutcomes` of the components, below |
| `Escrow_proofs!TransfersStayInEscrow`, `CardsCompleteInProduction` | `CardsAlone`: in production a settlement past the call of the bank is of a card payment |
| `TransactionSocket_proofs!ProgressIsKept` (action property) | `LoopInv`, `ArrivalInv`; the last write of a consumer over the stage of a payment is its named exception |
| `Accounts_proofs!TypeCorrect` | `WellFormed`: types; a call runs only statements of its own kind and carries what they need; what ended before a call has ended |
| `LoggedOutIsListed` | `LogoutInv`: a list about to be stored has every token whose logout had ended when it was read |
| `NewPasswordsStay` | `PasswordInv`: the password that an update is about to write back is the last that had been set, or was replaced |
| `NewestCodesCount` | `NewestInv`: a code about to be confirmed was the last that had been sent |
| `CodesResetOnce` | `UsedInv`: stored codes were sent; a used one is gone, or was restored by a confirmation that overlapped |
| `DeviceDoublesOverlap` | `RowInv`: a call about to insert a row overlaps every one that inserted |
| `ResetDevicesStay` | `ResetInv`: a login that found no device began before any reset had ended |
| `Fees!BandsFit` | none: arithmetic over the bands |

The proofs of `Registration` go through four lemmas that say what a step can do
to a handler (`JobMoves`), a session (`SessionMoves`), the users (`UserMoves`)
and the histories (`Grows`); the invariants do not look at actions any more.

The proofs of `Escrow` rest on a few effect lemmas (`RecordEffect`,
`MarkEffect`, `DebitEffect`, `MarkTxnEffect`), on `RowsPersist`, and on
`JobMoves`, `EntryMoves`, `SettleMoves`, `LeavesStep`, which say by which
statement a handler gets to and leaves each point.  An invariant is then one
argument about a row and one about a job.

The proofs of `TransactionSocket` never look into the actions of a queue twice:
`QueueMoves` says that a step leaves a queue as it is, empties it, takes its head,
or appends a message that was true when it was sent; `FlagMoves`, `StageMoves` and
`JobMoves` say the same of the flags, stages and handlers.

The proof of `Exchange` takes each component's promise for its own step and
gives it the other's as an assumption.  `MP` and `EP` are `Matching_proofs` and
`Escrow_proofs` under the mappings of `Exchange`.  While `ExchangeInv` holds,
every step of the exchange is a step of `Matching` or leaves it alone
(`MatchingSteps`), and the same of `Escrow` (`EscrowSteps`): a settlement or a
cancellation is a `CloseTxn` or a stutter for `Matching`; an insert of a
transaction is a stutter for `Escrow`, since a missing row counts as open.  So
the step lemmas `MP!NextAgreement`, `MP!NextSearches` and `EP!NextWellFormed` carry
the components' invariants over, without looking at their actions again, and
only what spans them is argued here: `PaidForOpened` and `RatersAreMembers`,
because rows are never removed and keep their members (`RowsStay`).
`SameMatching` and `SameEscrow` say that the instances with and without the
proofs define the same.

The proofs of `Accounts` use no history but `before`: two calls overlap if
neither had ended when the other began, a relation that never changes once both
have begun (`RelationStays`), and whoever runs overlaps whoever ends now
(`RunningOverlaps`).

**What taking turns would give.**  The runs `matching_busy` and
`registration_link` find claims of the repository broken, and properties such as
`OnlyOverlapDoublesPayments` speak of one thread only.  A third group of
theorems says how little is missing.  Each assumes that certain handlers take
turns, by whatever means (a lock, a queue per customer), and leaves everything
else as it is: all other overlaps, cuts, lost answers.

| Theorem | If these take turns | then |
|---|---|---|
| `Matching_proofs!TurnsKeepOneOpen` | reactions to requests of one customer | `OneOpenTxnPerCustomer`, and a request opens one transaction |
| `TurnsKeepOneRequest` | dispatches of one search to one agent | the agent hears of the search once |
| `Escrow_proofs!TurnsKeepOnePayment` | handlers that pay for one transaction, up to the row | it has one payment (a charge without an answer is still possible) |
| `TurnsKeepSettlement` | finalize and revert of one payment, up to the row | a settled payment is never changed again |
| `TurnsKeepOutcomes` | settlements and cancellations of one transaction, from the look-up to the last update | a completed transaction stays completed, a cancelled one is at most completed by the settlement of money in escrow, a settled payment is never changed again |
| `Matching_proofs!TurnsKeepAnswers` | reactions to requests of one customer | no answer is overwritten |
| `Registration_proofs!TurnsKeepVerification` | the handlers between read and write of one session | `VerificationStays` |
| `Exchange_proofs!TurnsKeepOneRating` | ratings of one transaction by one member | one rating |
| `TurnsKeepOneExchange` | the first and the third | one open transaction for a customer, one payment for an agreement |
| `TurnsKeepRecords` | reactions for one customer, and the handlers that close one transaction | nothing recorded is written over: parties, answers, what a payment is for and how it was settled, completions, ratings |
| `Accounts_proofs!TurnsKeepAccounts` | the calls of one user | one device, that of the last reset; the last password; the newest code; no code that works twice |
| `TurnsKeepLogouts` | logouts, of *all* users | every logged-out token is refused: the list is one for all |

The conclusions fail without the assumption (the runs above show two of them;
the other doubles are the ones that the `OnlyOverlap...` properties make room
for), and service of one call at a time meets every assumption, so none of them
is empty.  The invariant of each is that what a handler looked up is still so
when it writes: `TurnsInv`, `HearingInv`, `StillPending`, `StillUnpaid`,
`StillHeld`, `StillOpen`, `CurrentInv`, `NotRatedYet`.  `TurnsKeepAccounts`
needs none of its own: it follows from the properties of `accounts`, whose
exceptions are all overlaps of calls of one user.

Every safety property that a passing run checks is stated by a theorem, and the
claims that `matching_busy` and `registration_link` refute are
proved under the assumption that is missing.  Of `escrow_production`, a liveness
claim, the theorem is the reason: `TransfersStayInEscrow`.

Model-checked only: the liveness properties (`AcceptanceOpensTxn`,
`PaidExchangeEnds`, `DenialIsActedOn`), which depend on fairness and `ENABLED`.

## 7. Not modelled

* Which agents are online and near: an input of `Search`.  Presence is a key that
  `Accounts` sets and lets expire, routes come from a service outside.
* Listings and their pages, which only read; that a listing changes between two
  of its pages.
* The registration socket, see section 5; `BankPostRegistrationSerializer`, which
  no view uses.
* The query cache (`django-cachalot`, disabled in the settings) and the
  uniqueness of payment references: they are generated ids and taken as fresh.
* Amounts, names, bank details, texts and formats: no property tells them
  apart.  Encryption of card data and signatures of requests.
* Serializer validation of a single field: a refused request changes nothing.
* Push notifications and mail: no state depends on them.  A failing push ends
  the handler, which `Abort` covers.
* Concurrency inside one statement: Postgres and Redis execute each atomically.
