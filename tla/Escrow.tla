------------------------------- MODULE Escrow -------------------------------
(***************************************************************************)
(* Paying for an exchange transaction and closing it: the escrow handlers  *)
(* of paymentservice, and the cancellation of transactionservice.          *)
(*                                                                         *)
(* A member of an open transaction pays by bank transfer or by card; the   *)
(* gateway takes the money and a row of TransactionPayments holds it in    *)
(* escrow.  The payer, who got the reference in the response, later        *)
(* finalizes or reverts the payment, which completes the transaction;      *)
(* either member may cancel it.  As in Matching, each request has a thread *)
(* and each query, update, cache or gateway call is a step of its own.     *)
(*                                                                         *)
(* No handler moves money out again: a card payment is finalized in the    *)
(* database alone, and the helpers that finalize and reverse a transfer    *)
(* answer for the bank outside production and raise in production, before  *)
(* the call, as they call the Template of the signed header.               *)
(***************************************************************************)
EXTENDS Naturals, FiniteSets

CONSTANTS Txns, Refs, Threads, Null

VARIABLES production, \* settings.IS_PROD_ENV: set when the server starts
          status,     \* transaction_status of ExchangeTransactions, by id
          pay,        \* table TransactionPayments, by transaction_reference
          charged,    \* the references a gateway took money for
          known,      \* the references a payer got in a response
          awaiting,   \* transactions whose stage keys await the cash confirmation
          job,        \* the handler each thread runs, with its local variables
          unrecorded, \* history: charges whose handler ended before the row
          unclosed    \* history: settled payments whose handler ended before the transaction

vars == <<production, status, pay, charged, known, awaiting, job, unrecorded, unclosed>>

-----------------------------------------------------------------------------
Gateways == {"VFD_BANK", "ONEPIPE"}
Payment == [txn : Txns, gateway : Gateways,
            status : {"IN_ESCROW", "COMPLETED", "REVERSED"}, by : Threads]

Idle == [at |-> "idle"]
CheckJob == [at : {"check unpaid", "debit"}, txn : Txns, gateway : Gateways]
EntryJob == [at : {"record", "set stage", "respond"}, txn : Txns,
             gateway : Gateways, ref : Refs]
SettleJob == [at : {"call bank", "mark payment", "mark txn", "clear stage"},
              ref : Refs, as : {"COMPLETED", "REVERSED"}]
CancelJob == [at : {"cancel"}, txn : Txns]

\* Null stands for a payment that does not exist.
ASSUME EscrowAssumption == Null \notin Payment

TypeOK ==
    /\ production \in BOOLEAN
    /\ status \in [Txns -> {"IN-PROGRESS", "COMPLETED", "CANCELLED"}]
    /\ pay \in [Refs -> Payment \cup {Null}]
    /\ charged \in SUBSET Refs
    /\ known \in SUBSET Refs
    /\ awaiting \in SUBSET Txns
    /\ job \in [Threads -> {Idle} \cup CheckJob \cup EntryJob \cup SettleJob \cup CancelJob]
    /\ unrecorded \in SUBSET Refs
    /\ unclosed \in SUBSET Refs

\* The transactions are those that acceptance opened (module Matching).
Init ==
    /\ production \in BOOLEAN
    /\ status = [x \in Txns |-> "IN-PROGRESS"]
    /\ pay = [r \in Refs |-> Null]
    /\ charged = {}
    /\ known = {}
    /\ awaiting = {}
    /\ job = [t \in Threads |-> Idle]
    /\ unrecorded = {}
    /\ unclosed = {}

-----------------------------------------------------------------------------
PaymentsOf(x) == {r \in Refs : pay[r] # Null /\ pay[r].txn = x}
Settled(r) == pay[r] # Null /\ pay[r].status # "IN_ESCROW"

\* Bound of the model: a handler starts to pay only while a reference is left for it.
RoomForPayment ==
    Cardinality({t \in Threads : job[t].at \in {"check unpaid", "debit"}})
       < Cardinality(Refs \ charged)

GoTo(t, a) == job' = [job EXCEPT ![t].at = a]
Return(t) == job' = [job EXCEPT ![t] = Idle]

-----------------------------------------------------------------------------
(* Paying (InitateEscrowSerializer, InitiateCardSerializer).  Any member    *)
(* of the transaction may pay, by either gateway.                           *)

PayLookup(t, x, g) ==
    /\ job[t] = Idle
    /\ RoomForPayment
    /\ status[x] = "IN-PROGRESS"
    /\ job' = [job EXCEPT ![t] = [at |-> "check unpaid", txn |-> x, gateway |-> g]]
    /\ UNCHANGED <<production, status, pay, charged, known, awaiting, unrecorded, unclosed>>

\* Definitions marked "Mutant" are faulty variants that nothing here uses: each
\* shows that a property below notices the fault.
\* Mutant: only a payment still in escrow stands in the way of another.
CheckNoEscrow(t) ==
    /\ job[t].at = "check unpaid"
    /\ IF \E r \in PaymentsOf(job[t].txn) : ~Settled(r) THEN Return(t) ELSE GoTo(t, "debit")
    /\ UNCHANGED <<production, status, pay, charged, known, awaiting, unrecorded, unclosed>>

CheckUnpaid(t) ==
    /\ job[t].at = "check unpaid"
    /\ IF PaymentsOf(job[t].txn) # {} THEN Return(t) ELSE GoTo(t, "debit")
    /\ UNCHANGED <<production, status, pay, charged, known, awaiting, unrecorded, unclosed>>

\* Mutant: the answer of the gateway is not looked at.
DebitUnchecked(t) ==
    /\ job[t].at = "debit"
    /\ \E r \in Refs \ charged : \E taken \in {{}, {r}} :
         /\ charged' = charged \cup taken
         /\ job' = [job EXCEPT ![t] = [at |-> "record", txn |-> job[t].txn,
                                       gateway |-> job[t].gateway, ref |-> r]]
    /\ UNCHANGED <<production, status, pay, known, awaiting, unrecorded, unclosed>>

\* Mutant: the members are shown the new stage as soon as the gateway answers.
DebitAndShow(t) ==
    /\ job[t].at = "debit"
    /\ \E r \in Refs \ charged :
         /\ charged' = charged \cup {r}
         /\ job' = [job EXCEPT ![t] = [at |-> "record", txn |-> job[t].txn,
                                       gateway |-> job[t].gateway, ref |-> r]]
    /\ awaiting' = awaiting \cup {job[t].txn}
    /\ UNCHANGED <<production, status, pay, known, unrecorded, unclosed>>

\* The gateway takes the money under a new reference and says so.
Debit(t) ==
    /\ job[t].at = "debit"
    /\ \E r \in Refs \ charged :
         /\ charged' = charged \cup {r}
         /\ job' = [job EXCEPT ![t] = [at |-> "record", txn |-> job[t].txn,
                                       gateway |-> job[t].gateway, ref |-> r]]
    /\ UNCHANGED <<production, status, pay, known, awaiting, unrecorded, unclosed>>

\* The gateway takes the money but its answer is late, broken or not "Successful":
\* the transfer raises, the card debit returns None, and the handler refuses.
\* Outside production the transfer is answered by the helper itself.
DebitUnanswered(t) ==
    /\ job[t].at = "debit"
    /\ production \/ job[t].gateway = "ONEPIPE"
    /\ \E r \in Refs \ charged :
         /\ charged' = charged \cup {r}
         /\ unrecorded' = unrecorded \cup {r}
    /\ Return(t)
    /\ UNCHANGED <<production, status, pay, known, awaiting, unclosed>>

\* Mutant: the check for another payment is repeated after the debit.
RecordIfUnpaid(t) ==
    /\ job[t].at = "record"
    /\ IF PaymentsOf(job[t].txn) # {}
       THEN Return(t) /\ UNCHANGED pay
       ELSE /\ GoTo(t, "set stage")
            /\ pay' = [pay EXCEPT ![job[t].ref] =
                         [txn |-> job[t].txn, gateway |-> job[t].gateway,
                          status |-> "IN_ESCROW", by |-> t]]
    /\ UNCHANGED <<production, status, charged, known, awaiting, unrecorded, unclosed>>

Record(t) ==
    /\ job[t].at = "record"
    /\ pay' = [pay EXCEPT ![job[t].ref] =
                 [txn |-> job[t].txn, gateway |-> job[t].gateway,
                  status |-> "IN_ESCROW", by |-> t]]
    /\ GoTo(t, "set stage")
    /\ UNCHANGED <<production, status, charged, known, awaiting, unrecorded, unclosed>>

\* The agent is told, then the stage keys of both members are written.  From the
\* first key on a member is shown the stage, which is all that is kept here; module
\* TransactionSocket has the keys one by one.
SetStage(t) ==
    /\ job[t].at = "set stage"
    /\ awaiting' = awaiting \cup {job[t].txn}
    /\ GoTo(t, "respond")
    /\ UNCHANGED <<production, status, pay, charged, known, unrecorded, unclosed>>

\* Mutant: the response leaves the reference out.
RespondWithoutReference(t) ==
    /\ job[t].at = "respond"
    /\ Return(t)
    /\ UNCHANGED <<production, status, pay, charged, known, awaiting, unrecorded, unclosed>>

\* The response is the one place where the payer sees the reference.
Respond(t) ==
    /\ job[t].at = "respond"
    /\ known' = known \cup {job[t].ref}
    /\ Return(t)
    /\ UNCHANGED <<production, status, pay, charged, awaiting, unrecorded, unclosed>>

-----------------------------------------------------------------------------
(* Settling a payment (FinalizeEscrowSerializer, RevertEscrowSerializer,    *)
(* FinalizeCardSerializer).  There is no reversal of a card payment.        *)

\* Mutant: the transaction has to be in progress.
SettleOpenOnly(t, r, as) ==
    /\ job[t] = Idle
    /\ r \in known
    /\ pay[r].status = "IN_ESCROW"
    /\ status[pay[r].txn] = "IN-PROGRESS"
    /\ as = "REVERSED" => pay[r].gateway = "VFD_BANK"
    /\ job' = [job EXCEPT ![t] =
                 [at |-> IF pay[r].gateway = "VFD_BANK" THEN "call bank"
                                                        ELSE "mark payment",
                  ref |-> r, as |-> as]]
    /\ UNCHANGED <<production, status, pay, charged, known, awaiting, unrecorded, unclosed>>

\* Mutant: a payment can be reverted after it was completed.
SettleAnyLookup(t, r, as) ==
    /\ job[t] = Idle
    /\ r \in known
    /\ as = "COMPLETED" => pay[r].status = "IN_ESCROW"
    /\ as = "REVERSED" => pay[r].gateway = "VFD_BANK"
    /\ job' = [job EXCEPT ![t] =
                 [at |-> IF pay[r].gateway = "VFD_BANK" THEN "call bank"
                                                        ELSE "mark payment",
                  ref |-> r, as |-> as]]
    /\ UNCHANGED <<production, status, pay, charged, known, awaiting, unrecorded, unclosed>>

SettleLookup(t, r, as) ==
    /\ job[t] = Idle
    /\ r \in known
    /\ pay[r].status = "IN_ESCROW"
    /\ as = "REVERSED" => pay[r].gateway = "VFD_BANK"
    /\ job' = [job EXCEPT ![t] =
                 [at |-> IF pay[r].gateway = "VFD_BANK" THEN "call bank"
                                                        ELSE "mark payment",
                  ref |-> r, as |-> as]]
    /\ UNCHANGED <<production, status, pay, charged, known, awaiting, unrecorded, unclosed>>

CallBank(t) ==
    /\ job[t].at = "call bank"
    /\ ~production
    /\ GoTo(t, "mark payment")
    /\ UNCHANGED <<production, status, pay, charged, known, awaiting, unrecorded, unclosed>>

BankCallRaises(t) ==
    /\ job[t].at = "call bank"
    /\ production
    /\ Return(t)
    /\ UNCHANGED <<production, status, pay, charged, known, awaiting, unrecorded, unclosed>>

\* Mutant: the transaction is completed first.
MarkTxnFirst(t) ==
    /\ job[t].at = "mark payment"
    /\ status' = [status EXCEPT ![pay[job[t].ref].txn] = "COMPLETED"]
    /\ GoTo(t, "mark txn")
    /\ UNCHANGED <<production, pay, charged, known, awaiting, unrecorded, unclosed>>

\* Mutant: a reversal leaves the transaction alone.
MarkPaymentOnly(t) ==
    /\ job[t].at = "mark payment"
    /\ pay' = [pay EXCEPT ![job[t].ref].status = job[t].as]
    /\ IF job[t].as = "REVERSED" THEN Return(t) ELSE GoTo(t, "mark txn")
    /\ UNCHANGED <<production, status, charged, known, awaiting, unrecorded, unclosed>>

\* Writes the row read by the lookup, whatever it has become since.
MarkPayment(t) ==
    /\ job[t].at = "mark payment"
    /\ pay' = [pay EXCEPT ![job[t].ref].status = job[t].as]
    /\ GoTo(t, "mark txn")
    /\ UNCHANGED <<production, status, charged, known, awaiting, unrecorded, unclosed>>

\* Mutant: the transaction takes the status of the payment.
MarkTxnAsPayment(t) ==
    /\ job[t].at = "mark txn"
    /\ status' = [status EXCEPT ![pay[job[t].ref].txn] = job[t].as]
    /\ GoTo(t, "clear stage")
    /\ UNCHANGED <<production, pay, charged, known, awaiting, unrecorded, unclosed>>

\* A reverted payment completes the transaction too.
MarkTxn(t) ==
    /\ job[t].at = "mark txn"
    /\ status' = [status EXCEPT ![pay[job[t].ref].txn] = "COMPLETED"]
    /\ GoTo(t, "clear stage")
    /\ UNCHANGED <<production, pay, charged, known, awaiting, unrecorded, unclosed>>

\* Only the card handler deletes the keys that were set: the two bank handlers leave
\* the request id out of the key.
ClearStage(t) ==
    /\ job[t].at = "clear stage"
    /\ awaiting' = IF pay[job[t].ref].gateway = "ONEPIPE"
                   THEN awaiting \ {pay[job[t].ref].txn} ELSE awaiting
    /\ Return(t)
    /\ UNCHANGED <<production, status, pay, charged, known, unrecorded, unclosed>>

-----------------------------------------------------------------------------
(* Cancelling (CancelExchangeTransactionSerializer).                        *)

\* Mutant: a transaction that was closed can be cancelled.
CancelAnyLookup(t, x) ==
    /\ job[t] = Idle
    /\ job' = [job EXCEPT ![t] = [at |-> "cancel", txn |-> x]]
    /\ UNCHANGED <<production, status, pay, charged, known, awaiting, unrecorded, unclosed>>

CancelLookup(t, x) ==
    /\ job[t] = Idle
    /\ status[x] = "IN-PROGRESS"
    /\ job' = [job EXCEPT ![t] = [at |-> "cancel", txn |-> x]]
    /\ UNCHANGED <<production, status, pay, charged, known, awaiting, unrecorded, unclosed>>

Cancel(t) ==
    /\ job[t].at = "cancel"
    /\ status' = [status EXCEPT ![job[t].txn] = "CANCELLED"]
    /\ Return(t)
    /\ UNCHANGED <<production, pay, charged, known, awaiting, unrecorded, unclosed>>

-----------------------------------------------------------------------------
\* A handler ends early: a gateway refuses, the database, Redis or the channel layer
\* fails, the process dies, or, at the end, the response is lost.
Abort(t) ==
    /\ job[t] # Idle
    /\ unrecorded' = IF job[t].at = "record" THEN unrecorded \cup {job[t].ref} ELSE unrecorded
    /\ unclosed' = IF job[t].at = "mark txn" THEN unclosed \cup {job[t].ref} ELSE unclosed
    /\ Return(t)
    /\ UNCHANGED <<production, status, pay, charged, known, awaiting>>

Step(t) ==
    \/ CheckUnpaid(t)
    \/ Debit(t)
    \/ DebitUnanswered(t)
    \/ Record(t)
    \/ SetStage(t)
    \/ Respond(t)
    \/ CallBank(t)
    \/ BankCallRaises(t)
    \/ MarkPayment(t)
    \/ MarkTxn(t)
    \/ ClearStage(t)
    \/ Cancel(t)

Next ==
    \/ \E t \in Threads, x \in Txns, g \in Gateways : PayLookup(t, x, g)
    \/ \E t \in Threads, r \in Refs, as \in {"COMPLETED", "REVERSED"} : SettleLookup(t, r, as)
    \/ \E t \in Threads, x \in Txns : CancelLookup(t, x)
    \/ \E t \in Threads : Step(t)
    \/ \E t \in Threads : Abort(t)

Spec == Init /\ [][Next]_vars

\* Handlers run on, and not every settlement of a thread is cut; a payer who
\* knows the reference goes on asking for the settlement.
Fairness ==
    /\ \A t \in Threads : WF_vars(Step(t)) /\ SF_vars(CallBank(t)) /\ SF_vars(MarkPayment(t))
    /\ \A r \in Refs : SF_vars(\E t \in Threads : SettleLookup(t, r, "COMPLETED"))

FairSpec == Spec /\ Fairness

-----------------------------------------------------------------------------
(* Nothing is held in escrow that no gateway took: a row is written only    *)
(* for a charge that was confirmed, under its own reference.                *)
RecordedWasCharged == \A r \in Refs : pay[r] # Null => r \in charged

(* The payer's money is not lost sight of: a charge without a row belongs   *)
(* to a handler about to write it, or to one that was cut or got no answer. *)
ChargeIsRecorded ==
    \A r \in charged : pay[r] = Null =>
       \/ r \in unrecorded
       \/ \E t \in Threads : job[t].at = "record" /\ job[t].ref = r

(* A transaction is paid for twice only by handlers that overlapped, never  *)
(* by one thread's, even after a settlement that was cut half-way left the  *)
(* transaction open.                                                        *)
OnlyOverlapDoublesPayments ==
    \A p, q \in Refs :
       (pay[p] # Null /\ pay[q] # Null /\ p # q /\ pay[p].by = pay[q].by) =>
          pay[p].txn # pay[q].txn

(* A completed transaction has a settled payment, also when a cancellation  *)
(* or a second settlement overlapped.                                       *)
CompletedTxnIsSettled ==
    \A x \in Txns : status[x] = "COMPLETED" => \E r \in PaymentsOf(x) : Settled(r)

(* A settled payment closes its transaction, so that nobody can pay for it  *)
(* again: it is open only while a handler is about to write it or if that   *)
(* handler was cut.                                                         *)
SettlementClosesTxn ==
    \A r \in Refs : (Settled(r) /\ status[pay[r].txn] = "IN-PROGRESS") =>
       \/ r \in unclosed
       \/ \E t \in Threads : job[t].at = "mark txn" /\ job[t].ref = r

(* The members are shown that cash is awaited only when the payment that    *)
(* covers it is on record.                                                  *)
AwaitedCashIsRecorded == \A x \in awaiting : PaymentsOf(x) # {}

(* The handlers keep the promise of EscrowLedger: a payment is settled by a *)
(* handler that found it in escrow, and a transaction closed by the handler *)
(* that settled its payment or by one that found it open.  Each thread is a *)
(* clerk, whose task is what its handler still has to write.                *)
Entry ==
    [r \in Refs |-> IF pay[r] # Null
                    THEN IF pay[r].status = "IN_ESCROW" THEN "held" ELSE pay[r].status
                    ELSE IF r \in charged THEN "charged" ELSE "none"]
EntryOf == [r \in Refs |-> IF pay[r] # Null THEN pay[r].txn ELSE Null]
ToWrite(j) ==
    CASE j.at \in {"call bank", "mark payment"} -> [do |-> "settle", ref |-> j.ref, as |-> j.as]
      [] j.at = "mark txn" -> [do |-> "complete", ref |-> j.ref]
      [] j.at = "cancel" -> [do |-> "cancel", txn |-> j.txn]
      [] OTHER -> [do |-> "nothing"]
Task == [t \in Threads |-> ToWrite(job[t])]

Ledger == INSTANCE EscrowLedger WITH
    Clerks <- Threads, entry <- Entry, entryOf <- EntryOf, deal <- status, task <- Task

ImplementsLedger == Ledger!Spec

-----------------------------------------------------------------------------
(* "User shouldn't be able to cancel a transacton when cash is in ESCROW"   *)
(* (transactionservice/serializers.py:346).                                 *)
NoCancelInEscrow ==
    [][\A x \in Txns : (status[x] = "IN-PROGRESS" /\ status'[x] = "CANCELLED") =>
          \A r \in PaymentsOf(x) : Settled(r)]_vars

-----------------------------------------------------------------------------
(* "Method to transfer funds from Escrow to Agent Account" (helpers.py:499) *)
(* and its use: the escrow of a payer who asks for it is settled.           *)
EscrowIsSettled == \A r \in Refs : r \in known ~> Settled(r)
=============================================================================
