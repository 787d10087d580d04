---------------------------- MODULE Escrow_proofs ----------------------------
(***************************************************************************)
(* Theorems about Escrow, for any transactions, references and threads.    *)
(***************************************************************************)
EXTENDS Escrow, TLAPS

-----------------------------------------------------------------------------
(* Jobs.                                                                    *)

Job == {Idle} \cup CheckJob \cup EntryJob \cup SettleJob \cup CancelJob

\* The step a job is at says which handler it runs.
LEMMA JobAt ==
    /\ Idle.at = "idle"
    /\ \A j \in CheckJob : j.at \in {"check unpaid", "debit"}
    /\ \A j \in EntryJob : j.at \in {"record", "set stage", "respond"}
    /\ \A j \in SettleJob : j.at \in {"call bank", "mark payment", "mark txn", "clear stage"}
    /\ \A j \in CancelJob : j.at = "cancel"
BY DEF Idle, CheckJob, EntryJob, SettleJob, CancelJob

LEMMA JobKind ==
    ASSUME NEW t \in Threads, TypeOK
    PROVE  /\ job[t].at \in {"check unpaid", "debit"} => job[t] \in CheckJob
           /\ job[t].at \in {"record", "set stage", "respond"} => job[t] \in EntryJob
           /\ job[t].at \in {"call bank", "mark payment", "mark txn", "clear stage"} =>
                 job[t] \in SettleJob
           /\ job[t].at = "cancel" => job[t] \in CancelJob
BY JobAt DEF TypeOK

\* How a handler's job changes as it goes on or returns.
LEMMA GoToJob ==
    ASSUME NEW t \in Threads, NEW a, TypeOK, GoTo(t, a)
    PROVE  /\ \A u \in Threads \ {t} : job'[u] = job[u]
           /\ job[t] \in CheckJob => /\ job'[t].at = a
                                     /\ job'[t].txn = job[t].txn
                                     /\ job'[t].gateway = job[t].gateway
           /\ job[t] \in EntryJob => /\ job'[t].at = a
                                     /\ job'[t].txn = job[t].txn
                                     /\ job'[t].gateway = job[t].gateway
                                     /\ job'[t].ref = job[t].ref
           /\ job[t] \in SettleJob => /\ job'[t].at = a
                                      /\ job'[t].ref = job[t].ref
                                      /\ job'[t].as = job[t].as
<1>1. job' = [job EXCEPT ![t] = [job[t] EXCEPT !.at = a]]
  BY DEF GoTo
<1> QED
  BY <1>1 DEF TypeOK, CheckJob, EntryJob, SettleJob

LEMMA GoToType ==
    ASSUME NEW t \in Threads, NEW a, TypeOK, GoTo(t, a),
           \/ job[t] \in CheckJob /\ a = "debit"
           \/ job[t] \in EntryJob /\ a \in {"set stage", "respond"}
           \/ job[t] \in SettleJob /\ a \in {"mark payment", "mark txn", "clear stage"}
    PROVE  job' \in [Threads -> Job]
<1>1. [job[t] EXCEPT !.at = a] \in CheckJob \cup EntryJob \cup SettleJob
  BY DEF CheckJob, EntryJob, SettleJob
<1>2. job' = [job EXCEPT ![t] = [job[t] EXCEPT !.at = a]]
  BY DEF GoTo
<1> QED
  BY <1>1, <1>2 DEF TypeOK, Job

LEMMA ReturnJob ==
    ASSUME NEW t \in Threads, TypeOK, Return(t)
    PROVE  /\ job'[t] = Idle
           /\ \A u \in Threads \ {t} : job'[u] = job[u]
           /\ job' \in [Threads -> Job]
BY DEF TypeOK, Return, Job

-----------------------------------------------------------------------------
(* Well-formed states.  A settlement and a response run on a payment that   *)
(* is recorded; a handler about to record one has a charge of its own,      *)
(* which no row and no other handler has; past the update of the payment    *)
(* the payment is settled.                                                  *)

JobFollowsPayment(t) ==
    /\ job[t].at \in {"record", "set stage", "respond"} => job[t].ref \in charged
    /\ job[t].at = "record" => pay[job[t].ref] = Null
    /\ job[t].at \in {"set stage", "respond"} =>
          pay[job[t].ref] # Null /\ pay[job[t].ref].txn = job[t].txn
    /\ job[t].at \in {"call bank", "mark payment", "mark txn", "clear stage"} =>
          pay[job[t].ref] # Null
    /\ job[t].at \in {"mark txn", "clear stage"} => pay[job[t].ref].status # "IN_ESCROW"

JobsFollowPayments == \A t \in Threads : JobFollowsPayment(t)

OneRecorder ==
    \A t, u \in Threads :
       (t # u /\ job[t].at = "record" /\ job[u].at = "record") => job[t].ref # job[u].ref

KnownIsRecorded == \A r \in known : pay[r] # Null

WellFormed ==
    /\ TypeOK
    /\ JobsFollowPayments
    /\ OneRecorder
    /\ KnownIsRecorded
    /\ RecordedWasCharged

LEMMA InitWellFormed == Init => WellFormed
<1> SUFFICES ASSUME Init PROVE WellFormed
  OBVIOUS
<1>1. TypeOK
  BY DEF Init, TypeOK
<1>2. JobsFollowPayments /\ OneRecorder
  BY JobAt DEF Init, JobsFollowPayments, JobFollowsPayment, OneRecorder
<1>3. KnownIsRecorded /\ RecordedWasCharged
  BY DEF Init, KnownIsRecorded, RecordedWasCharged
<1> QED
  BY <1>1, <1>2, <1>3 DEF WellFormed

\* A payment is recorded where none was.
LEMMA RecordEffect ==
    ASSUME WellFormed, NEW t \in Threads, Record(t)
    PROVE  /\ pay' \in [Refs -> Payment \cup {Null}]
           /\ job[t] \in EntryJob
           /\ pay[job[t].ref] = Null
           /\ pay'[job[t].ref] # Null
           /\ pay'[job[t].ref].txn = job[t].txn
           /\ pay'[job[t].ref].status = "IN_ESCROW"
           /\ pay'[job[t].ref].by = t
           /\ \A q \in Refs \ {job[t].ref} : pay'[q] = pay[q]
<1> DEFINE row == [txn |-> job[t].txn, gateway |-> job[t].gateway,
                   status |-> "IN_ESCROW", by |-> t]
<1>1. job[t] \in EntryJob
  BY JobKind DEF Record, WellFormed
<1>2. row \in Payment
  BY <1>1 DEF EntryJob, Payment
<1>3. row # Null
  BY <1>2, EscrowAssumption
<1>4. pay' = [pay EXCEPT ![job[t].ref] = row] /\ job[t].ref \in Refs
  BY <1>1 DEF Record, EntryJob
<1>5. /\ pay' \in [Refs -> Payment \cup {Null}]
      /\ pay'[job[t].ref] = row
      /\ \A q \in Refs \ {job[t].ref} : pay'[q] = pay[q]
  BY <1>2, <1>4 DEF WellFormed, TypeOK
<1>6. pay[job[t].ref] = Null
  BY DEF Record, WellFormed, JobsFollowPayments, JobFollowsPayment
<1> QED
  BY <1>1, <1>3, <1>5, <1>6

\* A settlement changes the status of one payment and nothing else.
LEMMA MarkEffect ==
    ASSUME WellFormed, NEW t \in Threads, MarkPayment(t)
    PROVE  /\ pay' \in [Refs -> Payment \cup {Null}]
           /\ job[t] \in SettleJob
           /\ pay[job[t].ref] # Null
           /\ pay'[job[t].ref] # Null
           /\ pay'[job[t].ref].txn = pay[job[t].ref].txn
           /\ pay'[job[t].ref].gateway = pay[job[t].ref].gateway
           /\ pay'[job[t].ref].by = pay[job[t].ref].by
           /\ pay'[job[t].ref].status = job[t].as
           /\ pay'[job[t].ref].status # "IN_ESCROW"
           /\ \A q \in Refs \ {job[t].ref} : pay'[q] = pay[q]
<1> DEFINE row == [pay[job[t].ref] EXCEPT !.status = job[t].as]
<1>1. job[t] \in SettleJob /\ job[t].ref \in Refs /\ job[t].as \in {"COMPLETED", "REVERSED"}
  BY JobKind DEF MarkPayment, WellFormed, SettleJob
<1>2. pay[job[t].ref] # Null /\ pay[job[t].ref] \in Payment
  BY <1>1 DEF MarkPayment, WellFormed, JobsFollowPayments, JobFollowsPayment, TypeOK
<1>3. /\ row \in Payment
      /\ row.txn = pay[job[t].ref].txn
      /\ row.gateway = pay[job[t].ref].gateway
      /\ row.by = pay[job[t].ref].by
      /\ row.status = job[t].as
      /\ row.status # "IN_ESCROW"
  BY <1>1, <1>2 DEF Payment
<1>4. row # Null
  BY <1>3, EscrowAssumption
<1>5. pay' = [pay EXCEPT ![job[t].ref] = row]
  BY DEF MarkPayment
<1> HIDE DEF row
<1>6. /\ pay' \in [Refs -> Payment \cup {Null}]
      /\ pay'[job[t].ref] = row
      /\ \A q \in Refs \ {job[t].ref} : pay'[q] = pay[q]
  BY <1>1, <1>3, <1>5 DEF WellFormed, TypeOK
<1> QED
  BY <1>1, <1>2, <1>3, <1>4, <1>6

\* A confirmed debit leaves its handler with a charge of its own.
LEMMA DebitEffect ==
    ASSUME TypeOK, NEW t \in Threads, Debit(t)
    PROVE  \E r \in Refs \ charged :
              /\ charged' = charged \cup {r}
              /\ job' \in [Threads -> Job]
              /\ job'[t].at = "record"
              /\ job'[t].ref = r
              /\ job'[t].txn = job[t].txn
              /\ \A u \in Threads \ {t} : job'[u] = job[u]
<1>1. PICK r \in Refs \ charged :
         /\ charged' = charged \cup {r}
         /\ job' = [job EXCEPT ![t] = [at |-> "record", txn |-> job[t].txn,
                                       gateway |-> job[t].gateway, ref |-> r]]
  BY DEF Debit
<1> DEFINE entry == [at |-> "record", txn |-> job[t].txn, gateway |-> job[t].gateway, ref |-> r]
<1>2. entry \in EntryJob
  BY JobKind DEF Debit, CheckJob, EntryJob
<1>3. entry.at = "record" /\ entry.ref = r /\ entry.txn = job[t].txn
  OBVIOUS
<1>4. job' = [job EXCEPT ![t] = entry]
  BY <1>1
<1> HIDE DEF entry
<1>5. job'[t] = entry /\ \A u \in Threads \ {t} : job'[u] = job[u]
  BY <1>4 DEF TypeOK
<1>6. job' \in [Threads -> Job]
  BY <1>2, <1>4 DEF TypeOK, Job
<1> QED
  BY <1>1, <1>3, <1>5, <1>6

LEMMA NextType == WellFormed /\ [Next]_vars => TypeOK'
<1> SUFFICES ASSUME WellFormed, [Next]_vars PROVE TypeOK'
  OBVIOUS
<1>1. ASSUME NEW t \in Threads, NEW x \in Txns, NEW g \in Gateways, PayLookup(t, x, g)
      PROVE  TypeOK'
  BY <1>1 DEF PayLookup, WellFormed, TypeOK, CheckJob
<1>2. ASSUME NEW t \in Threads, NEW r \in Refs, NEW as \in {"COMPLETED", "REVERSED"},
             SettleLookup(t, r, as)
      PROVE  TypeOK'
  BY <1>2 DEF SettleLookup, WellFormed, TypeOK, SettleJob
<1>3. ASSUME NEW t \in Threads, NEW x \in Txns, CancelLookup(t, x) PROVE TypeOK'
  BY <1>3 DEF CancelLookup, WellFormed, TypeOK, CancelJob
<1>4. ASSUME NEW t \in Threads, Step(t) PROVE TypeOK'
  <2> USE JobKind DEF WellFormed
  <2>1. CASE CheckUnpaid(t)
    BY <2>1, GoToType, ReturnJob DEF CheckUnpaid, TypeOK, Job
  <2>2. CASE Debit(t)
    BY <2>2, DebitEffect DEF Debit, TypeOK, Job
  <2>3. CASE DebitUnanswered(t)
    BY <2>3, ReturnJob DEF DebitUnanswered, TypeOK, Job
  <2>4. CASE Record(t)
    BY <2>4, GoToType, RecordEffect DEF Record, TypeOK, Job
  <2>5. CASE SetStage(t)
    BY <2>5, GoToType DEF SetStage, TypeOK, Job, EntryJob
  <2>6. CASE Respond(t)
    BY <2>6, ReturnJob DEF Respond, TypeOK, Job, EntryJob
  <2>7. CASE CallBank(t) \/ BankCallRaises(t)
    BY <2>7, GoToType, ReturnJob DEF CallBank, BankCallRaises, TypeOK, Job
  <2>8. CASE MarkPayment(t)
    BY <2>8, GoToType, MarkEffect DEF MarkPayment, TypeOK, Job
  <2>9. CASE MarkTxn(t)
    BY <2>9, GoToType DEF MarkTxn, TypeOK, Job
  <2>10. CASE ClearStage(t)
    BY <2>10, ReturnJob DEF ClearStage, TypeOK, Job
  <2>11. CASE Cancel(t)
    BY <2>11, ReturnJob DEF Cancel, TypeOK, Job
  <2> QED
    BY <1>4, <2>1, <2>2, <2>3, <2>4, <2>5, <2>6, <2>7, <2>8, <2>9, <2>10, <2>11 DEF Step
<1>5. ASSUME NEW t \in Threads, Abort(t) PROVE TypeOK'
  <2>1. job[t].at \in {"record", "mark txn"} => job[t].ref \in Refs
    BY JobKind DEF WellFormed, EntryJob, SettleJob
  <2> QED
    BY <1>5, <2>1, ReturnJob DEF Abort, WellFormed, TypeOK, Job
<1>6. CASE UNCHANGED vars
  BY <1>6 DEF vars, WellFormed, TypeOK
<1> QED
  BY <1>1, <1>2, <1>3, <1>4, <1>5, <1>6 DEF Next

-----------------------------------------------------------------------------
(* What a step does to payments, charges and jobs.                          *)

\* A payment stays with its transaction and a settled one stays settled.
PaymentsPersist ==
    \A r \in Refs : pay[r] # Null =>
       /\ pay'[r] # Null
       /\ pay'[r].txn = pay[r].txn
       /\ pay'[r].gateway = pay[r].gateway
       /\ pay'[r].by = pay[r].by
       /\ pay[r].status # "IN_ESCROW" => pay'[r].status # "IN_ESCROW"

LEMMA PayChanges ==
    ASSUME WellFormed, [Next]_vars
    PROVE  pay' = pay \/ \E t \in Threads : Record(t) \/ MarkPayment(t)
BY DEF Next, Step, vars, PayLookup, SettleLookup, CancelLookup, CheckUnpaid, Debit,
       DebitUnanswered, SetStage, Respond, CallBank, BankCallRaises, MarkTxn, ClearStage,
       Cancel, Abort

LEMMA RowsPersist ==
    ASSUME WellFormed, [Next]_vars PROVE PaymentsPersist
<1>1. CASE pay' = pay
  BY <1>1 DEF PaymentsPersist
<1>2. ASSUME NEW t \in Threads, Record(t) PROVE PaymentsPersist
  BY <1>2, RecordEffect DEF PaymentsPersist
<1>3. ASSUME NEW t \in Threads, MarkPayment(t) PROVE PaymentsPersist
  BY <1>3, MarkEffect DEF PaymentsPersist
<1> QED
  BY <1>1, <1>2, <1>3, PayChanges

\* A new row is the work of one handler.
LEMMA NewPayment ==
    ASSUME WellFormed, [Next]_vars, NEW r \in Refs, pay[r] = Null, pay'[r] # Null
    PROVE  \E t \in Threads : /\ Record(t)
                              /\ job[t] \in EntryJob
                              /\ job[t].ref = r
                              /\ pay'[r].txn = job[t].txn
                              /\ pay'[r].by = t
                              /\ pay'[r].status = "IN_ESCROW"
                              /\ \A q \in Refs \ {r} : pay'[q] = pay[q]
<1>1. ASSUME NEW t \in Threads, MarkPayment(t) PROVE FALSE
  BY <1>1, MarkEffect
<1>2. PICK t \in Threads : Record(t)
  BY <1>1, PayChanges
<1> QED
  BY <1>2, RecordEffect

LEMMA ChargedPersists ==
    ASSUME [Next]_vars PROVE charged \subseteq charged'
BY DEF Next, Step, vars, PayLookup, SettleLookup, CancelLookup, CheckUnpaid, Debit,
       DebitUnanswered, Record, SetStage, Respond, CallBank, BankCallRaises, MarkPayment,
       MarkTxn, ClearStage, Cancel, Abort

\* A step of a handler changes the job of its own thread alone.
LEMMA OwnStep ==
    ASSUME WellFormed, NEW t \in Threads, NEW u \in Threads, Step(u) \/ Abort(u), job'[t] # job[t]
    PROVE  u = t
<1> USE DEF WellFormed
<1>1. ASSUME Debit(u), u # t PROVE FALSE
  BY <1>1 DEF Debit, TypeOK
<1>2. ASSUME Step(u), u # t PROVE FALSE
  BY <1>1, <1>2, GoToJob, ReturnJob
     DEF Step, CheckUnpaid, DebitUnanswered, Record, SetStage, Respond, CallBank,
         BankCallRaises, MarkPayment, MarkTxn, ClearStage, Cancel
<1>3. ASSUME Abort(u), u # t PROVE FALSE
  BY <1>3, ReturnJob DEF Abort
<1> QED
  BY <1>2, <1>3

\* A job that a step changes was started, moved on or ended by its own thread.
LEMMA JobMoves ==
    ASSUME WellFormed, [Next]_vars, NEW t \in Threads, job'[t] # job[t]
    PROVE  \/ \E x \in Txns, g \in Gateways : PayLookup(t, x, g)
           \/ \E r \in Refs, as \in {"COMPLETED", "REVERSED"} : SettleLookup(t, r, as)
           \/ \E x \in Txns : CancelLookup(t, x)
           \/ Step(t)
           \/ Abort(t)
<1>1. ASSUME NEW u \in Threads, Step(u) \/ Abort(u) PROVE u = t
  BY <1>1, OwnStep
<1> USE DEF WellFormed
<1>2. ASSUME NEW u \in Threads, NEW x \in Txns, NEW g \in Gateways, PayLookup(u, x, g), u # t
      PROVE  FALSE
  BY <1>2 DEF PayLookup, TypeOK
<1>3. ASSUME NEW u \in Threads, NEW r \in Refs, NEW as \in {"COMPLETED", "REVERSED"},
             SettleLookup(u, r, as), u # t
      PROVE  FALSE
  BY <1>3 DEF SettleLookup, TypeOK
<1>4. ASSUME NEW u \in Threads, NEW x \in Txns, CancelLookup(u, x), u # t PROVE FALSE
  BY <1>4 DEF CancelLookup, TypeOK
<1> QED
  BY <1>1, <1>2, <1>3, <1>4 DEF Next, vars

\* The steps by which a handler gets to, and gets on with, the entry of a payment.
LEMMA EntryMoves ==
    ASSUME WellFormed, [Next]_vars, NEW t \in Threads, job'[t] # job[t],
           job'[t].at \in {"record", "set stage", "respond"}
    PROVE  \/ /\ Debit(t) /\ job'[t].at = "record"
              /\ job'[t].ref \in Refs \ charged /\ job'[t].ref \in charged'
           \/ /\ job[t] \in EntryJob
              /\ job'[t].ref = job[t].ref /\ job'[t].txn = job[t].txn
              /\ \/ Record(t) /\ job'[t].at = "set stage"
                 \/ SetStage(t) /\ job'[t].at = "respond"
<1> USE DEF WellFormed
<1>1. ASSUME NEW x \in Txns, NEW g \in Gateways, PayLookup(t, x, g) PROVE FALSE
  BY <1>1 DEF PayLookup, TypeOK
<1>2. ASSUME NEW r \in Refs, NEW as \in {"COMPLETED", "REVERSED"}, SettleLookup(t, r, as)
      PROVE  FALSE
  BY <1>2 DEF SettleLookup, TypeOK
<1>3. ASSUME NEW x \in Txns, CancelLookup(t, x) PROVE FALSE
  BY <1>3 DEF CancelLookup, TypeOK
<1>4. CASE Debit(t)
  BY <1>4, DebitEffect
<1>5. CASE Record(t)
  BY <1>5, GoToJob, JobKind DEF Record
<1>6. CASE SetStage(t)
  BY <1>6, GoToJob, JobKind DEF SetStage
<1>7. ASSUME CheckUnpaid(t) \/ CallBank(t) \/ MarkPayment(t) \/ MarkTxn(t) PROVE FALSE
  BY <1>7, GoToJob, ReturnJob, JobKind, JobAt
     DEF CheckUnpaid, CallBank, MarkPayment, MarkTxn
<1>8. ASSUME DebitUnanswered(t) \/ Respond(t) \/ BankCallRaises(t) \/ ClearStage(t) \/ Cancel(t)
      PROVE  FALSE
  BY <1>8, ReturnJob, JobAt DEF DebitUnanswered, Respond, BankCallRaises, ClearStage, Cancel
<1>9. ~Abort(t)
  BY ReturnJob, JobAt DEF Abort
<1> QED
  BY <1>1, <1>2, <1>3, <1>4, <1>5, <1>6, <1>7, <1>8, <1>9, JobMoves DEF Step

\* The same for a settlement.
LEMMA SettleMoves ==
    ASSUME WellFormed, [Next]_vars, NEW t \in Threads, job'[t] # job[t],
           job'[t].at \in {"call bank", "mark payment", "mark txn", "clear stage"}
    PROVE  \/ /\ job'[t].at \in {"call bank", "mark payment"}
              /\ job'[t].ref \in known
              /\ pay' = pay
              /\ pay[job'[t].ref].status = "IN_ESCROW"
              /\ job'[t].as = "REVERSED" => pay[job'[t].ref].gateway = "VFD_BANK"
              /\ job'[t].at = "mark payment" => pay[job'[t].ref].gateway # "VFD_BANK"
           \/ /\ job[t] \in SettleJob
              /\ job'[t].ref = job[t].ref
              /\ job'[t].as = job[t].as
              /\ \/ CallBank(t) /\ job'[t].at = "mark payment"
                 \/ MarkPayment(t) /\ job'[t].at = "mark txn"
                 \/ MarkTxn(t) /\ job'[t].at = "clear stage"
<1> USE DEF WellFormed
<1>1. ASSUME NEW x \in Txns, NEW g \in Gateways, PayLookup(t, x, g) PROVE FALSE
  BY <1>1 DEF PayLookup, TypeOK
<1>2. ASSUME NEW r \in Refs, NEW as \in {"COMPLETED", "REVERSED"}, SettleLookup(t, r, as)
      PROVE  /\ job'[t].at \in {"call bank", "mark payment"} /\ job'[t].ref \in known
             /\ pay' = pay
             /\ pay[job'[t].ref].status = "IN_ESCROW"
             /\ job'[t].as = "REVERSED" => pay[job'[t].ref].gateway = "VFD_BANK"
             /\ job'[t].at = "mark payment" => pay[job'[t].ref].gateway # "VFD_BANK"
  <2>1. job'[t].ref = r /\ job'[t].as = as
    BY <1>2 DEF SettleLookup, TypeOK
  <2>2. job'[t].at = IF pay[r].gateway = "VFD_BANK" THEN "call bank" ELSE "mark payment"
    BY <1>2 DEF SettleLookup, TypeOK
  <2>3. /\ r \in known /\ pay' = pay /\ pay[r].status = "IN_ESCROW"
        /\ (as = "REVERSED" => pay[r].gateway = "VFD_BANK")
    BY <1>2 DEF SettleLookup
  <2> QED
    BY <2>1, <2>2, <2>3
<1>3. ASSUME NEW x \in Txns, CancelLookup(t, x) PROVE FALSE
  BY <1>3 DEF CancelLookup, TypeOK
<1>4. ASSUME Debit(t) PROVE FALSE
  BY <1>4, DebitEffect
<1>5. CASE CallBank(t)
  BY <1>5, GoToJob, JobKind DEF CallBank
<1>6. CASE MarkPayment(t)
  BY <1>6, GoToJob, JobKind DEF MarkPayment
<1>7. CASE MarkTxn(t)
  BY <1>7, GoToJob, JobKind DEF MarkTxn
<1>8. ASSUME CheckUnpaid(t) \/ Record(t) \/ SetStage(t) PROVE FALSE
  <2>1. CASE CheckUnpaid(t)
    BY <2>1, GoToJob, ReturnJob, JobKind, JobAt DEF CheckUnpaid
  <2>2. CASE Record(t)
    <3>1. job'[t].at = "set stage"
      BY <2>2, GoToJob, JobKind DEF Record
    <3> QED
      BY <3>1
  <2>3. CASE SetStage(t)
    <3>1. job'[t].at = "respond"
      BY <2>3, GoToJob, JobKind DEF SetStage
    <3> QED
      BY <3>1
  <2> QED
    BY <1>8, <2>1, <2>2, <2>3
<1>9. ASSUME DebitUnanswered(t) \/ Respond(t) \/ BankCallRaises(t) \/ ClearStage(t) \/ Cancel(t)
      PROVE  FALSE
  BY <1>9, ReturnJob, JobAt DEF DebitUnanswered, Respond, BankCallRaises, ClearStage, Cancel
<1>10. ~Abort(t)
  BY ReturnJob, JobAt DEF Abort
<1> QED
  BY <1>1, <1>2, <1>3, <1>4, <1>5, <1>6, <1>7, <1>8, <1>9, <1>10, JobMoves DEF Step

\* A handler starts with a lookup and no step leads back to where it started.
LEMMA StepsGoOn ==
    ASSUME WellFormed, NEW t \in Threads, NEW u \in Threads, Step(u) \/ Abort(u), job'[t] # job[t]
    PROVE  job'[t].at \notin {"check unpaid", "cancel"}
<1> USE DEF WellFormed
<1>1. CASE Debit(u)
  BY <1>1, DebitEffect
<1>2. CASE \/ DebitUnanswered(u) \/ Respond(u) \/ BankCallRaises(u) \/ ClearStage(u)
           \/ Cancel(u) \/ Abort(u)
  BY <1>2, ReturnJob, JobAt
     DEF DebitUnanswered, Respond, BankCallRaises, ClearStage, Cancel, Abort
<1>3. CASE CheckUnpaid(u)
  BY <1>3, GoToJob, ReturnJob, JobKind, JobAt DEF CheckUnpaid
<1>4. CASE Record(u) \/ SetStage(u)
  <2>1. job'[u].at \in {"set stage", "respond"}
    BY <1>4, GoToJob, JobKind DEF Record, SetStage
  <2> QED
    BY <2>1, OwnStep
<1>5. CASE CallBank(u) \/ MarkPayment(u) \/ MarkTxn(u)
  <2>1. job'[u].at \in {"mark payment", "mark txn", "clear stage"}
    BY <1>5, GoToJob, JobKind DEF CallBank, MarkPayment, MarkTxn
  <2> QED
    BY <2>1, OwnStep
<1> QED
  BY <1>1, <1>2, <1>3, <1>4, <1>5 DEF Step

-----------------------------------------------------------------------------
(* Well-formed states stay so.                                              *)

LEMMA NextRecorded == WellFormed /\ [Next]_vars => RecordedWasCharged'
<1> SUFFICES ASSUME WellFormed, [Next]_vars, NEW r \in Refs, pay'[r] # Null
             PROVE  r \in charged'
  BY DEF RecordedWasCharged
<1>1. CASE pay[r] # Null
  BY <1>1, ChargedPersists DEF WellFormed, RecordedWasCharged
<1>2. CASE pay[r] = Null
  <2>1. PICK t \in Threads : Record(t) /\ job[t].ref = r
    BY <1>2, NewPayment
  <2>2. r \in charged
    BY <2>1 DEF Record, WellFormed, JobsFollowPayments, JobFollowsPayment
  <2> QED
    BY <2>2, ChargedPersists
<1> QED
  BY <1>1, <1>2

LEMMA KnownChanges ==
    ASSUME [Next]_vars
    PROVE  known' = known \/ \E t \in Threads : Respond(t)
BY DEF Next, Step, vars, PayLookup, SettleLookup, CancelLookup, CheckUnpaid, Debit,
       DebitUnanswered, Record, SetStage, CallBank, BankCallRaises, MarkPayment, MarkTxn,
       ClearStage, Cancel, Abort

LEMMA NextKnown == WellFormed /\ [Next]_vars => KnownIsRecorded'
<1> SUFFICES ASSUME WellFormed, [Next]_vars, NEW r \in known' PROVE pay'[r] # Null
  BY DEF KnownIsRecorded
<1>1. CASE r \in known
  BY <1>1, RowsPersist DEF WellFormed, KnownIsRecorded, PaymentsPersist, TypeOK
<1>2. CASE r \notin known
  <2>1. PICK t \in Threads : Respond(t)
    BY <1>2, KnownChanges
  <2>2. job[t].ref = r /\ job[t].ref \in Refs
    BY <1>2, <2>1, JobKind DEF Respond, WellFormed, EntryJob
  <2>3. pay[r] # Null
    BY <2>1, <2>2 DEF Respond, WellFormed, JobsFollowPayments, JobFollowsPayment
  <2> QED
    BY <2>2, <2>3, RowsPersist DEF PaymentsPersist
<1> QED
  BY <1>1, <1>2

LEMMA NextOneRecorder == WellFormed /\ [Next]_vars => OneRecorder'
<1>1. ASSUME WellFormed, [Next]_vars, NEW t \in Threads, NEW u \in Threads, t # u,
             job'[t].at = "record", job'[u].at = "record", job'[t] # job[t]
      PROVE  job'[t].ref # job'[u].ref
  <2>1. Debit(t) /\ job'[t].ref \notin charged
    BY <1>1, EntryMoves
  <2>2. job'[u] = job[u]
    BY <1>1, <2>1, DebitEffect DEF WellFormed
  <2>3. job[u].ref \in charged
    BY <1>1, <2>2 DEF WellFormed, JobsFollowPayments, JobFollowsPayment
  <2> QED
    BY <2>1, <2>2, <2>3
<1> SUFFICES ASSUME WellFormed, [Next]_vars, NEW t \in Threads, NEW u \in Threads, t # u,
                    job'[t].at = "record", job'[u].at = "record"
             PROVE  job'[t].ref # job'[u].ref
  BY DEF OneRecorder
<1>2. CASE job'[t] = job[t] /\ job'[u] = job[u]
  BY <1>2 DEF WellFormed, OneRecorder
<1> QED
  BY <1>1, <1>2

LEMMA NextJobs == WellFormed /\ [Next]_vars => JobsFollowPayments'
<1> SUFFICES ASSUME WellFormed, [Next]_vars, NEW t \in Threads
             PROVE  JobFollowsPayment(t)'
  BY DEF JobsFollowPayments
<1> USE DEF WellFormed
<1>1. CASE job'[t] = job[t]
  <2>1. job[t].at \in {"record", "set stage", "respond", "call bank", "mark payment",
                       "mark txn", "clear stage"} => job[t].ref \in Refs
    BY JobKind DEF EntryJob, SettleJob
  <2>2. ASSUME job[t].at = "record", pay'[job[t].ref] # Null PROVE FALSE
    <3>1. pay[job[t].ref] = Null
      BY <2>2 DEF JobsFollowPayments, JobFollowsPayment
    <3>2. PICK u \in Threads : Record(u) /\ job[u].ref = job[t].ref /\ job[u] \in EntryJob
      BY <2>1, <2>2, <3>1, NewPayment
    <3>3. job[u].at = "record" /\ job'[u].at = "set stage"
      BY <3>2, GoToJob DEF Record
    <3> QED
      BY <1>1, <2>2, <3>2, <3>3 DEF OneRecorder
  <2>3. JobFollowsPayment(t)
    BY DEF JobsFollowPayments
  <2>4. job[t].at \in {"record", "set stage", "respond"} => job[t].ref \in charged'
    BY <2>3, ChargedPersists DEF JobFollowsPayment
  <2> QED
    BY <1>1, <2>1, <2>2, <2>3, <2>4, RowsPersist DEF JobFollowsPayment, PaymentsPersist
<1>2. CASE job'[t] # job[t] /\ job'[t].at \in {"record", "set stage", "respond"}
  <2>1. CASE Debit(t)
    <3>1. /\ job'[t].at = "record" /\ job'[t].ref \in charged'
          /\ job'[t].ref \in Refs \ charged
          /\ pay' = pay
      BY <1>2, <2>1, EntryMoves, JobKind, DebitEffect DEF Debit
    <3>2. pay[job'[t].ref] = Null
      BY <3>1 DEF RecordedWasCharged
    <3> QED
      BY <3>1, <3>2 DEF JobFollowsPayment
  <2>2. CASE Record(t)
    <3>1. /\ job'[t].at = "set stage" /\ job'[t].ref = job[t].ref
          /\ job'[t].txn = job[t].txn
      BY <2>2, JobKind, GoToJob DEF Record
    <3>2. job[t].ref \in charged'
      BY <2>2, ChargedPersists DEF Record, JobsFollowPayments, JobFollowsPayment
    <3> QED
      BY <2>2, <3>1, <3>2, RecordEffect DEF JobFollowsPayment
  <2>3. CASE SetStage(t)
    <3>1. /\ job'[t].at = "respond" /\ job'[t].ref = job[t].ref
          /\ job'[t].txn = job[t].txn /\ pay' = pay /\ charged' = charged
      BY <2>3, JobKind, GoToJob DEF SetStage
    <3> QED
      BY <2>3, <3>1 DEF SetStage, JobsFollowPayments, JobFollowsPayment
  <2> QED
    BY <1>2, <2>1, <2>2, <2>3, EntryMoves
<1>3. CASE job'[t] # job[t] /\ job'[t].at \in {"call bank", "mark payment", "mark txn", "clear stage"}
  <2>1. CASE job'[t].at \in {"call bank", "mark payment"} /\ job'[t].ref \in known
    <3>1. pay'[job'[t].ref] # Null
      BY <2>1, RowsPersist DEF KnownIsRecorded, PaymentsPersist, TypeOK
    <3> QED
      BY <2>1, <3>1 DEF JobFollowsPayment
  <2>2. CASE CallBank(t) /\ job'[t].at = "mark payment" /\ job'[t].ref = job[t].ref
    BY <2>2 DEF CallBank, JobsFollowPayments, JobFollowsPayment
  <2>3. CASE MarkPayment(t) /\ job'[t].at = "mark txn" /\ job'[t].ref = job[t].ref
    BY <2>3, MarkEffect DEF JobFollowsPayment
  <2>4. CASE MarkTxn(t) /\ job'[t].at = "clear stage" /\ job'[t].ref = job[t].ref
    BY <2>4 DEF MarkTxn, JobsFollowPayments, JobFollowsPayment
  <2> QED
    BY <1>3, <2>1, <2>2, <2>3, <2>4, SettleMoves
<1>4. CASE job'[t].at \notin {"record", "set stage", "respond", "call bank", "mark payment",
                              "mark txn", "clear stage"}
  BY <1>4 DEF JobFollowsPayment
<1> QED
  BY <1>1, <1>2, <1>3, <1>4

LEMMA NextWellFormed == WellFormed /\ [Next]_vars => WellFormed'
BY NextType, NextJobs, NextOneRecorder, NextKnown, NextRecorded DEF WellFormed

LEMMA AlwaysWellFormed == Spec => []WellFormed
BY InitWellFormed, NextWellFormed, PTL DEF Spec

\* Every variable keeps its type: a payment's row is whole, and a handler has the
\* local variables its step needs.
THEOREM TypeCorrect == Spec => []TypeOK
<1>1. WellFormed => TypeOK
  BY DEF WellFormed
<1> QED
  BY <1>1, AlwaysWellFormed, PTL

\* Nothing is held in escrow that no gateway took.
THEOREM RecordedPaymentsWereCharged == Spec => []RecordedWasCharged
<1>1. WellFormed => RecordedWasCharged
  BY DEF WellFormed
<1> QED
  BY <1>1, AlwaysWellFormed, PTL

-----------------------------------------------------------------------------
(* No charge is lost sight of.                                              *)

LEMMA NewCharge ==
    ASSUME [Next]_vars, NEW r \in charged', r \notin charged
    PROVE  \E t \in Threads : Debit(t) \/ (DebitUnanswered(t) /\ r \in unrecorded')
BY DEF Next, Step, vars, PayLookup, SettleLookup, CancelLookup, CheckUnpaid,
   DebitUnanswered,
       Record, SetStage, Respond, CallBank, BankCallRaises, MarkPayment, MarkTxn,
       ClearStage,
       Cancel, Abort

LEMMA HistoryPersists ==
    ASSUME [Next]_vars
    PROVE  unrecorded \subseteq unrecorded' /\ unclosed \subseteq unclosed'
BY DEF Next, Step, vars, PayLookup, SettleLookup, CancelLookup, CheckUnpaid, Debit,
       DebitUnanswered, Record, SetStage, Respond, CallBank, BankCallRaises, MarkPayment,
       MarkTxn, ClearStage, Cancel, Abort

\* A handler leaves the recording of its charge, or the update of its transaction,
\* by doing it or by being cut.
LEMMA LeavesStep ==
    ASSUME WellFormed, [Next]_vars, NEW t \in Threads, job'[t] # job[t]
    PROVE  /\ job[t].at = "record" => Record(t) \/ Abort(t)
           /\ job[t].at = "mark txn" => MarkTxn(t) \/ Abort(t)
BY JobMoves, JobAt
   DEF Step, PayLookup, SettleLookup, CancelLookup, CheckUnpaid, Debit, DebitUnanswered,
       Record, SetStage, Respond, CallBank, BankCallRaises, MarkPayment, MarkTxn,
       ClearStage,
       Cancel

LEMMA NextCharges == WellFormed /\ ChargeIsRecorded /\ [Next]_vars => ChargeIsRecorded'
<1> SUFFICES ASSUME WellFormed, ChargeIsRecorded, [Next]_vars,
                    NEW r \in charged', pay'[r] = Null, r \notin unrecorded'
             PROVE  \E t \in Threads : job'[t].at = "record" /\ job'[t].ref = r
  BY DEF ChargeIsRecorded
<1>1. CASE r \notin charged
  <2>1. PICK t \in Threads : Debit(t)
    BY <1>1, NewCharge
  <2> QED
    BY <1>1, <2>1, DebitEffect DEF WellFormed
<1>2. CASE r \in charged
  <2>1. pay[r] = Null /\ r \notin unrecorded
    BY <1>2, RowsPersist, HistoryPersists DEF PaymentsPersist, WellFormed, TypeOK
  <2>2. PICK t \in Threads : job[t].at = "record" /\ job[t].ref = r
    BY <1>2, <2>1 DEF ChargeIsRecorded
  <2>3. ~Record(t)
    BY <2>2, RecordEffect
  <2>4. ~Abort(t)
    BY <2>2 DEF Abort
  <2> QED
    BY <2>2, <2>3, <2>4, LeavesStep
<1> QED
  BY <1>1, <1>2

\* A charge without a row is about to be recorded, or its handler was cut or got
\* no answer.
THEOREM ChargesAreRecorded == Spec => []ChargeIsRecorded
<1>1. Init => ChargeIsRecorded
  BY DEF Init, ChargeIsRecorded
<1> QED
  BY <1>1, NextCharges, AlwaysWellFormed, PTL DEF Spec

-----------------------------------------------------------------------------
(* Settlement and the outcome of the transaction.                           *)

LEMMA StatusChanges ==
    ASSUME [Next]_vars
    PROVE  status' = status \/ \E t \in Threads : MarkTxn(t) \/ Cancel(t)
BY DEF Next, Step, vars, PayLookup, SettleLookup, CancelLookup, CheckUnpaid, Debit,
       DebitUnanswered, Record, SetStage, Respond, CallBank, BankCallRaises, MarkPayment,
       ClearStage, Abort

\* The update that completes a transaction follows the one that settles its payment.
LEMMA MarkTxnEffect ==
    ASSUME WellFormed, NEW t \in Threads, MarkTxn(t)
    PROVE  /\ job[t].ref \in Refs
           /\ Settled(job[t].ref)
           /\ pay[job[t].ref].txn \in Txns
           /\ status'[pay[job[t].ref].txn] = "COMPLETED"
           /\ \A x \in Txns \ {pay[job[t].ref].txn} : status'[x] = status[x]
<1>1. job[t].ref \in Refs
  BY JobKind DEF MarkTxn, WellFormed, SettleJob
<1>2. Settled(job[t].ref)
  BY DEF MarkTxn, WellFormed, JobsFollowPayments, JobFollowsPayment, Settled
<1>3. pay[job[t].ref].txn \in Txns
  BY <1>1, <1>2 DEF WellFormed, TypeOK, Settled, Payment
<1> QED
  BY <1>1, <1>2, <1>3 DEF MarkTxn, WellFormed, TypeOK

LEMMA CancelEffect ==
    ASSUME WellFormed, NEW t \in Threads, Cancel(t)
    PROVE  /\ job[t].txn \in Txns
           /\ status'[job[t].txn] = "CANCELLED"
           /\ \A x \in Txns \ {job[t].txn} : status'[x] = status[x]
<1>1. job[t].txn \in Txns
  BY JobKind DEF Cancel, WellFormed, CancelJob
<1> QED
  BY <1>1 DEF Cancel, WellFormed, TypeOK

LEMMA NextCompleted ==
    WellFormed /\ CompletedTxnIsSettled /\ [Next]_vars => CompletedTxnIsSettled'
<1> SUFFICES ASSUME WellFormed, CompletedTxnIsSettled, [Next]_vars,
                    NEW x \in Txns, status'[x] = "COMPLETED"
             PROVE  \E r \in Refs : pay'[r] # Null /\ pay'[r].txn = x
                                    /\ pay'[r].status # "IN_ESCROW"
  BY DEF CompletedTxnIsSettled, PaymentsOf, Settled
<1>1. \E r \in Refs : pay[r] # Null /\ pay[r].txn = x /\ pay[r].status # "IN_ESCROW"
  <2>1. CASE status[x] = "COMPLETED"
    BY <2>1 DEF CompletedTxnIsSettled, PaymentsOf, Settled
  <2>2. CASE status[x] # "COMPLETED"
    BY <2>2, StatusChanges, MarkTxnEffect, CancelEffect DEF Settled
  <2> QED
    BY <2>1, <2>2
<1> QED
  BY <1>1, RowsPersist DEF PaymentsPersist

\* A completed transaction has a settled payment.
THEOREM CompletedAreSettled == Spec => []CompletedTxnIsSettled
<1>1. Init => CompletedTxnIsSettled
  BY DEF Init, CompletedTxnIsSettled
<1> QED
  BY <1>1, NextCompleted, AlwaysWellFormed, PTL DEF Spec

LEMMA NextSettled == WellFormed /\ SettlementClosesTxn /\ [Next]_vars => SettlementClosesTxn'
<1> SUFFICES ASSUME WellFormed, SettlementClosesTxn, [Next]_vars, NEW r \in Refs,
                    pay'[r] # Null, pay'[r].status # "IN_ESCROW",
                    status'[pay'[r].txn] = "IN-PROGRESS", r \notin unclosed'
             PROVE  \E t \in Threads : job'[t].at = "mark txn" /\ job'[t].ref = r
  BY DEF SettlementClosesTxn, Settled
<1>1. CASE ~Settled(r)
  <2>1. pay[r] # Null
    BY NewPayment
  <2>2. PICK t \in Threads : MarkPayment(t) /\ job[t].ref = r
    BY <1>1, <2>1, PayChanges, RecordEffect, MarkEffect DEF Settled
  <2> QED
    <3>1. job'[t].at = "mark txn" /\ job'[t].ref = job[t].ref
      BY <2>2, JobKind, GoToJob DEF MarkPayment, WellFormed
    <3> QED
      BY <2>2, <3>1
<1>2. CASE Settled(r)
  <2>1. pay'[r].txn = pay[r].txn /\ pay[r].txn \in Txns
    BY <1>2, RowsPersist DEF Settled, PaymentsPersist, WellFormed, TypeOK, Payment
  <2>2. status[pay[r].txn] = "IN-PROGRESS"
    BY <2>1, StatusChanges, MarkTxnEffect, CancelEffect
  <2>3. r \notin unclosed
    BY HistoryPersists
  <2>4. PICK t \in Threads : job[t].at = "mark txn" /\ job[t].ref = r
    BY <1>2, <2>2, <2>3 DEF SettlementClosesTxn
  <2>5. ~MarkTxn(t)
    BY <2>1, <2>4, MarkTxnEffect
  <2>6. ~Abort(t)
    BY <2>4 DEF Abort
  <2> QED
    BY <2>4, <2>5, <2>6, LeavesStep
<1> QED
  BY <1>1, <1>2

\* A settled payment closes its transaction unless its handler was cut between the
\* two updates.
THEOREM SettlementsClose == Spec => []SettlementClosesTxn
<1>1. Init => SettlementClosesTxn
  BY DEF Init, SettlementClosesTxn, Settled
<1> QED
  BY <1>1, NextSettled, AlwaysWellFormed, PTL DEF Spec

-----------------------------------------------------------------------------
(* What the members are shown.                                              *)

LEMMA AwaitingChanges ==
    ASSUME [Next]_vars, NEW x \in awaiting', x \notin awaiting
    PROVE  \E t \in Threads : SetStage(t) /\ job[t].txn = x
BY DEF Next, Step, vars, PayLookup, SettleLookup, CancelLookup, CheckUnpaid, Debit,
       DebitUnanswered, Record, SetStage, Respond, CallBank, BankCallRaises, MarkPayment,
       MarkTxn, ClearStage, Cancel, Abort

LEMMA NextAwaited ==
    WellFormed /\ AwaitedCashIsRecorded /\ [Next]_vars => AwaitedCashIsRecorded'
<1> SUFFICES ASSUME WellFormed, AwaitedCashIsRecorded, [Next]_vars, NEW x \in awaiting'
             PROVE  \E r \in Refs : pay'[r] # Null /\ pay'[r].txn = x
  BY DEF AwaitedCashIsRecorded, PaymentsOf
<1>1. \E r \in Refs : pay[r] # Null /\ pay[r].txn = x
  <2>1. CASE x \in awaiting
    BY <2>1 DEF AwaitedCashIsRecorded, PaymentsOf
  <2>2. CASE x \notin awaiting
    <3>1. PICK t \in Threads : SetStage(t) /\ job[t].txn = x
      BY <2>2, AwaitingChanges
    <3>2. job[t].ref \in Refs
      BY <3>1, JobKind DEF SetStage, WellFormed, EntryJob
    <3> QED
      BY <3>1, <3>2 DEF SetStage, WellFormed, JobsFollowPayments, JobFollowsPayment
  <2> QED
    BY <2>1, <2>2
<1> QED
  BY <1>1, RowsPersist DEF PaymentsPersist

\* The members are shown that cash is awaited only for a recorded payment.
THEOREM AwaitedIsRecorded == Spec => []AwaitedCashIsRecorded
<1>1. Init => AwaitedCashIsRecorded
  BY DEF Init, AwaitedCashIsRecorded
<1> QED
  BY <1>1, NextAwaited, AlwaysWellFormed, PTL DEF Spec

-----------------------------------------------------------------------------
(* Two payments of one transaction.  The check a thread passed still holds  *)
(* for its own payments until it records one.                               *)

CheckHolds ==
    \A t \in Threads : job[t].at \in {"debit", "record"} =>
       \A r \in Refs : (pay[r] # Null /\ pay[r].by = t) => pay[r].txn # job[t].txn

\* A handler gets to the debit by the check and to the record by the debit.
LEMMA CheckMoves ==
    ASSUME WellFormed, [Next]_vars, NEW t \in Threads, job'[t] # job[t],
           job'[t].at \in {"debit", "record"}
    PROVE  /\ pay' = pay
           /\ job'[t].txn = job[t].txn
           /\ \/ job[t].at = "check unpaid" /\ PaymentsOf(job[t].txn) = {}
              \/ job[t].at = "debit"
<1> USE DEF WellFormed
<1>1. CASE job'[t].at = "record"
  BY <1>1, EntryMoves, DebitEffect DEF Debit
<1>2. CASE job'[t].at = "debit"
  <2>1. ASSUME NEW x \in Txns, NEW g \in Gateways, PayLookup(t, x, g) PROVE FALSE
    BY <1>2, <2>1 DEF PayLookup, TypeOK
  <2>2. ASSUME NEW r \in Refs, NEW as \in {"COMPLETED", "REVERSED"}, SettleLookup(t, r, as)
        PROVE  FALSE
    BY <1>2, <2>2 DEF SettleLookup, TypeOK
  <2>3. ASSUME NEW x \in Txns, CancelLookup(t, x) PROVE FALSE
    BY <1>2, <2>3 DEF CancelLookup, TypeOK
  <2>4. CASE CheckUnpaid(t)
    BY <1>2, <2>4, JobKind, JobAt, GoToJob, ReturnJob DEF CheckUnpaid
  <2>5. ~Debit(t)
    BY <1>2, DebitEffect
  <2>6. ASSUME Record(t) \/ SetStage(t) PROVE FALSE
    <3>1. job'[t].at \in {"set stage", "respond"}
      BY <2>6, JobKind, GoToJob DEF Record, SetStage
    <3> QED
      BY <1>2, <3>1
  <2>7. ASSUME CallBank(t) \/ MarkPayment(t) \/ MarkTxn(t) PROVE FALSE
    <3>1. job'[t].at \in {"mark payment", "mark txn", "clear stage"}
      BY <2>7, JobKind, GoToJob DEF CallBank, MarkPayment, MarkTxn
    <3> QED
      BY <1>2, <3>1
  <2>8. ASSUME \/ DebitUnanswered(t) \/ Respond(t) \/ BankCallRaises(t)
               \/ ClearStage(t) \/ Cancel(t) \/ Abort(t)
        PROVE  FALSE
    BY <1>2, <2>8, ReturnJob, JobAt
       DEF DebitUnanswered, Respond, BankCallRaises, ClearStage, Cancel, Abort
  <2> QED
    BY <2>1, <2>2, <2>3, <2>4, <2>5, <2>6, <2>7, <2>8, JobMoves DEF Step
<1> QED
  BY <1>1, <1>2

LEMMA NextCheckHolds == WellFormed /\ CheckHolds /\ [Next]_vars => CheckHolds'
<1> SUFFICES ASSUME WellFormed, CheckHolds, [Next]_vars,
                    NEW t \in Threads, job'[t].at \in {"debit", "record"},
                    NEW r \in Refs, pay'[r] # Null, pay'[r].by = t
             PROVE  pay'[r].txn # job'[t].txn
  BY DEF CheckHolds
<1>1. CASE job'[t] # job[t]
  BY <1>1, CheckMoves DEF CheckHolds, PaymentsOf
<1>2. CASE job'[t] = job[t]
  <2>1. CASE pay[r] # Null
    BY <1>2, <2>1, RowsPersist DEF PaymentsPersist, CheckHolds
  <2>2. CASE pay[r] = Null
    <3>1. Record(t) /\ job[t] \in EntryJob
      BY <2>2, NewPayment
    <3>2. job[t].at = "record" /\ job'[t].at = "set stage"
      BY <3>1, GoToJob DEF Record, WellFormed
    <3> QED
      BY <1>2, <3>2
  <2> QED
    BY <2>1, <2>2
<1> QED
  BY <1>1, <1>2

LEMMA NextPayments ==
    WellFormed /\ CheckHolds /\ OnlyOverlapDoublesPayments /\ [Next]_vars =>
       OnlyOverlapDoublesPayments'
<1> SUFFICES ASSUME WellFormed, CheckHolds, OnlyOverlapDoublesPayments, [Next]_vars,
                    NEW p \in Refs, NEW q \in Refs, pay'[p] # Null, pay'[q] # Null,
                    p # q, pay'[p].by = pay'[q].by
             PROVE  pay'[p].txn # pay'[q].txn
  BY DEF OnlyOverlapDoublesPayments
<1>1. CASE pay[p] # Null /\ pay[q] # Null
  BY <1>1, RowsPersist DEF PaymentsPersist, OnlyOverlapDoublesPayments
<1>2. ASSUME NEW a \in Refs, NEW b \in Refs, a # b, pay[a] = Null, pay'[a] # Null,
             pay'[b] # Null, pay'[a].by = pay'[b].by
      PROVE  pay'[a].txn # pay'[b].txn
  <2>1. PICK t \in Threads : /\ Record(t) /\ pay'[a].txn = job[t].txn /\ pay'[a].by = t
                             /\ \A r \in Refs \ {a} : pay'[r] = pay[r]
    BY <1>2, NewPayment
  <2>2. job[t].at = "record" /\ pay'[b] = pay[b]
    BY <1>2, <2>1 DEF Record
  <2> QED
    BY <1>2, <2>1, <2>2 DEF CheckHolds
<1> QED
  BY <1>1, <1>2

\* A transaction is paid for twice only by handlers of different threads.
THEOREM PaymentDoublesOverlap == Spec => []OnlyOverlapDoublesPayments
<1>1. Init => CheckHolds
  BY JobAt DEF Init, CheckHolds
<1>2. Init => OnlyOverlapDoublesPayments
  BY DEF Init, OnlyOverlapDoublesPayments
<1> QED
  BY <1>1, <1>2, NextCheckHolds, NextPayments, AlwaysWellFormed, PTL DEF Spec

-----------------------------------------------------------------------------
(* What a lock would give: one payment for a transaction when the handlers  *)
(* that pay for it take turns, from the look-up to the row.  It is one row, *)
(* not one charge: a charge whose answer was lost leaves no row behind.     *)

Paying(t) == job[t].at \in {"check unpaid", "debit", "record"}

TurnsPerTxn ==
    \A t, u \in Threads : (t # u /\ Paying(t) /\ Paying(u)) => job[t].txn # job[u].txn

PaidOnce ==
    \A p, q \in Refs : (p # q /\ pay[p] # Null /\ pay[q] # Null) => pay[p].txn # pay[q].txn

StillUnpaid ==
    \A t \in Threads : job[t].at \in {"debit", "record"} => PaymentsOf(job[t].txn) = {}

LEMMA NextStillUnpaid ==
    WellFormed /\ StillUnpaid /\ TurnsPerTxn /\ [Next]_vars => StillUnpaid'
<1> SUFFICES ASSUME WellFormed, StillUnpaid, TurnsPerTxn, [Next]_vars,
                    NEW t \in Threads, job'[t].at \in {"debit", "record"},
                    NEW r \in Refs, pay'[r] # Null
             PROVE  pay'[r].txn # job'[t].txn
  BY DEF StillUnpaid, PaymentsOf
<1>1. CASE job'[t] # job[t]
  BY <1>1, CheckMoves DEF StillUnpaid, PaymentsOf
<1>2. CASE job'[t] = job[t]
  <2>1. CASE pay[r] # Null
    BY <1>2, <2>1, RowsPersist DEF PaymentsPersist, StillUnpaid, PaymentsOf
  <2>2. CASE pay[r] = Null
    <3>1. PICK u \in Threads : Record(u) /\ job[u] \in EntryJob /\ pay'[r].txn = job[u].txn
      BY <2>2, NewPayment
    <3>2. job[u].at = "record" /\ job'[u].at = "set stage"
      BY <3>1, GoToJob DEF Record, WellFormed
    <3> QED
      BY <1>2, <3>1, <3>2 DEF TurnsPerTxn, Paying
  <2> QED
    BY <2>1, <2>2
<1> QED
  BY <1>1, <1>2

LEMMA NextPaidOnce ==
    WellFormed /\ StillUnpaid /\ PaidOnce /\ [Next]_vars => PaidOnce'
<1> SUFFICES ASSUME WellFormed, StillUnpaid, PaidOnce, [Next]_vars,
                    NEW p \in Refs, NEW q \in Refs, p # q, pay'[p] # Null, pay'[q] # Null
             PROVE  pay'[p].txn # pay'[q].txn
  BY DEF PaidOnce
<1>1. CASE pay[p] # Null /\ pay[q] # Null
  BY <1>1, RowsPersist DEF PaymentsPersist, PaidOnce
<1>2. ASSUME NEW a \in Refs, NEW b \in Refs, a # b, pay[a] = Null, pay'[a] # Null,
             pay'[b] # Null
      PROVE  pay'[a].txn # pay'[b].txn
  <2>1. PICK t \in Threads : /\ Record(t) /\ pay'[a].txn = job[t].txn
                             /\ \A r \in Refs \ {a} : pay'[r] = pay[r]
    BY <1>2, NewPayment
  <2>2. job[t].at = "record" /\ pay'[b] = pay[b]
    BY <1>2, <2>1 DEF Record
  <2>3. b \notin PaymentsOf(job[t].txn)
    BY <2>2 DEF StillUnpaid
  <2> QED
    BY <1>2, <2>1, <2>2, <2>3 DEF PaymentsOf
<1> QED
  BY <1>1, <1>2

\* A transaction has one payment when the handlers that pay for it take turns.
THEOREM TurnsKeepOnePayment == Spec /\ []TurnsPerTxn => []PaidOnce
<1>1. Init => StillUnpaid /\ PaidOnce
  BY JobAt DEF Init, StillUnpaid, PaidOnce
<1> QED
  BY <1>1, NextStillUnpaid, NextPaidOnce, AlwaysWellFormed, PTL DEF Spec

-----------------------------------------------------------------------------
(* A settlement writes the row that its look-up read, so that one of two    *)
(* that overlap turns a completed payment into a reverted one, or back.     *)
(* Where the settlements of one payment take turns, the first one counts.   *)

Settling(t) == job[t].at \in {"call bank", "mark payment"}

TurnsPerPayment ==
    \A t, u \in Threads : (t # u /\ Settling(t) /\ Settling(u)) => job[t].ref # job[u].ref

SettledForGood == \A r \in Refs : Settled(r) => pay'[r].status = pay[r].status

StillHeld == \A t \in Threads : Settling(t) => pay[job[t].ref].status = "IN_ESCROW"

LEMMA NextStillHeld ==
    WellFormed /\ StillHeld /\ TurnsPerPayment /\ [Next]_vars => StillHeld'
<1> SUFFICES ASSUME WellFormed, StillHeld, TurnsPerPayment, [Next]_vars, NEW t \in Threads,
                    job'[t].at \in {"call bank", "mark payment"}
             PROVE  pay'[job'[t].ref].status = "IN_ESCROW"
  BY DEF StillHeld, Settling
<1>1. CASE job'[t] = job[t]
  <2> DEFINE r == job[t].ref
  <2>1. /\ r \in Refs /\ pay[r] # Null /\ pay[r].status = "IN_ESCROW"
        /\ Settling(t)
    BY <1>1, JobKind DEF StillHeld, Settling, WellFormed, JobsFollowPayments,
       JobFollowsPayment, SettleJob
  <2>2. ASSUME NEW u \in Threads, Record(u) PROVE pay'[r] = pay[r]
    BY <2>1, <2>2, RecordEffect
  <2>3. ASSUME NEW u \in Threads, MarkPayment(u) PROVE pay'[r] = pay[r]
    <3>1. u # t
      <4>1. ASSUME u = t PROVE job'[t].at = "mark txn"
        BY <2>3, <4>1, GoToJob, JobKind DEF MarkPayment, WellFormed
      <4> QED
        BY <1>1, <2>1, <4>1 DEF Settling
    <3>2. Settling(u)
      BY <2>3 DEF MarkPayment, Settling
    <3>3. job[u].ref # r
      BY <2>1, <3>1, <3>2 DEF TurnsPerPayment
    <3> QED
      BY <2>1, <2>3, <3>3, MarkEffect
  <2> QED
    BY <1>1, <2>1, <2>2, <2>3, PayChanges
<1>2. CASE job'[t] # job[t]
  <2>1. ASSUME CallBank(t), job'[t].ref = job[t].ref
        PROVE  pay'[job'[t].ref].status = "IN_ESCROW"
    BY <2>1 DEF CallBank, StillHeld, Settling
  <2> QED
    BY <1>2, <2>1, SettleMoves
<1> QED
  BY <1>1, <1>2

LEMMA NextForGood == WellFormed /\ StillHeld /\ [Next]_vars => SettledForGood
<1> SUFFICES ASSUME WellFormed, StillHeld, [Next]_vars, NEW r \in Refs, pay[r] # Null,
                    pay[r].status # "IN_ESCROW"
             PROVE  pay'[r].status = pay[r].status
  BY DEF SettledForGood, Settled
<1>1. ASSUME NEW t \in Threads, Record(t) PROVE pay'[r] = pay[r]
  BY <1>1, RecordEffect
<1>2. ASSUME NEW t \in Threads, MarkPayment(t) PROVE pay'[r] = pay[r]
  <2>1. pay[job[t].ref].status = "IN_ESCROW"
    BY <1>2 DEF MarkPayment, StillHeld, Settling
  <2> QED
    BY <1>2, <2>1, MarkEffect
<1> QED
  BY <1>1, <1>2, PayChanges

\* Then no payment that the agent was given is given back, nor the other way round.
THEOREM TurnsKeepSettlement == Spec /\ []TurnsPerPayment => [][SettledForGood]_vars
<1>1. Init => StillHeld
  BY JobAt DEF Init, StillHeld, Settling
<1> QED
  BY <1>1, NextStillHeld, NextForGood, AlwaysWellFormed, PTL DEF Spec

-----------------------------------------------------------------------------
(* The outcome of a transaction.  A cancellation and a settlement that      *)
(* overlap write over each other.  Where the handlers that close one        *)
(* transaction take turns, from their look-up to their last update of it, a *)
(* completed one stays completed, and a cancelled one is at most completed, *)
(* by the settlement of money that is still in escrow.                      *)

Closing(t) == Settling(t) \/ job[t].at \in {"mark txn", "cancel"}

Closed(t) == IF job[t].at = "cancel" THEN job[t].txn ELSE pay[job[t].ref].txn

TurnsPerClosing ==
    \A t, u \in Threads : (t # u /\ Closing(t) /\ Closing(u)) => Closed(t) # Closed(u)

StillOpen == \A t \in Threads : job[t].at = "cancel" => status[job[t].txn] = "IN-PROGRESS"

OutcomesStand ==
    \A x \in Txns :
       /\ status[x] = "COMPLETED" => status'[x] = "COMPLETED"
       /\ status[x] = "CANCELLED" => status'[x] \in {"CANCELLED", "COMPLETED"}

LEMMA ClosingTurns == TurnsPerClosing => TurnsPerPayment
<1> SUFFICES ASSUME TurnsPerClosing, NEW t \in Threads, NEW u \in Threads, t # u,
                    Settling(t), Settling(u), job[t].ref = job[u].ref
             PROVE  FALSE
  BY DEF TurnsPerPayment
<1>1. Closing(t) /\ Closing(u)
  BY DEF Closing
<1>2. Closed(t) = Closed(u)
  BY DEF Closed, Settling
<1> QED
  BY <1>1, <1>2 DEF TurnsPerClosing

LEMMA NextStillOpen ==
    WellFormed /\ StillOpen /\ TurnsPerClosing /\ [Next]_vars => StillOpen'
<1> SUFFICES ASSUME WellFormed, StillOpen, TurnsPerClosing, [Next]_vars, NEW t \in Threads,
                    job'[t].at = "cancel"
             PROVE  status'[job'[t].txn] = "IN-PROGRESS"
  BY DEF StillOpen
<1>1. CASE job'[t] = job[t]
  <2> DEFINE x == job[t].txn
  <2>1. x \in Txns /\ status[x] = "IN-PROGRESS" /\ job[t].at = "cancel" /\ Closing(t)
        /\ Closed(t) = x
    BY <1>1, JobKind DEF StillOpen, WellFormed, CancelJob, Closing, Closed
  <2>2. ASSUME NEW u \in Threads, MarkTxn(u) PROVE status'[x] = status[x]
    <3>1. job[u].at = "mark txn" /\ u # t
      BY <2>1, <2>2 DEF MarkTxn
    <3>2. Closing(u) /\ Closed(u) = pay[job[u].ref].txn
      BY <3>1 DEF Closing, Closed
    <3>3. pay[job[u].ref].txn # x
      BY <2>1, <3>1, <3>2 DEF TurnsPerClosing
    <3> QED
      BY <2>1, <2>2, <3>3, MarkTxnEffect
  <2>3. ASSUME NEW u \in Threads, Cancel(u) PROVE status'[x] = status[x]
    <3>1. u # t
      <4>1. ASSUME u = t PROVE job'[t].at = "idle"
        BY <2>3, <4>1, ReturnJob, JobAt DEF Cancel, WellFormed
      <4> QED
        BY <4>1
    <3>2. job[u].at = "cancel"
      BY <2>3 DEF Cancel
    <3>3. Closing(u) /\ Closed(u) = job[u].txn
      BY <3>2 DEF Closing, Closed
    <3>4. job[u].txn # x
      BY <2>1, <3>1, <3>3 DEF TurnsPerClosing
    <3> QED
      BY <2>1, <2>3, <3>4, CancelEffect
  <2> QED
    BY <1>1, <2>1, <2>2, <2>3, StatusChanges
<1>2. CASE job'[t] # job[t]
  <2>1. ASSUME NEW u \in Threads, Step(u) \/ Abort(u) PROVE FALSE
    BY <1>2, <2>1, StepsGoOn
  <2>2. PICK x \in Txns : CancelLookup(t, x)
    <3>1. ASSUME NEW x \in Txns, NEW g \in Gateways, PayLookup(t, x, g) PROVE FALSE
      BY <3>1 DEF PayLookup, WellFormed, TypeOK
    <3>2. ASSUME NEW r \in Refs, NEW as \in {"COMPLETED", "REVERSED"}, SettleLookup(t, r, as)
          PROVE  FALSE
      BY <3>2 DEF SettleLookup, WellFormed, TypeOK
    <3> QED
      BY <1>2, <2>1, <3>1, <3>2, JobMoves
  <2>3. job'[t].txn = x /\ status' = status /\ status[x] = "IN-PROGRESS"
    BY <2>2 DEF CancelLookup, WellFormed, TypeOK
  <2> QED
    BY <2>3
<1> QED
  BY <1>1, <1>2

LEMMA NextOutcomesStand == WellFormed /\ StillOpen /\ [Next]_vars => OutcomesStand
<1> SUFFICES ASSUME WellFormed, StillOpen, [Next]_vars, NEW x \in Txns
             PROVE  /\ status[x] = "COMPLETED" => status'[x] = "COMPLETED"
                    /\ status[x] = "CANCELLED" => status'[x] \in {"CANCELLED", "COMPLETED"}
  BY DEF OutcomesStand
<1>1. ASSUME NEW t \in Threads, MarkTxn(t) PROVE status'[x] \in {status[x], "COMPLETED"}
  BY <1>1, MarkTxnEffect
<1>2. ASSUME NEW t \in Threads, Cancel(t), status[x] # "IN-PROGRESS"
      PROVE  status'[x] = status[x]
  <2>1. job[t].txn # x
    BY <1>2 DEF Cancel, StillOpen
  <2> QED
    BY <1>2, <2>1, CancelEffect
<1> QED
  BY <1>1, <1>2, StatusChanges

\* Then a cancellation never undoes a completion, nor one settlement another, and a
\* settlement completes a cancelled transaction only if its money was still in escrow.
THEOREM TurnsKeepOutcomes ==
    Spec /\ []TurnsPerClosing => [][OutcomesStand /\ SettledForGood]_vars
<1>1. Init => StillOpen
  BY JobAt DEF Init, StillOpen
<1>2. Spec /\ []TurnsPerClosing => [][OutcomesStand]_vars
  BY <1>1, NextStillOpen, NextOutcomesStand, AlwaysWellFormed, PTL DEF Spec
<1> QED
  BY <1>2, ClosingTurns, TurnsKeepSettlement, PTL

-----------------------------------------------------------------------------
(* Production.  The helpers that finalize and reverse a transfer raise      *)
(* there before they call the bank, so a settlement that gets past them is  *)
(* one of a card payment.                                                   *)

CardsAlone ==
    production =>
       \A t \in Threads :
          /\ job[t].at \in {"mark payment", "mark txn", "clear stage"} =>
                pay[job[t].ref].gateway # "VFD_BANK"
          /\ job[t].at \in {"call bank", "mark payment"} /\ job[t].as = "REVERSED" =>
                pay[job[t].ref].gateway = "VFD_BANK"

TransfersStay ==
    production =>
       \A r \in Refs : pay[r] # Null =>
          /\ pay[r].gateway = "VFD_BANK" => pay[r].status = "IN_ESCROW"
          /\ pay[r].status # "REVERSED"

CardPaidFor ==
    production =>
       \A x \in Txns : status[x] = "COMPLETED" =>
          \E r \in PaymentsOf(x) : pay[r].gateway = "ONEPIPE" /\ pay[r].status = "COMPLETED"

LEMMA ServerStays == ASSUME [Next]_vars PROVE production' = production
BY DEF Next, Step, vars, PayLookup, SettleLookup, CancelLookup, CheckUnpaid, Debit,
       DebitUnanswered, Record, SetStage, Respond, CallBank, BankCallRaises, MarkPayment,
       MarkTxn, ClearStage, Cancel, Abort

LEMMA NextCardsAlone == WellFormed /\ CardsAlone /\ [Next]_vars => CardsAlone'
<1> SUFFICES ASSUME WellFormed, CardsAlone, [Next]_vars, production, NEW t \in Threads,
                    job'[t].at \in {"call bank", "mark payment", "mark txn", "clear stage"}
             PROVE  /\ job'[t].at # "call bank" => pay'[job'[t].ref].gateway # "VFD_BANK"
                    /\ job'[t].at \in {"call bank", "mark payment"} /\ job'[t].as = "REVERSED" =>
                          pay'[job'[t].ref].gateway = "VFD_BANK"
  BY ServerStays DEF CardsAlone
<1>1. CASE job'[t] = job[t]
  <2>1. job[t].ref \in Refs /\ pay[job[t].ref] # Null
    BY <1>1, JobKind DEF WellFormed, JobsFollowPayments, JobFollowsPayment, SettleJob
  <2>2. pay'[job[t].ref].gateway = pay[job[t].ref].gateway
    BY <2>1, RowsPersist DEF PaymentsPersist
  <2> QED
    BY <1>1, <2>2 DEF CardsAlone
<1>2. CASE job'[t] # job[t]
  <2>1. ASSUME job[t] \in SettleJob, job'[t].ref = job[t].ref, job'[t].as = job[t].as,
               \/ MarkPayment(t) /\ job'[t].at = "mark txn"
               \/ MarkTxn(t) /\ job'[t].at = "clear stage"
        PROVE  pay'[job'[t].ref].gateway # "VFD_BANK"
    <3>1. CASE MarkPayment(t)
      <4>1. pay[job[t].ref].gateway # "VFD_BANK"
        BY <3>1 DEF MarkPayment, CardsAlone
      <4> QED
        BY <2>1, <3>1, <4>1, MarkEffect
    <3>2. CASE MarkTxn(t)
      BY <2>1, <3>2 DEF MarkTxn, CardsAlone
    <3> QED
      BY <2>1, <3>1, <3>2
  <2>2. ~CallBank(t)
    BY DEF CallBank
  <2> QED
    BY <1>2, <2>1, <2>2, SettleMoves
<1> QED
  BY <1>1, <1>2

LEMMA NextTransfersStay ==
    WellFormed /\ CardsAlone /\ TransfersStay /\ [Next]_vars => TransfersStay'
<1> SUFFICES ASSUME WellFormed, CardsAlone, TransfersStay, [Next]_vars, production,
                    NEW r \in Refs, pay'[r] # Null
             PROVE  /\ pay'[r].gateway = "VFD_BANK" => pay'[r].status = "IN_ESCROW"
                    /\ pay'[r].status # "REVERSED"
  BY ServerStays DEF TransfersStay
<1>1. CASE pay[r] = Null
  BY <1>1, NewPayment
<1>2. CASE pay[r] # Null /\ pay'[r] = pay[r]
  BY <1>2 DEF TransfersStay
<1>3. ASSUME NEW t \in Threads, MarkPayment(t), r = job[t].ref
      PROVE  pay'[r].gateway # "VFD_BANK" /\ pay'[r].status # "REVERSED"
  BY <1>3, MarkEffect DEF MarkPayment, CardsAlone
<1>4. ASSUME NEW t \in Threads, Record(t), r = job[t].ref PROVE pay[r] = Null
  BY <1>4, RecordEffect
<1> QED
  BY <1>1, <1>2, <1>3, <1>4, PayChanges, RecordEffect, MarkEffect

(* In production no bank transfer leaves escrow, and nothing is reversed,   *)
(* whatever the payer asks and however often: the safety side of what run   *)
(* escrow_production shows.                                                 *)
THEOREM TransfersStayInEscrow == Spec => []TransfersStay
<1>1. Init => CardsAlone /\ TransfersStay
  BY JobAt DEF Init, CardsAlone, TransfersStay
<1> QED
  BY <1>1, NextCardsAlone, NextTransfersStay, AlwaysWellFormed, PTL DEF Spec

(* So the one way to complete a transaction there is a card payment.        *)
THEOREM CardsCompleteInProduction == Spec => []CardPaidFor
<1>1. WellFormed /\ CompletedTxnIsSettled /\ TransfersStay => CardPaidFor
  BY DEF WellFormed, TypeOK, Payment, Gateways, CompletedTxnIsSettled, TransfersStay,
         CardPaidFor, PaymentsOf, Settled
<1> QED
  BY <1>1, AlwaysWellFormed, CompletedAreSettled, TransfersStayInEscrow, PTL

-----------------------------------------------------------------------------
(* The handlers implement EscrowLedger.                                     *)

\* What a handler still has to write, by the step it is at.
LEMMA ToWriteIs ==
    ASSUME NEW j
    PROVE  /\ j.at \in {"call bank", "mark payment"} =>
                 ToWrite(j) = Ledger!Settlement(j.ref, j.as)
           /\ j.at = "mark txn" => ToWrite(j) = Ledger!Completion(j.ref)
           /\ j.at = "cancel" => ToWrite(j) = Ledger!Cancellation(j.txn)
           /\ j.at \notin {"call bank", "mark payment", "mark txn", "cancel"} =>
                 ToWrite(j) = Ledger!NoTask
BY DEF ToWrite, Ledger!Settlement, Ledger!Completion, Ledger!Cancellation, Ledger!NoTask

LEMMA TaskIs ==
    ASSUME NEW t \in Threads PROVE Task[t] = ToWrite(job[t]) /\ Task'[t] = ToWrite(job'[t])
BY DEF Task, ToWrite

\* A step of one thread changes the task of that thread alone.
LEMMA TaskChanges ==
    ASSUME NEW t \in Threads, \A u \in Threads \ {t} : job'[u] = job[u]
    PROVE  Task' = [Task EXCEPT ![t] = Task'[t]]
<1>1. \A u \in Threads \ {t} : Task'[u] = Task[u]
  BY TaskIs
<1>2. Task = [u \in Threads |-> Task[u]] /\ Task' = [u \in Threads |-> Task'[u]]
  BY Zenon DEF Task
<1> QED
  BY <1>1, <1>2

LEMMA TaskStays ==
    ASSUME NEW t \in Threads, \A u \in Threads \ {t} : job'[u] = job[u], Task'[t] = Task[t]
    PROVE  Task' = Task
<1>1. Task = [u \in Threads |-> Task[u]]
  BY Zenon DEF Task
<1> QED
  BY <1>1, TaskChanges

LEMMA LedgerInit == Init => Ledger!Init
<1> SUFFICES ASSUME Init PROVE Ledger!Init
  OBVIOUS
<1>1. \A t \in Threads : Task[t] = Ledger!NoTask
  BY TaskIs, ToWriteIs, JobAt DEF Init
<1>2. Task = [t \in Threads |-> Task[t]]
  BY Zenon DEF Task
<1>3. Task = [t \in Threads |-> Ledger!NoTask]
  BY <1>1, <1>2
<1> QED
  BY <1>3 DEF Init, Ledger!Init, Entry, EntryOf

\* A step that leaves the books alone, and the task of its thread as it is or dropped.
LEMMA BooksKept ==
    ASSUME pay' = pay, charged' = charged PROVE Entry' = Entry /\ EntryOf' = EntryOf
BY DEF Entry, EntryOf

LEMMA LedgerDrops ==
    ASSUME NEW t \in Threads, \A u \in Threads \ {t} : job'[u] = job[u],
           Entry' = Entry, EntryOf' = EntryOf, status' = status,
           Task'[t] \in {Task[t], Ledger!NoTask}
    PROVE  [Ledger!Next]_(Ledger!vars)
<1>1. CASE Task'[t] = Ledger!NoTask
  <2>1. Task' = [Task EXCEPT ![t] = Ledger!NoTask]
    BY <1>1, TaskChanges
  <2> QED
    BY <2>1 DEF Ledger!Next, Ledger!Drop, Ledger!Assign
<1>2. CASE Task'[t] = Task[t]
  <2>1. Task' = Task
    BY <1>2, TaskStays
  <2> QED
    BY <2>1 DEF Ledger!vars
<1> QED
  BY <1>1, <1>2

\* The gateway's charge leaves no task with the thread that asked for it.
LEMMA LedgerCharges ==
    ASSUME NEW t \in Threads, NEW r \in Refs, Entry[r] = "none",
           Entry' = [Entry EXCEPT ![r] = "charged"], EntryOf' = EntryOf, status' = status,
           \A u \in Threads \ {t} : job'[u] = job[u], Task'[t] = Task[t]
    PROVE  Ledger!Next
<1>1. Task' = Task
  BY TaskStays
<1> QED
  BY <1>1 DEF Ledger!Next, Ledger!Charge

LEMMA LedgerNext == WellFormed /\ [Next]_vars => [Ledger!Next]_(Ledger!vars)
<1> SUFFICES ASSUME WellFormed, [Next]_vars PROVE [Ledger!Next]_(Ledger!vars)
  OBVIOUS
<1> USE DEF WellFormed
<1>1. ASSUME NEW t \in Threads, NEW r \in Refs \ charged, charged' = charged \cup {r},
             pay' = pay, status' = status, job[t].at = "debit",
             job'[t].at \in {"record", "idle"}, \A u \in Threads \ {t} : job'[u] = job[u]
      PROVE  Ledger!Next
  <2>1. pay[r] = Null
    BY DEF RecordedWasCharged
  <2>2. Entry[r] = "none" /\ Entry' = [Entry EXCEPT ![r] = "charged"]
    BY <1>1, <2>1 DEF Entry
  <2>3. EntryOf' = EntryOf
    BY <1>1 DEF EntryOf
  <2>4. Task[t] = Ledger!NoTask /\ Task'[t] = Ledger!NoTask
    BY <1>1, TaskIs, ToWriteIs
  <2> QED
    BY <1>1, <2>2, <2>3, <2>4, LedgerCharges
<1>2. ASSUME NEW t \in Threads, Debit(t) PROVE Ledger!Next
  <2>1. PICK r \in Refs \ charged : charged' = charged \cup {r}
    BY <1>2 DEF Debit
  <2>2. /\ pay' = pay /\ status' = status /\ job[t].at = "debit"
        /\ \A u \in Threads \ {t} : job'[u] = job[u]
    BY <1>2 DEF Debit, TypeOK
  <2>3. job'[t].at = "record"
    BY <1>2, DebitEffect
  <2> QED
    BY <1>1, <2>1, <2>2, <2>3
<1>3. ASSUME NEW t \in Threads, DebitUnanswered(t) PROVE Ledger!Next
  <2>1. PICK r \in Refs \ charged : charged' = charged \cup {r}
    BY <1>3 DEF DebitUnanswered
  <2>2. pay' = pay /\ status' = status /\ job[t].at = "debit"
    BY <1>3 DEF DebitUnanswered
  <2>3. job'[t].at = "idle" /\ \A u \in Threads \ {t} : job'[u] = job[u]
    BY <1>3, ReturnJob, JobAt DEF DebitUnanswered
  <2> QED
    BY <1>1, <2>1, <2>2, <2>3
<1>4. ASSUME NEW t \in Threads, Record(t) PROVE Ledger!Next
  <2>1. job[t] \in EntryJob /\ job[t].ref \in charged /\ pay[job[t].ref] = Null
    BY <1>4, JobKind DEF Record, JobsFollowPayments, JobFollowsPayment
  <2>2. job[t].ref \in Refs /\ job[t].txn \in Txns
    BY <2>1 DEF EntryJob
  <2>3. charged' = charged /\ status' = status
    BY <1>4 DEF Record
  <2>4. Entry[job[t].ref] = "charged"
    BY <2>1, <2>2 DEF Entry
  <2>5. /\ pay'[job[t].ref] # Null
        /\ pay'[job[t].ref].txn = job[t].txn
        /\ pay'[job[t].ref].status = "IN_ESCROW"
        /\ \A q \in Refs \ {job[t].ref} : pay'[q] = pay[q]
    BY <1>4, RecordEffect
  <2>6. Entry' = [Entry EXCEPT ![job[t].ref] = "held"]
    BY <2>2, <2>3, <2>5 DEF Entry
  <2>7. EntryOf' = [EntryOf EXCEPT ![job[t].ref] = job[t].txn]
    BY <2>2, <2>5 DEF EntryOf
  <2>8. Task' = Task
    <3>1. job'[t].at = "set stage" /\ \A u \in Threads \ {t} : job'[u] = job[u]
      BY <1>4, <2>1, GoToJob DEF Record
    <3>2. Task'[t] = Ledger!NoTask /\ Task[t] = Ledger!NoTask
      BY <1>4, <3>1, TaskIs, ToWriteIs DEF Record
    <3> QED
      BY <3>1, <3>2, TaskStays
  <2> QED
    BY <2>2, <2>3, <2>4, <2>6, <2>7, <2>8 DEF Ledger!Next, Ledger!Enter
<1>5. ASSUME NEW t \in Threads, NEW r \in Refs, NEW as \in {"COMPLETED", "REVERSED"},
             SettleLookup(t, r, as)
      PROVE  Ledger!Next
  <2>1. Entry' = Entry /\ EntryOf' = EntryOf /\ status' = status
    BY <1>5, BooksKept DEF SettleLookup
  <2>2. pay[r] # Null /\ pay[r].status = "IN_ESCROW" /\ job[t] = Idle
    BY <1>5 DEF SettleLookup, KnownIsRecorded
  <2>3. Entry[r] = "held" /\ Task[t] = Ledger!NoTask
    BY <2>2, TaskIs, ToWriteIs, JobAt DEF Entry
  <2>4. /\ job'[t].at \in {"call bank", "mark payment"} /\ job'[t].ref = r /\ job'[t].as = as
        /\ \A u \in Threads \ {t} : job'[u] = job[u]
    BY <1>5 DEF SettleLookup, TypeOK
  <2>5. Task' = [Task EXCEPT ![t] = Ledger!Settlement(r, as)]
    BY <2>4, TaskIs, ToWriteIs, TaskChanges
  <2> QED
    BY <2>1, <2>3, <2>5 DEF Ledger!Next, Ledger!Order, Ledger!Assign, Ledger!Outcomes
<1>6. ASSUME NEW t \in Threads, MarkPayment(t) PROVE Ledger!Next
  <2> DEFINE r == job[t].ref
             as == job[t].as
  <2>1. job[t] \in SettleJob /\ r \in Refs /\ as \in {"COMPLETED", "REVERSED"}
    BY <1>6, JobKind DEF MarkPayment, SettleJob
  <2>2. charged' = charged /\ status' = status
    BY <1>6 DEF MarkPayment
  <2>3. /\ pay'[r] # Null /\ pay'[r].status = as /\ pay'[r].txn = pay[r].txn /\ pay[r] # Null
        /\ \A q \in Refs \ {r} : pay'[q] = pay[q]
    BY <1>6, <2>1, MarkEffect
  <2>4. EntryOf' = EntryOf
    BY <2>1, <2>3 DEF EntryOf
  <2>5. Entry' = [Entry EXCEPT ![r] = as]
    BY <2>1, <2>2, <2>3 DEF Entry
  <2>6. /\ job'[t].at = "mark txn" /\ job'[t].ref = r
        /\ \A u \in Threads \ {t} : job'[u] = job[u]
    BY <1>6, <2>1, GoToJob DEF MarkPayment
  <2>7. Task[t] = Ledger!Settlement(r, as)
    BY <1>6, TaskIs, ToWriteIs DEF MarkPayment
  <2>8. Task' = [Task EXCEPT ![t] = Ledger!Completion(r)]
    <3>1. Task'[t] = ToWrite(job'[t]) /\ ToWrite(job'[t]) = Ledger!Completion(job'[t].ref)
      BY <2>6, TaskIs, ToWriteIs
    <3> QED
      BY <2>6, <3>1, TaskChanges
  <2> HIDE DEF r, as
  <2> QED
    BY <2>1, <2>2, <2>4, <2>5, <2>7, <2>8
       DEF Ledger!Next, Ledger!Settle, Ledger!Assign, Ledger!Outcomes
<1>7. ASSUME NEW t \in Threads, MarkTxn(t) PROVE Ledger!Next
  <2> DEFINE r == job[t].ref
  <2>1. job[t] \in SettleJob /\ r \in Refs /\ pay[r] # Null
    BY <1>7, JobKind DEF MarkTxn, SettleJob, JobsFollowPayments, JobFollowsPayment
  <2>2. EntryOf[r] = pay[r].txn
    BY <2>1 DEF EntryOf
  <2>3. /\ status' = [status EXCEPT ![EntryOf[r]] = "COMPLETED"]
        /\ Entry' = Entry /\ EntryOf' = EntryOf
    BY <1>7, <2>2, BooksKept DEF MarkTxn
  <2>4. job'[t].at = "clear stage" /\ \A u \in Threads \ {t} : job'[u] = job[u]
    BY <1>7, <2>1, GoToJob DEF MarkTxn
  <2>5. Task[t] = Ledger!Completion(r)
    BY <1>7, TaskIs, ToWriteIs DEF MarkTxn
  <2>6. Task' = [Task EXCEPT ![t] = Ledger!NoTask]
    BY <2>4, TaskIs, ToWriteIs, TaskChanges
  <2> HIDE DEF r
  <2> QED
    BY <2>1, <2>3, <2>5, <2>6 DEF Ledger!Next, Ledger!Complete, Ledger!Assign
<1>8. ASSUME NEW t \in Threads, NEW x \in Txns, CancelLookup(t, x) PROVE Ledger!Next
  <2>1. Entry' = Entry /\ EntryOf' = EntryOf /\ status' = status
    BY <1>8, BooksKept DEF CancelLookup
  <2>2. status[x] = "IN-PROGRESS" /\ Task[t] = Ledger!NoTask
    BY <1>8, TaskIs, ToWriteIs, JobAt DEF CancelLookup
  <2>3. /\ job'[t].at = "cancel" /\ job'[t].txn = x
        /\ \A u \in Threads \ {t} : job'[u] = job[u]
    BY <1>8 DEF CancelLookup, TypeOK
  <2>4. Task' = [Task EXCEPT ![t] = Ledger!Cancellation(x)]
    BY <2>3, TaskIs, ToWriteIs, TaskChanges
  <2> QED
    BY <2>1, <2>2, <2>4 DEF Ledger!Next, Ledger!Demand, Ledger!Assign
<1>9. ASSUME NEW t \in Threads, Cancel(t) PROVE Ledger!Next
  <2> DEFINE x == job[t].txn
  <2>1. x \in Txns
    BY <1>9, CancelEffect
  <2>2. /\ status' = [status EXCEPT ![x] = "CANCELLED"]
        /\ Entry' = Entry /\ EntryOf' = EntryOf
    BY <1>9, BooksKept DEF Cancel
  <2>3. job'[t].at = "idle" /\ \A u \in Threads \ {t} : job'[u] = job[u]
    BY <1>9, ReturnJob, JobAt DEF Cancel
  <2>4. Task[t] = Ledger!Cancellation(x)
    BY <1>9, TaskIs, ToWriteIs DEF Cancel
  <2>5. Task' = [Task EXCEPT ![t] = Ledger!NoTask]
    BY <2>3, TaskIs, ToWriteIs, TaskChanges
  <2> HIDE DEF x
  <2> QED
    BY <2>1, <2>2, <2>4, <2>5 DEF Ledger!Next, Ledger!Cancel, Ledger!Assign
<1>10. ASSUME NEW t \in Threads, CallBank(t) PROVE [Ledger!Next]_(Ledger!vars)
  <2>1. job[t] \in SettleJob
    BY <1>10, JobKind DEF CallBank
  <2>2. /\ job'[t].at = "mark payment" /\ job'[t].ref = job[t].ref /\ job'[t].as = job[t].as
        /\ \A u \in Threads \ {t} : job'[u] = job[u]
    BY <1>10, <2>1, GoToJob DEF CallBank
  <2>3. Task'[t] = Task[t]
    <3>1. Task[t] = Ledger!Settlement(job[t].ref, job[t].as)
      BY <1>10, TaskIs, ToWriteIs DEF CallBank
    <3>2. Task'[t] = Ledger!Settlement(job'[t].ref, job'[t].as)
      BY <2>2, TaskIs, ToWriteIs
    <3> QED
      BY <2>2, <3>1, <3>2
  <2>4. Entry' = Entry /\ EntryOf' = EntryOf /\ status' = status
    BY <1>10, BooksKept DEF CallBank
  <2> QED
    BY <2>2, <2>3, <2>4, LedgerDrops
<1>11. ASSUME NEW t \in Threads, CheckUnpaid(t) \/ SetStage(t)
       PROVE  [Ledger!Next]_(Ledger!vars)
  <2>1. /\ job'[t].at \in {"debit", "respond", "idle"}
        /\ \A u \in Threads \ {t} : job'[u] = job[u]
    BY <1>11, GoToJob, ReturnJob, JobKind, JobAt DEF CheckUnpaid, SetStage
  <2>2. Entry' = Entry /\ EntryOf' = EntryOf /\ status' = status
    BY <1>11, BooksKept DEF CheckUnpaid, SetStage
  <2>3. Task'[t] = Ledger!NoTask
    BY <2>1, TaskIs, ToWriteIs
  <2> QED
    BY <2>1, <2>2, <2>3, LedgerDrops
<1>12. ASSUME NEW t \in Threads, Respond(t) \/ BankCallRaises(t) \/ ClearStage(t) \/ Abort(t)
       PROVE  [Ledger!Next]_(Ledger!vars)
  <2>1. job'[t].at = "idle" /\ \A u \in Threads \ {t} : job'[u] = job[u]
    BY <1>12, ReturnJob, JobAt DEF Respond, BankCallRaises, ClearStage, Abort
  <2>2. Entry' = Entry /\ EntryOf' = EntryOf /\ status' = status
    BY <1>12, BooksKept DEF Respond, BankCallRaises, ClearStage, Abort
  <2>3. Task'[t] = Ledger!NoTask
    BY <2>1, TaskIs, ToWriteIs
  <2> QED
    BY <2>1, <2>2, <2>3, LedgerDrops
<1>13. ASSUME NEW t \in Threads, NEW x \in Txns, NEW g \in Gateways, PayLookup(t, x, g)
       PROVE  [Ledger!Next]_(Ledger!vars)
  <2>1. job'[t].at = "check unpaid" /\ \A u \in Threads \ {t} : job'[u] = job[u]
    BY <1>13 DEF PayLookup, TypeOK
  <2>2. Entry' = Entry /\ EntryOf' = EntryOf /\ status' = status
    BY <1>13, BooksKept DEF PayLookup
  <2>3. Task'[t] = Ledger!NoTask
    BY <2>1, TaskIs, ToWriteIs
  <2> QED
    BY <2>1, <2>2, <2>3, LedgerDrops
<1>14. ASSUME UNCHANGED vars PROVE UNCHANGED Ledger!vars
  BY <1>14 DEF vars, Ledger!vars, Entry, EntryOf, Task
<1> QED
  BY <1>2, <1>3, <1>4, <1>5, <1>6, <1>7, <1>8, <1>9, <1>10, <1>11, <1>12, <1>13, <1>14
     DEF Next, Step

\* Whatever overlaps and whatever is cut, a payment is settled by a handler that found
\* it in escrow, and a transaction completed by the handler that settled its payment
\* or cancelled by one that found it open.  So one settlement undoes another, and a
\* cancellation a completion, only where two handlers overlapped.
THEOREM HandlersKeepLedger == Spec => ImplementsLedger
<1>1. Spec => [][Ledger!Next]_(Ledger!vars)
  BY LedgerNext, AlwaysWellFormed, PTL DEF Spec
<1>2. Spec => Ledger!Init
  BY LedgerInit DEF Spec
<1> QED
  BY <1>1, <1>2 DEF ImplementsLedger, Ledger!Spec
=============================================================================
