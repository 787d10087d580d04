---------------------------- MODULE EscrowLedger ----------------------------
(***************************************************************************)
(* What the payment service promises about escrow, whatever overlaps and   *)
(* whatever is cut short: a payment only moves forward, from a charge to   *)
(* an entry in escrow to its settlement; an entry never changes hands      *)
(* between transactions; it is settled only on an order given while it was *)
(* held; a transaction is completed only by whoever settled an entry of    *)
(* it, and cancelled only on a demand made while it was open.              *)
(*                                                                         *)
(* An order or a demand is carried out as it was given, whatever has       *)
(* become of the entry or of the transaction since.  So two clerks can     *)
(* write over each other, one settlement over another or a cancellation    *)
(* over a completion, but one clerk after the other cannot.  A member may  *)
(* demand the cancellation of a transaction whose money is held, which is  *)
(* then settled, and the transaction completed, all the same.  That is     *)
(* what the code does, not what it means to do: see NoCancelInEscrow in    *)
(* module Escrow.                                                          *)
(***************************************************************************)
CONSTANTS Txns, Refs, Clerks, Null

VARIABLES entry,   \* how far the payment with each reference has come
          entryOf, \* the transaction an entry in escrow belongs to
          deal,    \* the outcome of each transaction
          task     \* what each clerk has been told to do and has not done yet

vars == <<entry, entryOf, deal, task>>

Outcomes == {"COMPLETED", "REVERSED"}

NoTask == [do |-> "nothing"]
Settlement(r, as) == [do |-> "settle", ref |-> r, as |-> as]
Completion(r) == [do |-> "complete", ref |-> r]
Cancellation(x) == [do |-> "cancel", txn |-> x]

Assign(c, new) == task' = [task EXCEPT ![c] = new]

Init ==
    /\ entry = [r \in Refs |-> "none"]
    /\ entryOf = [r \in Refs |-> Null]
    /\ deal = [x \in Txns |-> "IN-PROGRESS"]
    /\ task = [c \in Clerks |-> NoTask]

\* The gateway takes the payer's money.
Charge(r) ==
    /\ entry[r] = "none"
    /\ entry' = [entry EXCEPT ![r] = "charged"]
    /\ UNCHANGED <<entryOf, deal, task>>

Enter(r, x) ==
    /\ entry[r] = "charged"
    /\ entry' = [entry EXCEPT ![r] = "held"]
    /\ entryOf' = [entryOf EXCEPT ![r] = x]
    /\ UNCHANGED <<deal, task>>

\* The payer asks that the money held go to the agent or come back.
Order(c, r, as) ==
    /\ task[c] = NoTask
    /\ entry[r] = "held"
    /\ Assign(c, Settlement(r, as))
    /\ UNCHANGED <<entry, entryOf, deal>>

Settle(c, r, as) ==
    /\ task[c] = Settlement(r, as)
    /\ entry' = [entry EXCEPT ![r] = as]
    /\ Assign(c, Completion(r))
    /\ UNCHANGED <<entryOf, deal>>

\* Whoever settled an entry completes its transaction.
Complete(c, r) ==
    /\ task[c] = Completion(r)
    /\ deal' = [deal EXCEPT ![entryOf[r]] = "COMPLETED"]
    /\ Assign(c, NoTask)
    /\ UNCHANGED <<entry, entryOf>>

\* A member asks for the cancellation of an open transaction, paid for or not.
Demand(c, x) ==
    /\ task[c] = NoTask
    /\ deal[x] = "IN-PROGRESS"
    /\ Assign(c, Cancellation(x))
    /\ UNCHANGED <<entry, entryOf, deal>>

Cancel(c, x) ==
    /\ task[c] = Cancellation(x)
    /\ deal' = [deal EXCEPT ![x] = "CANCELLED"]
    /\ Assign(c, NoTask)
    /\ UNCHANGED <<entry, entryOf>>

\* A task is dropped half-way.
Drop(c) ==
    /\ Assign(c, NoTask)
    /\ UNCHANGED <<entry, entryOf, deal>>

Next ==
    \/ \E r \in Refs : Charge(r)
    \/ \E r \in Refs, x \in Txns : Enter(r, x)
    \/ \E c \in Clerks, r \in Refs, as \in Outcomes : Order(c, r, as) \/ Settle(c, r, as)
    \/ \E c \in Clerks, r \in Refs : Complete(c, r)
    \/ \E c \in Clerks, x \in Txns : Demand(c, x) \/ Cancel(c, x)
    \/ \E c \in Clerks : Drop(c)

Spec == Init /\ [][Next]_vars
=============================================================================
