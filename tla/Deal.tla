-------------------------------- MODULE Deal --------------------------------
(***************************************************************************)
(* What the service promises to a customer and an agent, from the request  *)
(* to the ratings, whatever overlaps and whatever is cut short: nobody is  *)
(* bound to an exchange that was not asked for and answered; money is held *)
(* only for an exchange that was agreed on, and moves from being held to   *)
(* being settled; an exchange is completed only when money was settled,    *)
(* and once closed is never open again; it is rated by its two parties,    *)
(* and only when money was settled.                                        *)
(***************************************************************************)
CONSTANTS Users, Requests, Txns

VARIABLES asked,   \* how far each request has come
          between, \* the customer and the agent of each request
          about,   \* the request that each transaction stands on
          outcome, \* of each transaction
          money,   \* how far the money of each transaction has come
          rated    \* who rated each transaction

vars == <<asked, between, about, outcome, money, rated>>

Init ==
    /\ asked = [r \in Requests |-> "none"]
    /\ between = [r \in Requests |-> {}]
    /\ about = [x \in Txns |-> {}]
    /\ outcome = [x \in Txns |-> "none"]
    /\ money = [x \in Txns |-> "none"]
    /\ rated = [x \in Txns |-> {}]

Ask(r, c, a) ==
    /\ asked[r] = "none"
    /\ c # a
    /\ asked' = [asked EXCEPT ![r] = "asked"]
    /\ between' = [between EXCEPT ![r] = {c, a}]
    /\ UNCHANGED <<about, outcome, money, rated>>

Answer(r) ==
    /\ asked[r] = "asked"
    /\ asked' = [asked EXCEPT ![r] = "answered"]
    /\ UNCHANGED <<between, about, outcome, money, rated>>

Agree(x, r) ==
    /\ asked[r] = "answered"
    /\ outcome[x] = "none"
    /\ outcome' = [outcome EXCEPT ![x] = "IN-PROGRESS"]
    /\ about' = [about EXCEPT ![x] = {r}]
    /\ UNCHANGED <<asked, between, money, rated>>

Hold(x) ==
    /\ outcome[x] # "none"
    /\ money[x] = "none"
    /\ money' = [money EXCEPT ![x] = "held"]
    /\ UNCHANGED <<asked, between, about, outcome, rated>>

Settle(x) ==
    /\ money[x] = "held"
    /\ money' = [money EXCEPT ![x] = "settled"]
    /\ UNCHANGED <<asked, between, about, outcome, rated>>

Complete(x) ==
    /\ money[x] = "settled"
    /\ outcome' = [outcome EXCEPT ![x] = "COMPLETED"]
    /\ UNCHANGED <<asked, between, about, money, rated>>

\* A cancellation may find money held, which the code allows against its own TODO
\* (NoCancelInEscrow in module Escrow), and one that overlapped a settlement may come
\* after it: EscrowLedger says when.
Cancel(x) ==
    /\ outcome[x] # "none"
    /\ outcome' = [outcome EXCEPT ![x] = "CANCELLED"]
    /\ UNCHANGED <<asked, between, about, money, rated>>

Rate(x, u) ==
    /\ money[x] = "settled"
    /\ \E r \in about[x] : u \in between[r]
    /\ rated' = [rated EXCEPT ![x] = @ \cup {u}]
    /\ UNCHANGED <<asked, between, about, outcome, money>>

Next ==
    \/ \E r \in Requests, c, a \in Users : Ask(r, c, a)
    \/ \E r \in Requests : Answer(r)
    \/ \E x \in Txns, r \in Requests : Agree(x, r)
    \/ \E x \in Txns : Hold(x) \/ Settle(x) \/ Complete(x) \/ Cancel(x)
    \/ \E x \in Txns, u \in Users : Rate(x, u)

Spec == Init /\ [][Next]_vars

-----------------------------------------------------------------------------
TypeOK ==
    /\ asked \in [Requests -> {"none", "asked", "answered"}]
    /\ between \in [Requests -> SUBSET Users]
    /\ about \in [Txns -> SUBSET Requests]
    /\ outcome \in [Txns -> {"none", "IN-PROGRESS", "COMPLETED", "CANCELLED"}]
    /\ money \in [Txns -> {"none", "held", "settled"}]
    /\ rated \in [Txns -> SUBSET Users]

(* What the two parties can rely on: a transaction is about an answered     *)
(* request between two users, money is there only for a transaction, and    *)
(* a completion or a rating, by one of the two, only after a settlement.    *)
Honoured ==
    \A x \in Txns :
       /\ outcome[x] # "none" =>
             \E r \in Requests, c, a \in Users :
                /\ about[x] = {r} /\ asked[r] = "answered"
                /\ between[r] = {c, a} /\ c # a
       /\ money[x] # "none" => outcome[x] # "none"
       /\ outcome[x] = "COMPLETED" => money[x] = "settled"
       /\ rated[x] # {} => money[x] = "settled"
       /\ \A u \in rated[x] : \E r \in about[x] : u \in between[r]
=============================================================================
