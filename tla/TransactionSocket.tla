------------------------- MODULE TransactionSocket -------------------------
(***************************************************************************)
(* The socket of one exchange: TransactionConsumer of transactionservice.  *)
(*                                                                         *)
(* Each connection has a consumer, which handles one message at a time.    *)
(* What a client sends goes to the group of the request, so that every     *)
(* connected consumer, the sender's too, handles it in its own time, reads *)
(* and writes the flags and stages that all share in Redis and tells its   *)
(* client.  A queue that is full misses the message.                       *)
(*                                                                         *)
(* A consumer joins the group before it asks who the client is, and one    *)
(* that closes its socket goes on with what is queued, from the group and  *)
(* from the client, until the client's end is gone.  So whoever is refused *)
(* is open like the others, for as long as the client stays.               *)
(*                                                                         *)
(* The consumers share the event loop of one server process: between two   *)
(* awaits of a consumer no other consumer does anything.  The handlers of  *)
(* HTTP requests run in threads and get in between any two calls, so that  *)
(* each write of a consumer to Redis is a step.  So is each update, publi- *)
(* cation and cache call of a thread; Escrow models them, and here they    *)
(* are reduced to what they do to the transaction, the flags and stages.   *)
(***************************************************************************)
EXTENDS Naturals, Sequences

CONSTANTS CustomerConns, AgentConns, \* the connections of either member
          Strangers,                 \* connections of others, known or anonymous
          Threads,                   \* the threads of HTTP handlers
          Capacity                   \* of a consumer's queue in the channel layer

VARIABLES status,      \* transaction_status
          paid,        \* its payment: none, in escrow by a gateway, or settled
          destination, \* whether the coordinates of the meeting are cached
          reached,     \* members flagged as arrived
          confirmed,   \* members whose identity is flagged as confirmed
          stage,       \* the stage key of each member
          conn,        \* what the consumer of each connection is doing
          inbox,       \* the messages queued for it
          denialTold,  \* history: a client was told of a cancellation by a denial
          denialCut,   \* history: a consumer was cut while it cancelled
          unflagged,   \* history: stages that a cut consumer left without any flag
          job          \* the HTTP handler each thread runs

vars == <<status, paid, destination, reached, confirmed, stage, conn, inbox, denialTold,
          denialCut, unflagged, job>>

-----------------------------------------------------------------------------
Members == {"CUSTOMER", "AGENT"}
Conns == CustomerConns \cup AgentConns \cup Strangers
Owns(c, m) == c \in IF m = "CUSTOMER" THEN CustomerConns ELSE AgentConns

Stages == {"NONE", "AWAITING_IDENTITY_CONFIRMATION", "AWAITING_PAYMENT_INITIATION",
           "AWAITING_CASH_CONFIRMATION"}

\* A message names the member it is about, an arrival the one whose flag it sets (the
\* context of the message is the other); "near" is a location within five metres of
\* the meeting.  A notice changes nothing where it is handled: a location farther
\* off, or what a HTTP handler publishes.
Message == [kind : {"near", "confirmed", "denied"}, of : Members]
           \cup [kind : {"notice", "unknown"}]

Conn == [at : {"away", "joining", "checking", "open", "restage", "cancel_lookup", "cancel"}]
        \cup [at : {"locating", "confirming", "near_stage", "near_flag", "confirm_stage",
                    "confirm_flag"}, of : Members]
Gateways == {"VFD_BANK", "ONEPIPE"}
Job == [at : {"idle", "record", "publish_payment", "stage_agent", "stage_customer",
              "cancel", "publish_cancel"}]
       \cup [at : {"mark_payment", "mark_txn", "publish_end"}, gateway : Gateways]
       \cup [at : {"delete_keys"}, gateway : Gateways, next : 1..4]

ASSUME SocketAssumption ==
    /\ CustomerConns \cap AgentConns = {}
    /\ Strangers \cap (CustomerConns \cup AgentConns) = {}
    /\ Capacity \in Nat

TypeOK ==
    /\ status \in {"IN-PROGRESS", "COMPLETED", "CANCELLED"}
    /\ paid \in {"no", "settled"} \cup Gateways
    /\ destination \in BOOLEAN
    /\ reached \in SUBSET Members
    /\ confirmed \in SUBSET Members
    /\ stage \in [Members -> Stages]
    /\ conn \in [Conns -> Conn]
    /\ inbox \in [Conns -> Seq(Message)]
    /\ \A c \in Conns : Len(inbox[c]) <= Capacity
    /\ denialTold \in BOOLEAN
    /\ denialCut \in BOOLEAN
    /\ unflagged \in SUBSET Stages
    /\ job \in [Threads -> Job]

\* The transaction is open (module Matching) and nobody is connected yet.
Init ==
    /\ status = "IN-PROGRESS"
    /\ paid = "no"
    /\ destination = FALSE
    /\ reached = {}
    /\ confirmed = {}
    /\ stage = [m \in Members |-> "NONE"]
    /\ conn = [c \in Conns |-> [at |-> "away"]]
    /\ inbox = [c \in Conns |-> <<>>]
    /\ denialTold = FALSE
    /\ denialCut = FALSE
    /\ unflagged = {}
    /\ job = [t \in Threads |-> [at |-> "idle"]]

-----------------------------------------------------------------------------
rest == <<status, paid, job>>
flags == <<reached, confirmed, stage>>
history == <<denialTold, denialCut, unflagged>>

Live(c) == conn[c].at # "away"
Ready(c) == conn[c].at = "open"
At(c, a) == conn' = [conn EXCEPT ![c] = [at |-> a]]
AtOf(c, a, m) == conn' = [conn EXCEPT ![c] = [at |-> a, of |-> m]]

\* A consumer that has not yet done all its writes holds the event loop.
Writing(c) == conn[c].at \in {"near_stage", "near_flag", "confirm_stage", "confirm_flag",
                              "restage"}
LoopFree == \A c \in Conns : ~Writing(c)

\* group_send: a message for all who joined and have room for it.
Queued(e) == [c \in Conns |-> IF Live(c) /\ Len(inbox[c]) < Capacity
                              THEN Append(inbox[c], e) ELSE inbox[c]]
Broadcast(e) == inbox' = Queued(e)

\* The consumer sets the stage of its own user.  That of a stranger is never read.
ShowStage(c, s) == stage' = [m \in Members |-> IF Owns(c, m) THEN s ELSE stage[m]]

Receives(c, kind) == Ready(c) /\ inbox[c] # <<>> /\ Head(inbox[c]).kind = kind
Take(c) == LoopFree /\ inbox' = [inbox EXCEPT ![c] = Tail(@)]

-----------------------------------------------------------------------------
(* Joining and leaving.                                                     *)

Connect(c) ==
    /\ LoopFree
    /\ ~Live(c)
    /\ At(c, "joining")
    /\ UNCHANGED <<rest, destination, flags, inbox, history>>

\* Nobody is looked up for a client who did not log in.
RefuseAnonymous(c) ==
    /\ LoopFree
    /\ conn[c].at = "joining"
    /\ c \in Strangers
    /\ At(c, "open")
    /\ UNCHANGED <<rest, destination, flags, inbox, history>>

\* The look-ups of the database run in threads, so that they wait for nobody.
\* A member's request is found and its destination cached, or cached anew ...
JoinLookup(c) ==
    /\ conn[c].at = "joining"
    /\ destination' = (destination \/ c \notin Strangers)
    /\ At(c, "checking")
    /\ UNCHANGED <<rest, flags, inbox, history>>

\* ... and taken back if the transaction turns out to be cancelled, whoever asks.
JoinCheck(c) ==
    /\ conn[c].at = "checking"
    /\ destination' = (destination /\ status # "CANCELLED")
    /\ At(c, "open")
    /\ UNCHANGED <<rest, flags, inbox, history>>

Leave(c) ==
    /\ LoopFree
    /\ Ready(c)
    /\ At(c, "away")
    /\ inbox' = [inbox EXCEPT ![c] = <<>>]
    /\ UNCHANGED <<rest, destination, flags, history>>

\* A consumer that leaves now has shown a stage to its user for which no flag is set.
Unflagged(c) ==
    IF c \in Strangers THEN {}
    ELSE {s \in {"AWAITING_IDENTITY_CONFIRMATION"} : conn[c].at = "near_flag" /\ reached = {}}
         \cup
         {s \in {"AWAITING_PAYMENT_INITIATION"} : conn[c].at = "confirm_flag" /\ confirmed = {}}

\* An error in the database or in Redis, or the death of the process, ends the consumer.
Cut(c) ==
    /\ Live(c) /\ ~Ready(c)
    /\ At(c, "away")
    /\ inbox' = [inbox EXCEPT ![c] = <<>>]
    /\ denialCut' = (denialCut \/ conn[c].at \in {"cancel_lookup", "cancel"})
    /\ unflagged' = unflagged \cup Unflagged(c)
    /\ UNCHANGED <<rest, destination, flags, denialTold>>

\* The cached coordinates last for a day.
DestinationExpires ==
    /\ destination
    /\ destination' = FALSE
    /\ UNCHANGED <<rest, flags, conn, inbox, history>>

-----------------------------------------------------------------------------
(* What a client sends (receive_json).  The consumer does not compare the   *)
(* member a message is about with its own user.                             *)

\* The route is looked up only while the member is not flagged as arrived.
SendLocation(c, m) ==
    /\ LoopFree
    /\ Ready(c)
    /\ IF m \in reached
       THEN /\ Broadcast([kind |-> "notice"])
            /\ UNCHANGED conn
       ELSE /\ destination
            /\ AtOf(c, "locating", m)
            /\ UNCHANGED inbox
    /\ UNCHANGED <<rest, destination, flags, history>>

\* Without a route there is no distance; an error on the way drops the message.
Located(c) ==
    /\ LoopFree
    /\ conn[c].at = "locating"
    /\ \/ Broadcast([kind |-> "near", of |-> conn[c].of])
       \/ Broadcast([kind |-> "notice"])
       \/ UNCHANGED inbox
    /\ At(c, "open")
    /\ UNCHANGED <<rest, destination, flags, history>>

\* Definitions marked "Mutant" are faulty variants that nothing here uses: each
\* shows that a property below notices the fault.
\* Mutant: the flag of the sender is looked at.
SendConfirmOwn(c, m) ==
    /\ LoopFree
    /\ Ready(c)
    /\ \E own \in reached : Owns(c, own)
    /\ AtOf(c, "confirming", m)
    /\ UNCHANGED <<rest, destination, flags, inbox, history>>

\* A confirmation is sent if the member is flagged as arrived when the flag is read.
SendConfirm(c, m) ==
    /\ LoopFree
    /\ Ready(c)
    /\ m \in reached
    /\ AtOf(c, "confirming", m)
    /\ UNCHANGED <<rest, destination, flags, inbox, history>>

Confirming(c) ==
    /\ LoopFree
    /\ conn[c].at = "confirming"
    /\ Broadcast([kind |-> "confirmed", of |-> conn[c].of]) \/ UNCHANGED inbox
    /\ At(c, "open")
    /\ UNCHANGED <<rest, destination, flags, history>>

SendDenial(c, m) ==
    /\ LoopFree
    /\ Ready(c)
    /\ Broadcast([kind |-> "denied", of |-> m])
    /\ UNCHANGED <<rest, destination, flags, conn, history>>

\* A message of another name is passed on without a handler.
SendUnknown(c) ==
    /\ LoopFree
    /\ Ready(c)
    /\ Broadcast([kind |-> "unknown"])
    /\ UNCHANGED <<rest, destination, flags, conn, history>>

-----------------------------------------------------------------------------
(* What each consumer does with a message of the group.                     *)

\* The first consumer to handle an arrival sets the stage of its own user and then the
\* flag; the next one finds the flag and leaves its user's stage alone.
HandleNear(c) ==
    /\ Receives(c, "near")
    /\ LET m == Head(inbox[c]).of IN
       IF m \in reached THEN UNCHANGED conn ELSE AtOf(c, "near_stage", m)
    /\ Take(c)
    /\ UNCHANGED <<rest, destination, flags, history>>

\* Mutant: the flags of earlier confirmations are not looked at.
HandleConfirmedAnew(c) ==
    /\ Receives(c, "confirmed")
    /\ AtOf(c, "confirm_stage", Head(inbox[c]).of)
    /\ Take(c)
    /\ UNCHANGED <<rest, destination, flags, history>>

\* Both flags are read first.  Only consumers write them, and none gets in between.
HandleConfirmed(c) ==
    /\ Receives(c, "confirmed")
    /\ IF confirmed = Members THEN UNCHANGED conn
                              ELSE AtOf(c, "confirm_stage", Head(inbox[c]).of)
    /\ Take(c)
    /\ UNCHANGED <<rest, destination, flags, history>>

WriteStage(c) ==
    /\ \/ /\ conn[c].at = "near_stage"
          /\ ShowStage(c, "AWAITING_IDENTITY_CONFIRMATION")
          /\ AtOf(c, "near_flag", conn[c].of)
       \/ /\ conn[c].at = "confirm_stage"
          /\ ShowStage(c, "AWAITING_PAYMENT_INITIATION")
          /\ AtOf(c, "confirm_flag", conn[c].of)
    /\ UNCHANGED <<rest, destination, reached, confirmed, inbox, history>>

\* Mutant: a consumer flags an identity only if it is that of its own user.
WriteFlagOwn(c) ==
    /\ conn[c].at \in {"near_flag", "confirm_flag"}
    /\ reached' = reached \cup {m \in {conn[c].of} : conn[c].at = "near_flag"}
    /\ confirmed' = confirmed \cup {m \in {conn[c].of} : conn[c].at = "confirm_flag" /\ Owns(c, m)}
    /\ At(c, "open")
    /\ UNCHANGED <<rest, destination, stage, inbox, history>>

WriteFlag(c) ==
    /\ \/ /\ conn[c].at = "near_flag"
          /\ reached' = reached \cup {conn[c].of}
          /\ unflagged' = unflagged \ {"AWAITING_IDENTITY_CONFIRMATION"}
          /\ At(c, "open")
          /\ UNCHANGED confirmed
       \/ /\ conn[c].at = "confirm_flag"
          /\ confirmed' = confirmed \cup {conn[c].of}
          /\ unflagged' = unflagged \ {"AWAITING_PAYMENT_INITIATION"}
          /\ At(c, IF confirmed' = Members THEN "restage" ELSE "open")
          /\ UNCHANGED reached
    /\ UNCHANGED <<rest, destination, stage, inbox, denialTold, denialCut>>

\* Whoever confirms the second identity sets the stage of its own user once more,
\* whatever a payment that read both flags has set it to since.
Restage(c) ==
    /\ conn[c].at = "restage"
    /\ ShowStage(c, "AWAITING_PAYMENT_INITIATION")
    /\ At(c, "open")
    /\ UNCHANGED <<rest, destination, reached, confirmed, inbox, history>>

\* An error while an arrival is handled is caught, and the consumer goes on.
NearFails(c) ==
    /\ conn[c].at \in {"near_stage", "near_flag"}
    /\ At(c, "open")
    /\ unflagged' = unflagged \cup Unflagged(c)
    /\ UNCHANGED <<rest, destination, flags, inbox, denialTold, denialCut>>

\* Mutant: the socket is closed first, and the cancellation with it.
HandleDeniedClosing(c) ==
    /\ Receives(c, "denied")
    /\ Take(c)
    /\ IF confirmed = Members
       THEN UNCHANGED denialTold
       ELSE denialTold' = TRUE
    /\ UNCHANGED <<rest, destination, flags, conn, denialCut, unflagged>>

\* Mutant: one confirmed identity is taken for both.
HandleDeniedEarly(c) ==
    /\ Receives(c, "denied")
    /\ Take(c)
    /\ IF confirmed # {}
       THEN UNCHANGED <<conn, denialTold>>
       ELSE At(c, "cancel_lookup") /\ denialTold' = TRUE
    /\ UNCHANGED <<rest, destination, flags, denialCut, unflagged>>

\* Too late once both are confirmed.
HandleDenied(c) ==
    /\ Receives(c, "denied")
    /\ Take(c)
    /\ IF confirmed = Members
       THEN UNCHANGED <<conn, denialTold>>
       ELSE At(c, "cancel_lookup") /\ denialTold' = TRUE
    /\ UNCHANGED <<rest, destination, flags, denialCut, unflagged>>

CancelLookup(c) ==
    /\ conn[c].at = "cancel_lookup"
    /\ At(c, IF status = "IN-PROGRESS" THEN "cancel" ELSE "open")
    /\ UNCHANGED <<rest, destination, flags, inbox, history>>

\* Mutant: a status that the handlers do not know.
CancelAsAbandoned(c) ==
    /\ conn[c].at = "cancel"
    /\ status' = "ABANDONED"
    /\ At(c, "open")
    /\ UNCHANGED <<paid, job, destination, flags, inbox, history>>

Cancel(c) ==
    /\ conn[c].at = "cancel"
    /\ status' = "CANCELLED"
    /\ At(c, "open")
    /\ UNCHANGED <<paid, job, destination, flags, inbox, history>>

\* server_event_trigger: what a HTTP handler published goes to the client as it is.
HandleNotice(c) ==
    /\ Receives(c, "notice")
    /\ Take(c)
    /\ UNCHANGED <<rest, destination, flags, conn, history>>

\* No handler has the name None: the consumer fails.
HandleUnknown(c) ==
    /\ LoopFree
    /\ Receives(c, "unknown")
    /\ At(c, "away")
    /\ inbox' = [inbox EXCEPT ![c] = <<>>]
    /\ UNCHANGED <<rest, destination, flags, history>>

Handle(c) ==
    \/ HandleNear(c)
    \/ HandleConfirmed(c)
    \/ WriteStage(c)
    \/ WriteFlag(c)
    \/ Restage(c)
    \/ HandleDenied(c)
    \/ CancelLookup(c)
    \/ Cancel(c)
    \/ HandleNotice(c)
    \/ HandleUnknown(c)

-----------------------------------------------------------------------------
(* What the HTTP handlers do to the socket's state.                         *)

GoTo(t, a) == job' = [job EXCEPT ![t].at = a]
Return(t) == job' = [job EXCEPT ![t] = [at |-> "idle"]]
sockets == <<destination, flags, conn, inbox, history>>

PayLookup(t) ==
    /\ job[t].at = "idle"
    /\ status = "IN-PROGRESS"
    /\ paid = "no"
    /\ GoTo(t, "record")
    /\ UNCHANGED <<status, paid, sockets>>

Record(t) ==
    /\ job[t].at = "record"
    /\ paid' \in Gateways
    /\ GoTo(t, "publish_payment")
    /\ UNCHANGED <<status, sockets>>

SetStage(t) ==
    /\ \/ /\ job[t].at = "stage_agent"
          /\ stage' = [stage EXCEPT !["AGENT"] = "AWAITING_CASH_CONFIRMATION"]
          /\ GoTo(t, "stage_customer")
       \/ /\ job[t].at = "stage_customer"
          /\ stage' = [stage EXCEPT !["CUSTOMER"] = "AWAITING_CASH_CONFIRMATION"]
          /\ Return(t)
    /\ UNCHANGED <<status, paid, destination, reached, confirmed, conn, inbox, history>>

\* A payment in escrow is finalized or reverted.
SettleLookup(t) ==
    /\ job[t].at = "idle"
    /\ paid \in Gateways
    /\ job' = [job EXCEPT ![t] = [at |-> "mark_payment", gateway |-> paid]]
    /\ UNCHANGED <<status, paid, sockets>>

MarkPayment(t) ==
    /\ job[t].at = "mark_payment"
    /\ paid' = "settled"
    /\ GoTo(t, "mark_txn")
    /\ UNCHANGED <<status, sockets>>

MarkTxn(t) ==
    /\ job[t].at = "mark_txn"
    /\ status' = "COMPLETED"
    /\ GoTo(t, "publish_end")
    /\ UNCHANGED <<paid, sockets>>

\* The keys that the settlement of a payment deletes, in their order.  The two bank
\* handlers delete no stage: they leave the request id out of the key.
KeysOf(gateway) ==
    IF gateway = "ONEPIPE"
    THEN <<[key |-> "stage", of |-> "AGENT"], [key |-> "stage", of |-> "CUSTOMER"],
           [key |-> "reached", of |-> "AGENT"], [key |-> "reached", of |-> "CUSTOMER"]>>
    ELSE <<[key |-> "reached", of |-> "CUSTOMER"], [key |-> "reached", of |-> "AGENT"]>>

DeleteKey(t) ==
    /\ job[t].at = "delete_keys"
    /\ LET keys == KeysOf(job[t].gateway)
           k == keys[job[t].next]
       IN  /\ stage' = IF k.key = "stage" THEN [stage EXCEPT ![k.of] = "NONE"] ELSE stage
           /\ reached' = IF k.key = "reached" THEN reached \ {k.of} ELSE reached
           /\ IF job[t].next = Len(keys) THEN Return(t)
                                         ELSE job' = [job EXCEPT ![t].next = @ + 1]
    /\ UNCHANGED <<status, paid, destination, confirmed, conn, inbox, history>>

CancelRequestLookup(t) ==
    /\ job[t].at = "idle"
    /\ status = "IN-PROGRESS"
    /\ job' = [job EXCEPT ![t] = [at |-> "cancel"]]
    /\ UNCHANGED <<status, paid, sockets>>

CancelRequest(t) ==
    /\ job[t].at = "cancel"
    /\ status' = "CANCELLED"
    /\ GoTo(t, "publish_cancel")
    /\ UNCHANGED <<paid, sockets>>

\* ws_publish: the members are told of the payment, of the end or of the cancellation.
Publish(t) ==
    /\ Broadcast([kind |-> "notice"])
    /\ \/ job[t].at = "publish_payment" /\ GoTo(t, "stage_agent")
       \/ /\ job[t].at = "publish_end"
          /\ job' = [job EXCEPT ![t] = [at |-> "delete_keys", next |-> 1,
                                        gateway |-> job[t].gateway]]
       \/ job[t].at = "publish_cancel" /\ Return(t)
    /\ UNCHANGED <<status, paid, destination, flags, conn, history>>

Abort(t) ==
    /\ job[t].at # "idle"
    /\ Return(t)
    /\ UNCHANGED <<status, paid, sockets>>

Serve(t) ==
    \/ Record(t)
    \/ SetStage(t)
    \/ MarkPayment(t)
    \/ MarkTxn(t)
    \/ DeleteKey(t)
    \/ CancelRequest(t)
    \/ Publish(t)

-----------------------------------------------------------------------------
Next ==
    \/ \E c \in Conns :
         \/ Connect(c) \/ RefuseAnonymous(c) \/ JoinLookup(c) \/ JoinCheck(c)
         \/ Leave(c) \/ Cut(c) \/ NearFails(c)
         \/ \E m \in Members : SendLocation(c, m) \/ SendConfirm(c, m) \/ SendDenial(c, m)
         \/ Located(c) \/ Confirming(c)
         \/ SendUnknown(c)
         \/ Handle(c)
    \/ DestinationExpires
    \/ \E t \in Threads :
         \/ PayLookup(t) \/ SettleLookup(t) \/ CancelRequestLookup(t)
         \/ Serve(t)
         \/ Abort(t)

\* As long as it lives a consumer's loop serves its queue and its client in turn, and
\* the look-up of a route has a time limit.
Fairness == \A c \in Conns : SF_vars(Handle(c)) /\ SF_vars(Located(c) \/ Confirming(c))

Spec == Init /\ [][Next]_vars
FairSpec == Spec /\ Fairness

-----------------------------------------------------------------------------
(* While the transaction is open, an identity is confirmed only of a member *)
(* who has arrived, however long the confirmation was queued.               *)
ConfirmedHasArrived ==
    status = "IN-PROGRESS" => confirmed \subseteq reached

(* While the transaction is open no stage is ahead of what it stands for,   *)
(* somebody's arrival, somebody's confirmed identity or a payment, but for  *)
(* the moment between the write of a stage and that of its flag, or for     *)
(* good if a consumer is cut there.                                         *)
StageIsEarned ==
    status = "IN-PROGRESS" =>
       \A m \in Members :
          /\ stage[m] = "AWAITING_IDENTITY_CONFIRMATION" =>
                \/ reached # {}
                \/ \E c \in Conns : Owns(c, m) /\ conn[c].at = "near_flag"
                \/ stage[m] \in unflagged
          /\ stage[m] = "AWAITING_PAYMENT_INITIATION" =>
                \/ confirmed # {}
                \/ \E c \in Conns : Owns(c, m) /\ conn[c].at = "confirm_flag"
                \/ stage[m] \in unflagged
          /\ stage[m] = "AWAITING_CASH_CONFIRMATION" => paid # "no"

(* Once both identities are confirmed, messages that were queued before,    *)
(* arrivals and denials among them, move no stage of the open transaction:  *)
(* a payment does, and the consumer that set the second flag moves its own  *)
(* user's stage once, to the payment, even if one has been made by then.    *)
OnlyPaymentMovesOn ==
    [][(status = "IN-PROGRESS" /\ confirmed = Members) =>
         \A m \in Members : stage'[m] # stage[m] =>
            \/ stage'[m] = "AWAITING_CASH_CONFIRMATION"
            \/ /\ stage'[m] = "AWAITING_PAYMENT_INITIATION"
               /\ \E c \in Conns : Owns(c, m) /\ conn[c].at = "restage"]_vars

(* Whoever is told of a cancellation by a denial is not deceived: the       *)
(* transaction is closed, or a consumer is about to close it or was cut     *)
(* there.                                                                   *)
DenialCloses ==
    denialTold =>
       \/ status # "IN-PROGRESS"
       \/ \E c \in Conns : conn[c].at \in {"cancel_lookup", "cancel"}
       \/ denialCut

(* A denial that comes up in a queue closes the transaction, unless both    *)
(* are confirmed by then, the client leaves or the consumer is cut.         *)
DenialIsActedOn ==
    \A c \in Conns :
       (Receives(c, "denied") /\ confirmed # Members)
          ~> (status # "IN-PROGRESS" \/ confirmed = Members \/ ~Live(c) \/ denialCut)
=============================================================================
