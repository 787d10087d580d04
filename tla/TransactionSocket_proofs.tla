----------------------- MODULE TransactionSocket_proofs -----------------------
(***************************************************************************)
(* The socket's safety, for any number of connections and threads and any  *)
(* capacity of the queues.  Most of it is about messages that wait in a    *)
(* queue while the flags they were sent under change.                      *)
(***************************************************************************)
EXTENDS TransactionSocket, SequenceTheorems, TLAPS

-----------------------------------------------------------------------------
(* Types.                                                                   *)

\* A handler that deletes keys has one to delete.
KeysLeft ==
    \A t \in Threads :
       job[t].at = "delete_keys" => job[t].next <= Len(KeysOf(job[t].gateway))

WellFormed == TypeOK /\ KeysLeft

LEMMA KeysCount ==
    ASSUME NEW g
    PROVE  Len(KeysOf(g)) = IF g = "ONEPIPE" THEN 4 ELSE 2
BY DEF KeysOf

\* What a step can do to the queue of a connection.
LEMMA QueueMoves ==
    ASSUME WellFormed, [Next]_vars, NEW c \in Conns
    PROVE  \/ inbox'[c] = inbox[c]
           \/ inbox'[c] = <<>>
           \/ inbox[c] # <<>> /\ inbox'[c] = Tail(inbox[c])
           \/ \E e \in Message :
                /\ e.kind = "confirmed" =>
                      \E d \in Conns : conn[d].at = "confirming" /\ conn[d].of = e.of
                /\ Len(inbox[c]) < Capacity
                /\ inbox'[c] = Append(inbox[c], e)
<1> DEFINE Appends ==
      \E e \in Message : /\ e.kind = "confirmed" =>
                               \E d \in Conns : conn[d].at = "confirming" /\ conn[d].of = e.of
                         /\ Len(inbox[c]) < Capacity
                         /\ inbox'[c] = Append(inbox[c], e)
<1> USE DEF WellFormed, TypeOK
<1>1. ASSUME NEW e \in Message, Broadcast(e),
             e.kind = "confirmed" =>
                \E d \in Conns : conn[d].at = "confirming" /\ conn[d].of = e.of
      PROVE  inbox'[c] = inbox[c] \/ Appends
  BY <1>1 DEF Broadcast, Queued
<1>2. ASSUME NEW d \in Conns, NEW k, Receives(d, k), Take(d)
      PROVE  \/ inbox'[c] = inbox[c]
             \/ inbox[c] # <<>> /\ inbox'[c] = Tail(inbox[c])
  BY <1>2 DEF Receives, Take
<1>3. ASSUME NEW d \in Conns, inbox' = [inbox EXCEPT ![d] = <<>>]
      PROVE  inbox'[c] = inbox[c] \/ inbox'[c] = <<>>
  BY <1>3
<1>4. [kind |-> "notice"] \in Message /\ [kind |-> "unknown"] \in Message
  BY DEF Message
<1>5. \A m \in Members : [kind |-> "near", of |-> m] \in Message
                         /\ [kind |-> "confirmed", of |-> m] \in Message
                         /\ [kind |-> "denied", of |-> m] \in Message
  BY DEF Message
<1>6. CASE \E d \in Conns : \/ Connect(d) \/ RefuseAnonymous(d) \/ JoinLookup(d)
                            \/ JoinCheck(d) \/ Leave(d) \/ Cut(d) \/ NearFails(d)
  BY <1>6, <1>3 DEF Connect, RefuseAnonymous, JoinLookup, JoinCheck, Leave, Cut, NearFails
<1>7. ASSUME NEW d \in Conns, NEW m \in Members,
             SendLocation(d, m) \/ SendConfirm(d, m) \/ SendDenial(d, m)
      PROVE  inbox'[c] = inbox[c] \/ Appends
  <2>1. CASE SendLocation(d, m)
    BY <2>1, <1>1, <1>4 DEF SendLocation
  <2>2. CASE SendConfirm(d, m)
    BY <2>2 DEF SendConfirm
  <2>3. CASE SendDenial(d, m)
    BY <2>3, <1>1, <1>5 DEF SendDenial
  <2> QED
    BY <1>7, <2>1, <2>2, <2>3
<1>8. ASSUME NEW d \in Conns, Located(d) \/ Confirming(d) \/ SendUnknown(d)
      PROVE  inbox'[c] = inbox[c] \/ Appends
  <2>1. CASE Located(d)
    <3>1. conn[d].of \in Members
      BY <2>1 DEF Located, Conn
    <3> QED
      BY <2>1, <3>1, <1>1, <1>4, <1>5 DEF Located
  <2>2. CASE SendUnknown(d)
    BY <2>2, <1>1, <1>4 DEF SendUnknown
  <2>3. CASE Confirming(d)
    <3>1. conn[d].of \in Members /\ conn[d].at = "confirming"
      BY <2>3 DEF Confirming, Conn
    <3> QED
      BY <2>3, <3>1, <1>1, <1>5 DEF Confirming
  <2> QED
    BY <1>8, <2>1, <2>2, <2>3
<1>9. ASSUME NEW d \in Conns, Handle(d)
      PROVE  \/ inbox'[c] = inbox[c]
             \/ inbox'[c] = <<>>
             \/ inbox[c] # <<>> /\ inbox'[c] = Tail(inbox[c])
  <2>1. CASE HandleNear(d) \/ HandleConfirmed(d) \/ HandleDenied(d) \/ HandleNotice(d)
    BY <2>1, <1>2 DEF HandleNear, HandleConfirmed, HandleDenied, HandleNotice
  <2>2. CASE CancelLookup(d) \/ Cancel(d) \/ WriteStage(d) \/ WriteFlag(d) \/ Restage(d)
    BY <2>2 DEF CancelLookup, Cancel, WriteStage, WriteFlag, Restage
  <2>3. CASE HandleUnknown(d)
    BY <2>3, <1>3 DEF HandleUnknown
  <2> QED
    BY <1>9, <2>1, <2>2, <2>3 DEF Handle
<1>10. CASE DestinationExpires
  BY <1>10 DEF DestinationExpires
<1>11. ASSUME NEW t \in Threads,
              \/ PayLookup(t) \/ SettleLookup(t) \/ CancelRequestLookup(t)
              \/ Serve(t) \/ Abort(t)
       PROVE  inbox'[c] = inbox[c] \/ Appends
  <2>1. CASE Publish(t)
    BY <2>1, <1>1, <1>4 DEF Publish
  <2>2. CASE PayLookup(t) \/ SettleLookup(t) \/ CancelRequestLookup(t) \/ Abort(t)
    BY <2>2 DEF PayLookup, SettleLookup, CancelRequestLookup, Abort, sockets
  <2>3. CASE Record(t) \/ SetStage(t) \/ MarkPayment(t) \/ MarkTxn(t) \/ DeleteKey(t)
             \/ CancelRequest(t)
    BY <2>3 DEF Record, SetStage, MarkPayment, MarkTxn, DeleteKey, CancelRequest, sockets
  <2> QED
    BY <1>11, <2>1, <2>2, <2>3 DEF Serve
<1>12. CASE UNCHANGED vars
  BY <1>12 DEF vars
<1> QED
  BY <1>6, <1>7, <1>8, <1>9, <1>10, <1>11, <1>12 DEF Next

LEMMA QueuesTyped ==
    ASSUME WellFormed, [Next]_vars
    PROVE  /\ inbox' \in [Conns -> Seq(Message)]
           /\ \A c \in Conns : Len(inbox'[c]) <= Capacity
<1>1. ASSUME NEW c \in Conns
      PROVE  inbox'[c] \in Seq(Message) /\ Len(inbox'[c]) <= Capacity
  <2>1. inbox[c] \in Seq(Message) /\ Len(inbox[c]) <= Capacity /\ Capacity \in Nat
    BY SocketAssumption DEF WellFormed, TypeOK
  <2>2. CASE inbox'[c] = inbox[c]
    BY <2>1, <2>2
  <2>3. CASE inbox'[c] = <<>>
    BY <2>1, <2>3
  <2>4. CASE inbox[c] # <<>> /\ inbox'[c] = Tail(inbox[c])
    BY <2>1, <2>4, HeadTailProperties
  <2>5. CASE \E e \in Message : Len(inbox[c]) < Capacity /\ inbox'[c] = Append(inbox[c], e)
    BY <2>1, <2>5
  <2> QED
    BY <2>2, <2>3, <2>4, <2>5, QueueMoves
<1>2. DOMAIN inbox' = Conns /\ inbox' = [c \in Conns |-> inbox'[c]]
  <2> USE DEF WellFormed, TypeOK, Take, Broadcast, Queued
  <2>1. CASE \E c \in Conns : \/ Connect(c) \/ RefuseAnonymous(c) \/ JoinLookup(c) \/ JoinCheck(c)
                              \/ Leave(c) \/ Cut(c) \/ NearFails(c) \/ Located(c)
                              \/ Confirming(c) \/ SendUnknown(c)
    BY <2>1 DEF Connect, RefuseAnonymous, JoinLookup, JoinCheck, Leave, Cut, NearFails,
       Located, Confirming, SendUnknown
  <2>2. CASE \E c \in Conns, m \in Members :
                SendLocation(c, m) \/ SendConfirm(c, m) \/ SendDenial(c, m)
    BY <2>2 DEF SendLocation, SendConfirm, SendDenial
  <2>3. CASE \E c \in Conns : Handle(c)
    BY <2>3 DEF Handle, HandleNear, HandleConfirmed, HandleDenied, HandleNotice,
                HandleUnknown, CancelLookup, Cancel, WriteStage, WriteFlag, Restage
  <2>4. CASE DestinationExpires \/ UNCHANGED vars
    BY <2>4 DEF DestinationExpires, vars
  <2>5. CASE \E t \in Threads : \/ PayLookup(t) \/ SettleLookup(t) \/ CancelRequestLookup(t)
                                \/ Serve(t) \/ Abort(t)
    BY <2>5 DEF PayLookup, SettleLookup, CancelRequestLookup, Serve, Abort, Record,
       SetStage, MarkPayment,
                MarkPayment, MarkTxn, DeleteKey, CancelRequest, Publish, sockets
  <2> QED
    BY <2>1, <2>2, <2>3, <2>4, <2>5 DEF Next
<1> QED
  BY <1>1, <1>2

LEMMA ConnsTyped == ASSUME WellFormed, [Next]_vars PROVE conn' \in [Conns -> Conn]
<1> USE DEF WellFormed, TypeOK
<1>1. ASSUME NEW c \in Conns,
             NEW a \in {"away", "joining", "checking", "open", "restage", "cancel_lookup",
                        "cancel"},
             At(c, a)
      PROVE  conn' \in [Conns -> Conn]
  <2>1. [at |-> a] \in Conn
    BY DEF Conn
  <2> QED
    BY <1>1, <2>1 DEF At
<1>2. ASSUME NEW c \in Conns, NEW m \in Members,
             NEW a \in {"locating", "confirming", "near_stage", "near_flag", "confirm_stage",
                        "confirm_flag"},
             AtOf(c, a, m)
      PROVE  conn' \in [Conns -> Conn]
  <2>1. [at |-> a, of |-> m] \in Conn
    BY DEF Conn
  <2> QED
    BY <1>2, <2>1 DEF AtOf
<1>3. CASE \E c \in Conns : \/ Connect(c) \/ RefuseAnonymous(c) \/ JoinLookup(c)
                            \/ JoinCheck(c) \/ Leave(c) \/ Cut(c) \/ NearFails(c)
                            \/ Located(c) \/ Confirming(c)
  BY <1>3, <1>1 DEF Connect, RefuseAnonymous, JoinLookup, JoinCheck, Leave, Cut, NearFails,
                    Located, Confirming
<1>4. CASE \E c \in Conns, m \in Members :
              SendLocation(c, m) \/ SendConfirm(c, m) \/ SendDenial(c, m)
  BY <1>4, <1>2 DEF SendLocation, SendConfirm, SendDenial
<1>5. CASE \E c \in Conns : SendUnknown(c)
  BY <1>5 DEF SendUnknown
<1>6. ASSUME NEW c \in Conns, HandleNear(c) \/ HandleConfirmed(c)
      PROVE  conn' \in [Conns -> Conn]
  <2>1. Head(inbox[c]) \in Message /\ Head(inbox[c]).kind \in {"near", "confirmed"}
    BY <1>6 DEF HandleNear, HandleConfirmed, Receives
  <2>2. Head(inbox[c]).of \in Members
    BY <2>1 DEF Message
  <2> QED
    BY <1>6, <2>2, <1>2 DEF HandleNear, HandleConfirmed
<1>7. ASSUME NEW c \in Conns, WriteStage(c) \/ WriteFlag(c)
      PROVE  conn' \in [Conns -> Conn]
  <2>1. CASE WriteStage(c)
    <3>1. conn[c].of \in Members
      BY <2>1 DEF WriteStage, Conn
    <3> QED
      BY <2>1, <3>1, <1>2 DEF WriteStage
  <2>2. CASE WriteFlag(c)
    BY <2>2, <1>1 DEF WriteFlag
  <2> QED
    BY <1>7, <2>1, <2>2
<1>8. CASE \E c \in Conns : \/ Restage(c) \/ HandleDenied(c) \/ CancelLookup(c) \/ Cancel(c)
                            \/ HandleNotice(c) \/ HandleUnknown(c)
  BY <1>8, <1>1 DEF Restage, HandleDenied, CancelLookup, Cancel, HandleNotice, HandleUnknown
<1>9. CASE DestinationExpires \/ UNCHANGED vars
  BY <1>9 DEF DestinationExpires, vars
<1>10. CASE \E t \in Threads : \/ PayLookup(t) \/ SettleLookup(t) \/ CancelRequestLookup(t)
                               \/ Serve(t) \/ Abort(t)
  BY <1>10 DEF PayLookup, SettleLookup, CancelRequestLookup, Serve, Abort, Record, SetStage,
               MarkPayment, MarkTxn, DeleteKey, CancelRequest, Publish, sockets
<1> QED
  BY <1>3, <1>4, <1>5, <1>6, <1>7, <1>8, <1>9, <1>10 DEF Next, Handle

\* The only steps that touch a handler.
LEMMA SocketLeavesJobs ==
    ASSUME [Next]_vars
    PROVE  \/ UNCHANGED job
           \/ \E t \in Threads : \/ PayLookup(t) \/ SettleLookup(t) \/ CancelRequestLookup(t)
                                 \/ Serve(t) \/ Abort(t)
<1>1. CASE \E c \in Conns : \/ Connect(c) \/ RefuseAnonymous(c) \/ JoinLookup(c) \/ JoinCheck(c)
                            \/ Leave(c) \/ Cut(c) \/ NearFails(c) \/ Located(c)
                            \/ Confirming(c) \/ SendUnknown(c)
  BY <1>1 DEF Connect, RefuseAnonymous, JoinLookup, JoinCheck, Leave, Cut, NearFails,
     Located, Confirming, SendUnknown, rest
<1>2. CASE \E c \in Conns, m \in Members :
              SendLocation(c, m) \/ SendConfirm(c, m) \/ SendDenial(c, m)
  BY <1>2 DEF SendLocation, SendConfirm, SendDenial, rest
<1>3. CASE \E c \in Conns : Handle(c)
  BY <1>3 DEF Handle, HandleNear, HandleConfirmed, HandleDenied, HandleNotice,
              HandleUnknown, CancelLookup, Cancel, WriteStage, WriteFlag, Restage, rest
<1>4. CASE DestinationExpires \/ UNCHANGED vars
  BY <1>4 DEF DestinationExpires, vars, rest
<1> QED
  BY <1>1, <1>2, <1>3, <1>4 DEF Next

LEMMA JobsTyped == ASSUME WellFormed, [Next]_vars PROVE job' \in [Threads -> Job] /\ KeysLeft'
<1> USE DEF WellFormed, TypeOK
<1>1. SUFFICES ASSUME NEW t \in Threads,
                      \/ PayLookup(t) \/ SettleLookup(t) \/ CancelRequestLookup(t)
                      \/ Serve(t) \/ Abort(t)
               PROVE  job' \in [Threads -> Job] /\ KeysLeft'
  <2>1. ASSUME UNCHANGED job PROVE job' \in [Threads -> Job] /\ KeysLeft'
    BY <2>1 DEF KeysLeft
  <2> QED
    BY <2>1, SocketLeavesJobs
<1>2. ASSUME NEW j \in Job, job' = [job EXCEPT ![t] = j],
             j.at = "delete_keys" => j.next <= Len(KeysOf(j.gateway))
      PROVE  job' \in [Threads -> Job] /\ KeysLeft'
  BY <1>2 DEF KeysLeft
<1>3. \A a \in {"idle", "record", "publish_payment", "stage_agent", "stage_customer",
                "cancel", "publish_cancel"} : [at |-> a] \in Job
  BY DEF Job
<1>4. \A g \in Gateways : /\ [at |-> "mark_payment", gateway |-> g] \in Job
                          /\ [at |-> "mark_txn", gateway |-> g] \in Job
                          /\ [at |-> "publish_end", gateway |-> g] \in Job
                          /\ [at |-> "delete_keys", gateway |-> g, next |-> 1] \in Job
  BY DEF Job
<1>5. ASSUME Return(t) PROVE job' \in [Threads -> Job] /\ KeysLeft'
  BY <1>5, <1>2, <1>3 DEF Return
<1>6. ASSUME NEW a \in {"record", "publish_payment", "stage_agent", "stage_customer",
                        "publish_cancel"},
             job[t].at \in {"idle", "record", "publish_payment", "stage_agent", "cancel"},
             GoTo(t, a)
      PROVE  job' \in [Threads -> Job] /\ KeysLeft'
  <2>1. job[t] = [at |-> job[t].at]
    BY <1>6 DEF Job
  <2>2. [job[t] EXCEPT !.at = a] = [at |-> a]
    BY <2>1
  <2> QED
    BY <1>6, <2>2, <1>2, <1>3 DEF GoTo
<1>7. CASE PayLookup(t)
  BY <1>7, <1>6 DEF PayLookup
<1>8. CASE SettleLookup(t)
  BY <1>8, <1>2, <1>4 DEF SettleLookup
<1>9. CASE CancelRequestLookup(t)
  BY <1>9, <1>2, <1>3 DEF CancelRequestLookup
<1>10. CASE Abort(t)
  BY <1>10, <1>5 DEF Abort
<1>11. CASE Record(t)
  BY <1>11, <1>6 DEF Record
<1>12. CASE SetStage(t)
  BY <1>12, <1>5, <1>6 DEF SetStage
<1>13. ASSUME NEW a \in {"mark_txn", "publish_end"},
              job[t].at \in {"mark_payment", "mark_txn"}, GoTo(t, a)
       PROVE  job' \in [Threads -> Job] /\ KeysLeft'
  <2>1. job[t].gateway \in Gateways /\ job[t] = [at |-> job[t].at, gateway |-> job[t].gateway]
    BY <1>13 DEF Job
  <2>2. [job[t] EXCEPT !.at = a] = [at |-> a, gateway |-> job[t].gateway]
    BY <2>1
  <2> QED
    BY <1>13, <2>1, <2>2, <1>2, <1>4 DEF GoTo
<1>14. CASE DeleteKey(t)
  <2>1. CASE Return(t)
    BY <2>1, <1>5
  <2>2. CASE job' = [job EXCEPT ![t].next = @ + 1] /\ job[t].next # Len(KeysOf(job[t].gateway))
    <3>1. job[t] \in [at : {"delete_keys"}, gateway : Gateways, next : 1..4]
      BY <1>14 DEF DeleteKey, Job
    <3>2. job[t].next + 1 <= Len(KeysOf(job[t].gateway)) /\ job[t].next + 1 \in 1..4
      <4>1. job[t].next <= Len(KeysOf(job[t].gateway))
        BY <3>1 DEF KeysLeft
      <4>2. job[t].next \in 1..4
        BY <3>1
      <4>3. CASE Len(KeysOf(job[t].gateway)) = 2
        BY <2>2, <4>1, <4>2, <4>3
      <4>4. CASE Len(KeysOf(job[t].gateway)) = 4
        BY <2>2, <4>1, <4>2, <4>4
      <4> QED
        BY <4>3, <4>4, KeysCount
    <3>3. [job[t] EXCEPT !.next = @ + 1]
            = [at |-> "delete_keys", gateway |-> job[t].gateway, next |-> job[t].next + 1]
      BY <3>1
    <3>4. [at |-> "delete_keys", gateway |-> job[t].gateway, next |-> job[t].next + 1] \in Job
      BY <3>1, <3>2 DEF Job
    <3> QED
      BY <2>2, <3>2, <3>3, <3>4, <1>2
  <2> QED
    BY <1>14, <2>1, <2>2 DEF DeleteKey
<1>15. CASE CancelRequest(t)
  BY <1>15, <1>6 DEF CancelRequest
<1>16. CASE Publish(t)
  <2>1. CASE job[t].at = "publish_payment" /\ GoTo(t, "stage_agent")
    BY <2>1, <1>6
  <2>2. CASE /\ job[t].at = "publish_end"
             /\ job' = [job EXCEPT ![t] = [at |-> "delete_keys", next |-> 1,
                                          gateway |-> job[t].gateway]]
    <3>1. job[t].gateway \in Gateways
      BY <2>2 DEF Job
    <3>2. 1 <= Len(KeysOf(job[t].gateway))
      <4>1. CASE Len(KeysOf(job[t].gateway)) = 2
        BY <4>1
      <4>2. CASE Len(KeysOf(job[t].gateway)) = 4
        BY <4>2
      <4> QED
        BY <4>1, <4>2, KeysCount
    <3> QED
      BY <2>2, <3>1, <3>2, <1>2, <1>4
  <2>3. CASE Return(t)
    BY <2>3, <1>5
  <2> QED
    BY <1>16, <2>1, <2>2, <2>3 DEF Publish
<1>17. CASE MarkPayment(t) \/ MarkTxn(t)
  BY <1>13, <1>17 DEF MarkPayment, MarkTxn
<1> QED
  BY <1>1, <1>7, <1>8, <1>9, <1>10, <1>11, <1>12, <1>14, <1>15, <1>16, <1>17 DEF Serve

\* What a step does to the flags, the stages, the status and the histories.
LEMMA FlagsTyped ==
    ASSUME WellFormed, [Next]_vars
    PROVE  /\ status' \in {"IN-PROGRESS", "COMPLETED", "CANCELLED"}
           /\ paid' \in {"no", "settled"} \cup Gateways
           /\ destination' \in BOOLEAN
           /\ reached' \in SUBSET Members
           /\ confirmed' \in SUBSET Members
           /\ stage' \in [Members -> Stages]
           /\ denialTold' \in BOOLEAN
           /\ denialCut' \in BOOLEAN
           /\ unflagged' \in SUBSET Stages
<1> USE DEF WellFormed, TypeOK, rest, flags, history
<1>1. CASE \E c \in Conns : \/ Connect(c) \/ RefuseAnonymous(c) \/ JoinLookup(c)
                            \/ JoinCheck(c) \/ Leave(c) \/ Located(c) \/ Confirming(c)
                            \/ SendUnknown(c)
  BY <1>1 DEF Connect, RefuseAnonymous, JoinLookup, JoinCheck, Leave, Located, Confirming,
     SendUnknown
<1>2. CASE \E c \in Conns : Cut(c) \/ NearFails(c)
  BY <1>2 DEF Cut, NearFails, Unflagged, Stages
<1>3. CASE \E c \in Conns, m \in Members :
              SendLocation(c, m) \/ SendConfirm(c, m) \/ SendDenial(c, m)
  BY <1>3 DEF SendLocation, SendConfirm, SendDenial
<1>4. ASSUME NEW c \in Conns, NEW s \in Stages, ShowStage(c, s)
      PROVE  stage' \in [Members -> Stages]
  BY <1>4 DEF ShowStage
<1>5. CASE \E c \in Conns : WriteStage(c) \/ Restage(c)
  BY <1>5, <1>4 DEF WriteStage, Restage, Stages
<1>6. CASE \E c \in Conns : WriteFlag(c)
  <2>1. PICK c \in Conns : WriteFlag(c)
    BY <1>6
  <2>2. conn[c].of \in Members
    BY <2>1 DEF WriteFlag, Conn
  <2> QED
    BY <2>1, <2>2 DEF WriteFlag
<1>7. CASE \E c \in Conns : \/ HandleNear(c) \/ HandleConfirmed(c) \/ HandleDenied(c)
                            \/ CancelLookup(c) \/ Cancel(c) \/ HandleNotice(c)
                            \/ HandleUnknown(c)
  BY <1>7 DEF HandleNear, HandleConfirmed, HandleDenied, CancelLookup, Cancel, HandleNotice,
     HandleUnknown
<1>8. CASE DestinationExpires \/ UNCHANGED vars
  BY <1>8 DEF DestinationExpires, vars
<1>9. CASE \E t \in Threads : \/ PayLookup(t) \/ SettleLookup(t) \/ CancelRequestLookup(t)
                              \/ Abort(t) \/ Record(t) \/ MarkPayment(t) \/ MarkTxn(t)
                              \/ CancelRequest(t) \/ Publish(t)
  BY <1>9 DEF PayLookup, SettleLookup, CancelRequestLookup, Abort, Record, MarkPayment,
              MarkTxn, CancelRequest, Publish, sockets
<1>10. CASE \E t \in Threads : SetStage(t)
  BY <1>10 DEF SetStage, Stages
<1>11. CASE \E t \in Threads : DeleteKey(t)
  BY <1>11 DEF DeleteKey, Stages
<1> QED
  BY <1>1, <1>2, <1>3, <1>5, <1>6, <1>7, <1>8, <1>9, <1>10, <1>11 DEF Next, Handle, Serve

LEMMA InitWellFormed == Init => WellFormed
<1> SUFFICES ASSUME Init PROVE WellFormed
  OBVIOUS
<1>1. [at |-> "away"] \in Conn /\ [at |-> "idle"] \in Job
  BY DEF Conn, Job
<1>2. \A c \in Conns : Len(inbox[c]) <= Capacity
  BY SocketAssumption DEF Init
<1>3. conn \in [Conns -> Conn] /\ job \in [Threads -> Job]
  BY <1>1 DEF Init
<1>4. inbox \in [Conns -> Seq(Message)]
  BY DEF Init
<1>5. TypeOK
  BY <1>2, <1>3, <1>4 DEF Init, TypeOK, Stages
<1>6. KeysLeft
  BY DEF Init, KeysLeft
<1> QED
  BY <1>5, <1>6 DEF WellFormed

LEMMA NextWellFormed == WellFormed /\ [Next]_vars => WellFormed'
<1> SUFFICES ASSUME WellFormed, [Next]_vars PROVE WellFormed'
  OBVIOUS
<1>1. TypeOK'
  BY QueuesTyped, ConnsTyped, JobsTyped, FlagsTyped DEF TypeOK, Conns, Members, Stages,
     Conn,
     Job, Gateways, Message
<1> QED
  BY <1>1, JobsTyped DEF WellFormed

LEMMA AlwaysWellFormed == Spec => []WellFormed
BY InitWellFormed, NextWellFormed, PTL DEF Spec

(* Every reachable state of the socket is well formed: no queue holds more  *)
(* than its capacity, and a settlement stops at the last of its keys.       *)
THEOREM TypeCorrect == Spec => []TypeOK
<1>1. WellFormed => TypeOK
  BY DEF WellFormed
<1> QED
  BY <1>1, AlwaysWellFormed, PTL

-----------------------------------------------------------------------------
(* What a step does to the flags and stages, and who does it.               *)

Deleting == \E t \in Threads : job[t].at = "delete_keys"

LEMMA FlagMoves ==
    ASSUME WellFormed, [Next]_vars
    PROVE  /\ status' = "IN-PROGRESS" => status = "IN-PROGRESS"
           /\ paid # "no" => paid' # "no"
           /\ reached \subseteq reached' \/ Deleting
           /\ confirmed \subseteq confirmed'
           /\ confirmed' # confirmed =>
                \E c \in Conns :
                   /\ conn[c].at = "confirm_flag"
                   /\ confirmed' = confirmed \cup {conn[c].of}
                   /\ At(c, IF confirmed' = Members THEN "restage" ELSE "open")
<1> USE DEF rest, flags, history
<1>1. CASE \E c \in Conns : \/ Connect(c) \/ RefuseAnonymous(c) \/ JoinLookup(c)
                            \/ JoinCheck(c) \/ Leave(c) \/ Cut(c) \/ NearFails(c)
                            \/ Located(c) \/ Confirming(c) \/ SendUnknown(c)
  BY <1>1 DEF Connect, RefuseAnonymous, JoinLookup, JoinCheck, Leave, Cut, NearFails, Located,
              Confirming, SendUnknown
<1>2. CASE \E c \in Conns, m \in Members :
              SendLocation(c, m) \/ SendConfirm(c, m) \/ SendDenial(c, m)
  BY <1>2 DEF SendLocation, SendConfirm, SendDenial
<1>3. CASE \E c \in Conns : WriteFlag(c)
  BY <1>3 DEF WriteFlag
<1>4. CASE \E c \in Conns : HandleNear(c) \/ HandleConfirmed(c) \/ WriteStage(c) \/ Restage(c)
  BY <1>4 DEF HandleNear, HandleConfirmed, WriteStage, Restage
<1>5. CASE \E c \in Conns : \/ HandleDenied(c) \/ CancelLookup(c) \/ Cancel(c)
                            \/ HandleNotice(c) \/ HandleUnknown(c)
  BY <1>5 DEF HandleDenied, CancelLookup, Cancel, HandleNotice, HandleUnknown
<1>6. CASE DestinationExpires \/ UNCHANGED vars
  BY <1>6 DEF DestinationExpires, vars
<1>7. CASE \E t \in Threads : \/ PayLookup(t) \/ SettleLookup(t) \/ CancelRequestLookup(t)
                              \/ Abort(t) \/ Record(t) \/ MarkPayment(t) \/ MarkTxn(t)
                              \/ CancelRequest(t) \/ Publish(t) \/ SetStage(t)
  BY <1>7 DEF PayLookup, SettleLookup, CancelRequestLookup, Abort, Record, MarkPayment,
              MarkTxn, CancelRequest, Publish, SetStage, sockets, Gateways
<1>8. CASE \E t \in Threads : DeleteKey(t)
  BY <1>8 DEF DeleteKey, Deleting
<1> QED
  BY <1>1, <1>2, <1>3, <1>4, <1>5, <1>6, <1>7, <1>8 DEF Next, Handle, Serve

LEMMA StageMoves ==
    ASSUME WellFormed, [Next]_vars, NEW m \in Members, stage'[m] # stage[m]
    PROVE  \/ Deleting
           \/ /\ stage'[m] = "AWAITING_IDENTITY_CONFIRMATION"
              /\ \E c \in Conns : /\ Owns(c, m)
                                 /\ conn[c].at = "near_stage"
                                 /\ conn'[c].at = "near_flag"
           \/ /\ stage'[m] = "AWAITING_PAYMENT_INITIATION"
              /\ \E c \in Conns : /\ Owns(c, m)
                                 /\ \/ /\ conn[c].at = "confirm_stage"
                                       /\ conn'[c].at = "confirm_flag"
                                    \/ conn[c].at = "restage"
           \/ /\ stage'[m] = "AWAITING_CASH_CONFIRMATION"
              /\ \E t \in Threads : job[t].at \in {"stage_agent", "stage_customer"}
<1> USE DEF rest, flags, history
<1>1. CASE \E c \in Conns : \/ Connect(c) \/ RefuseAnonymous(c) \/ JoinLookup(c)
                            \/ JoinCheck(c) \/ Leave(c) \/ Cut(c) \/ NearFails(c)
                            \/ Located(c) \/ Confirming(c) \/ SendUnknown(c)
  BY <1>1 DEF Connect, RefuseAnonymous, JoinLookup, JoinCheck, Leave, Cut, NearFails, Located,
              Confirming, SendUnknown
<1>2. CASE \E c \in Conns, k \in Members :
              SendLocation(c, k) \/ SendConfirm(c, k) \/ SendDenial(c, k)
  BY <1>2 DEF SendLocation, SendConfirm, SendDenial
<1>3. CASE \E c \in Conns : WriteStage(c)
  BY <1>3 DEF WriteStage, ShowStage, AtOf, WellFormed, TypeOK
<1>4. CASE \E c \in Conns : Restage(c)
  BY <1>4 DEF Restage, ShowStage, WellFormed, TypeOK
<1>5. CASE \E c \in Conns : \/ HandleNear(c) \/ HandleConfirmed(c) \/ WriteFlag(c)
                            \/ HandleDenied(c) \/ CancelLookup(c) \/ Cancel(c)
                            \/ HandleNotice(c) \/ HandleUnknown(c)
  BY <1>5 DEF HandleNear, HandleConfirmed, WriteFlag, HandleDenied, CancelLookup, Cancel,
              HandleNotice, HandleUnknown
<1>6. CASE DestinationExpires \/ UNCHANGED vars
  BY <1>6 DEF DestinationExpires, vars
<1>7. CASE \E t \in Threads : \/ PayLookup(t) \/ SettleLookup(t) \/ CancelRequestLookup(t)
                              \/ Abort(t) \/ Record(t) \/ MarkPayment(t) \/ MarkTxn(t)
                              \/ CancelRequest(t) \/ Publish(t)
  BY <1>7 DEF PayLookup, SettleLookup, CancelRequestLookup, Abort, Record, MarkPayment,
              MarkTxn, CancelRequest, Publish, sockets
<1>8. CASE \E t \in Threads : SetStage(t)
  BY <1>8 DEF SetStage, WellFormed, TypeOK
<1>9. CASE \E t \in Threads : DeleteKey(t)
  BY <1>9 DEF DeleteKey, Deleting
<1> QED
  BY <1>1, <1>2, <1>3, <1>4, <1>5, <1>6, <1>7, <1>8, <1>9 DEF Next, Handle, Serve

\* What a consumer comes to, from where and under which flags; one moves at a time.
Comes(c, v) ==
    \/ v.at \in {"away", "joining", "checking", "open", "locating", "cancel_lookup", "cancel"}
    \/ v.at = "confirming" /\ v.of \in reached
    \/ v.at = "near_stage" /\ LoopFree /\ v.of \notin reached
    \/ /\ v.at = "confirm_stage"
       /\ LoopFree /\ confirmed # Members
       /\ Receives(c, "confirmed") /\ v.of = Head(inbox[c]).of
    \/ v.at = "near_flag" /\ conn[c].at = "near_stage"
    \/ v.at = "confirm_flag" /\ conn[c].at = "confirm_stage" /\ v.of = conn[c].of
    \/ v.at = "restage" /\ conn[c].at = "confirm_flag" /\ confirmed' = Members

LEMMA ConnMoves ==
    ASSUME WellFormed, [Next]_vars
    PROVE  \/ conn' = conn
           \/ \E c \in Conns : /\ Comes(c, conn'[c])
                              /\ \A d \in Conns \ {c} : conn'[d] = conn[d]
<1> DEFINE Moves == \E c \in Conns : /\ Comes(c, conn'[c])
                                   /\ \A d \in Conns \ {c} : conn'[d] = conn[d]
<1> USE DEF WellFormed, TypeOK, rest, flags, history
<1>1. ASSUME NEW c \in Conns, At(c, "away") \/ At(c, "joining") \/ At(c, "checking")
                              \/ At(c, "open") \/ At(c, "cancel_lookup") \/ At(c, "cancel")
      PROVE  Moves
  BY <1>1 DEF At, Comes
<1>2. CASE \E c \in Conns : \/ Connect(c) \/ RefuseAnonymous(c) \/ JoinLookup(c)
                            \/ JoinCheck(c) \/ Leave(c) \/ Cut(c) \/ NearFails(c)
                            \/ Located(c) \/ Confirming(c)
  BY <1>2, <1>1 DEF Connect, RefuseAnonymous, JoinLookup, JoinCheck, Leave, Cut, NearFails,
                    Located, Confirming
<1>3. ASSUME NEW c \in Conns, NEW m \in Members, SendLocation(c, m)
      PROVE  conn' = conn \/ Moves
  BY <1>3 DEF SendLocation, AtOf, Comes
<1>4. ASSUME NEW c \in Conns, NEW m \in Members, SendConfirm(c, m) PROVE Moves
  BY <1>4 DEF SendConfirm, AtOf, Comes
<1>5. CASE \E c \in Conns : SendUnknown(c) \/ \E m \in Members : SendDenial(c, m)
  BY <1>5 DEF SendDenial, SendUnknown
<1>6. ASSUME NEW c \in Conns, HandleNear(c) PROVE conn' = conn \/ Moves
  BY <1>6 DEF HandleNear, Take, AtOf, Comes
<1>7. ASSUME NEW c \in Conns, HandleConfirmed(c) PROVE conn' = conn \/ Moves
  BY <1>7 DEF HandleConfirmed, Take, AtOf, Comes
<1>8. ASSUME NEW c \in Conns, WriteStage(c) PROVE Moves
  BY <1>8 DEF WriteStage, AtOf, Comes
<1>9. ASSUME NEW c \in Conns, WriteFlag(c) PROVE Moves
  <2>1. CASE At(c, "open")
    BY <2>1, <1>1
  <2>2. CASE /\ conn[c].at = "confirm_flag"
             /\ confirmed' = Members
             /\ At(c, "restage")
    BY <2>2 DEF At, Comes
  <2> QED
    BY <1>9, <2>1, <2>2 DEF WriteFlag
<1>10. CASE \E c \in Conns : \/ Restage(c) \/ HandleDenied(c) \/ CancelLookup(c) \/ Cancel(c)
                             \/ HandleNotice(c) \/ HandleUnknown(c)
  BY <1>10, <1>1 DEF Restage, HandleDenied, CancelLookup, Cancel, HandleNotice, HandleUnknown
<1>11. CASE DestinationExpires \/ UNCHANGED vars
  BY <1>11 DEF DestinationExpires, vars
<1>12. CASE \E t \in Threads : \/ PayLookup(t) \/ SettleLookup(t) \/ CancelRequestLookup(t)
                               \/ Serve(t) \/ Abort(t)
  BY <1>12 DEF PayLookup, SettleLookup, CancelRequestLookup, Serve, Abort, Record, SetStage,
               MarkPayment, MarkTxn, DeleteKey, CancelRequest, Publish, sockets
<1> QED
  BY <1>2, <1>3, <1>4, <1>5, <1>6, <1>7, <1>8, <1>9, <1>10, <1>11, <1>12 DEF Next, Handle

\* A member's consumer between a stage and its flag sets the flag, or is cut and noted;
\* and the note stays until a flag is set.
LEMMA FlagWriterMoves ==
    ASSUME WellFormed, [Next]_vars
    PROVE  /\ \A c \in Conns \ Strangers :
                /\ conn[c].at = "near_flag" =>
                      \/ conn'[c] = conn[c] \/ reached' # {}
                      \/ "AWAITING_IDENTITY_CONFIRMATION" \in unflagged'
                /\ conn[c].at = "confirm_flag" =>
                      \/ conn'[c] = conn[c] \/ confirmed' # {}
                      \/ "AWAITING_PAYMENT_INITIATION" \in unflagged'
           /\ "AWAITING_IDENTITY_CONFIRMATION" \in unflagged =>
                \/ reached' # {} \/ "AWAITING_IDENTITY_CONFIRMATION" \in unflagged'
           /\ "AWAITING_PAYMENT_INITIATION" \in unflagged =>
                \/ confirmed' # {} \/ "AWAITING_PAYMENT_INITIATION" \in unflagged'
<1> USE DEF WellFormed, TypeOK, At, Live, Ready, Receives, rest, flags, history
<1>1. CASE \E d \in Conns : \/ Connect(d) \/ RefuseAnonymous(d) \/ JoinLookup(d)
                            \/ JoinCheck(d) \/ Leave(d) \/ Located(d) \/ Confirming(d)
                            \/ SendUnknown(d)
  BY <1>1 DEF Connect, RefuseAnonymous, JoinLookup, JoinCheck, Leave, Located, Confirming,
              SendUnknown
<1>2. CASE \E d \in Conns : Cut(d) \/ NearFails(d)
  BY <1>2 DEF Cut, NearFails, Unflagged
<1>3. CASE \E d \in Conns, m \in Members :
              SendLocation(d, m) \/ SendConfirm(d, m) \/ SendDenial(d, m)
  BY <1>3 DEF SendLocation, SendConfirm, SendDenial, AtOf
<1>4. CASE \E d \in Conns : WriteFlag(d)
  BY <1>4 DEF WriteFlag
<1>5. CASE \E d \in Conns : HandleNear(d) \/ HandleConfirmed(d) \/ WriteStage(d) \/ Restage(d)
  BY <1>5 DEF HandleNear, HandleConfirmed, WriteStage, Restage, AtOf
<1>6. CASE \E d \in Conns : \/ HandleDenied(d) \/ CancelLookup(d) \/ Cancel(d)
                            \/ HandleNotice(d) \/ HandleUnknown(d)
  BY <1>6 DEF HandleDenied, CancelLookup, Cancel, HandleNotice, HandleUnknown
<1>7. CASE DestinationExpires \/ UNCHANGED vars
  BY <1>7 DEF DestinationExpires, vars
<1>8. CASE \E t \in Threads : \/ PayLookup(t) \/ SettleLookup(t) \/ CancelRequestLookup(t)
                              \/ Serve(t) \/ Abort(t)
  BY <1>8 DEF PayLookup, SettleLookup, CancelRequestLookup, Serve, Abort, Record, SetStage,
              MarkPayment, MarkTxn, DeleteKey, CancelRequest, Publish, sockets
<1> QED
  BY <1>1, <1>2, <1>3, <1>4, <1>5, <1>6, <1>7, <1>8 DEF Next, Handle

\* A handler gets to where it is sent, and no other moves.
LEMMA GoToMoves ==
    ASSUME WellFormed, NEW u \in Threads, NEW a, GoTo(u, a) \/ (a = "idle" /\ Return(u))
    PROVE  job'[u].at = a /\ \A t \in Threads \ {u} : job'[t] = job[t]
<1>1. job \in [Threads -> Job]
  BY DEF WellFormed, TypeOK
<1>2. CASE GoTo(u, a)
  <2>1. "at" \in DOMAIN job[u] /\ job[u] = [f \in DOMAIN job[u] |-> job[u][f]]
    BY <1>1 DEF Job
  <2>2. [job[u] EXCEPT !.at = a].at = a
    BY <2>1
  <2> QED
    BY <1>1, <1>2, <2>2 DEF GoTo
<1>3. CASE a = "idle" /\ Return(u)
  BY <1>1, <1>3 DEF Return
<1> QED
  BY <1>2, <1>3

\* Handlers that get to the end of a settlement have completed the transaction, and
\* those that get beyond the insert of the payment have inserted it.
LEMMA JobMoves ==
    ASSUME WellFormed, [Next]_vars, NEW t \in Threads, job'[t] # job[t]
    PROVE  /\ job'[t].at \in {"publish_end", "delete_keys"} =>
                job[t].at \in {"publish_end", "delete_keys"} \/ status' = "COMPLETED"
           /\ job'[t].at \in {"publish_payment", "stage_agent", "stage_customer"} =>
                \/ job[t].at \in {"publish_payment", "stage_agent", "stage_customer"}
                \/ paid' # "no"
<1>1. PICK u \in Threads : \/ PayLookup(u) \/ SettleLookup(u) \/ CancelRequestLookup(u)
                           \/ Serve(u) \/ Abort(u)
  BY SocketLeavesJobs
<1>2. CASE PayLookup(u) \/ Abort(u)
  BY <1>2, GoToMoves DEF PayLookup, Abort
<1>3. CASE SettleLookup(u) \/ CancelRequestLookup(u)
  BY <1>3 DEF SettleLookup, CancelRequestLookup, WellFormed, TypeOK
<1>4. CASE Record(u)
  BY <1>4, GoToMoves DEF Record, Gateways
<1>5. CASE MarkPayment(u) \/ MarkTxn(u) \/ CancelRequest(u)
  BY <1>5, GoToMoves DEF MarkPayment, MarkTxn, CancelRequest
<1>6. CASE SetStage(u)
  BY <1>6, GoToMoves DEF SetStage
<1>7. CASE DeleteKey(u)
  <2>1. job[u].at = "delete_keys" /\ (t # u => job'[t] = job[t])
    BY <1>7 DEF DeleteKey, Return, WellFormed, TypeOK
  <2>2. job'[u].at \in {"delete_keys", "idle"}
    <3>1. CASE Return(u)
      BY <3>1, GoToMoves
    <3>2. CASE job' = [job EXCEPT ![u].next = @ + 1]
      <4>1. job[u] \in [at : {"delete_keys"}, gateway : Gateways, next : 1..4]
        BY <2>1 DEF WellFormed, TypeOK, Job
      <4> QED
        BY <2>1, <3>2, <4>1 DEF WellFormed, TypeOK
    <3> QED
      BY <1>7, <3>1, <3>2 DEF DeleteKey
  <2> QED
    BY <2>1, <2>2
<1>8. CASE Publish(u)
  <2>1. CASE job[u].at = "publish_payment" /\ GoTo(u, "stage_agent")
    BY <2>1, GoToMoves
  <2>2. CASE Return(u)
    BY <2>2, GoToMoves
  <2>3. CASE job[u].at = "publish_end"
    BY <1>8, <2>3 DEF Publish, WellFormed, TypeOK
  <2> QED
    BY <1>8, <2>1, <2>2, <2>3 DEF Publish
<1> QED
  BY <1>1, <1>2, <1>3, <1>4, <1>5, <1>6, <1>7, <1>8 DEF Serve

-----------------------------------------------------------------------------
(* The event loop.                                                          *)

\* One consumer at a time is in the middle of its writes, so that what it read of the
\* identities' flags still holds when it comes to them.
OneWrites == \A c, d \in Conns : Writing(c) /\ Writing(d) => c = d
FlagsAsRead ==
    \A c \in Conns :
       /\ conn[c].at \in {"confirm_stage", "confirm_flag"} => confirmed # Members
       /\ conn[c].at = "restage" => confirmed = Members

LoopInv == OneWrites /\ FlagsAsRead

LEMMA NextLoop == ASSUME WellFormed, LoopInv, [Next]_vars PROVE LoopInv'
<1>1. OneWrites'
  <2> SUFFICES ASSUME NEW c \in Conns, NEW d \in Conns, Writing(c)', Writing(d)', c # d
               PROVE  FALSE
    BY DEF OneWrites
  <2>1. ASSUME NEW e \in Conns, NEW f \in Conns, e # f, Comes(e, conn'[e]), Writing(e)',
               conn'[f] = conn[f], Writing(f)'
        PROVE  FALSE
    BY <2>1 DEF Comes, Writing, LoopFree, LoopInv, OneWrites
  <2>2. CASE conn' = conn
    BY <2>2 DEF LoopInv, OneWrites, Writing
  <2>3. ASSUME NEW e \in Conns, Comes(e, conn'[e]),
               \A f \in Conns \ {e} : conn'[f] = conn[f]
        PROVE  FALSE
    <3>1. CASE c # e /\ d # e
      BY <2>3, <3>1 DEF LoopInv, OneWrites, Writing
    <3>2. CASE c = e \/ d = e
      BY <2>1, <2>3, <3>2
    <3> QED
      BY <3>1, <3>2
  <2> QED
    BY <2>2, <2>3, ConnMoves
<1>2. ASSUME NEW c \in Conns
      PROVE  /\ conn'[c].at \in {"confirm_stage", "confirm_flag"} => confirmed' # Members
             /\ conn'[c].at = "restage" => confirmed' = Members
  <2>1. confirmed \subseteq confirmed' /\ confirmed' \in SUBSET Members
    BY FlagMoves, FlagsTyped
  <2>2. CASE conn'[c] = conn[c]
    <3>1. CASE confirmed' = confirmed
      BY <2>2, <3>1 DEF LoopInv, FlagsAsRead
    <3>2. CASE confirmed' # confirmed
      <4>1. PICK d \in Conns : /\ conn[d].at = "confirm_flag"
                               /\ At(d, IF confirmed' = Members THEN "restage" ELSE "open")
        BY <3>2, FlagMoves
      <4>2. conn'[d].at # "confirm_flag"
        BY <4>1 DEF At, WellFormed, TypeOK
      <4>3. ~Writing(c)
        BY <2>2, <4>1, <4>2 DEF LoopInv, OneWrites, Writing
      <4> QED
        BY <2>2, <4>3 DEF Writing
    <3> QED
      BY <3>1, <3>2
  <2>3. CASE conn'[c] # conn[c]
    <3>1. Comes(c, conn'[c])
      BY <2>3, ConnMoves
    <3>2. CASE conn'[c].at \in {"confirm_stage", "confirm_flag"}
      <4>1. confirmed # Members
        BY <3>1, <3>2 DEF Comes, LoopInv, FlagsAsRead
      <4>2. ASSUME confirmed' # confirmed PROVE FALSE
        <5>1. PICK d \in Conns : /\ conn[d].at = "confirm_flag"
                                 /\ At(d, IF confirmed' = Members THEN "restage" ELSE "open")
          BY <4>2, FlagMoves
        <5>2. conn'[d].at \in {"restage", "open"}
          BY <5>1 DEF At, WellFormed, TypeOK
        <5>3. c # d /\ conn'[c] = conn[c]
          BY <3>2, <5>1, <5>2 DEF At, WellFormed, TypeOK
        <5> QED
          BY <2>3, <5>3
      <4> QED
        BY <4>1, <4>2, <3>2
    <3>3. CASE conn'[c].at = "restage"
      BY <3>1, <3>3 DEF Comes
    <3> QED
      BY <3>2, <3>3
  <2> QED
    BY <2>2, <2>3
<1> QED
  BY <1>1, <1>2 DEF LoopInv, FlagsAsRead

-----------------------------------------------------------------------------
(* Arrivals and confirmations.                                              *)

\* While the transaction is open no flag is deleted, so that what a confirmation was
\* sent for is still so when it is published, when it comes up in a queue and when it
\* is flagged.  An arrival that is being handled is that of a member not confirmed.
QueuedHasArrived ==
    \A c \in Conns : \A i \in 1..Len(inbox[c]) :
       inbox[c][i].kind = "confirmed" => inbox[c][i].of \in reached
SentHasArrived ==
    \A c \in Conns :
       conn[c].at \in {"confirming", "confirm_stage", "confirm_flag"} => conn[c].of \in reached
NearIsNew == \A c \in Conns : conn[c].at = "near_stage" => conn[c].of \notin confirmed
NobodySettled == \A t \in Threads : job[t].at \notin {"publish_end", "delete_keys"}

ArrivalInv ==
    status = "IN-PROGRESS" =>
       /\ confirmed \subseteq reached
       /\ QueuedHasArrived
       /\ SentHasArrived
       /\ NearIsNew
       /\ NobodySettled

LEMMA NextNobodySettled ==
    ASSUME WellFormed, [Next]_vars, NobodySettled, status' = "IN-PROGRESS"
    PROVE  NobodySettled'
BY JobMoves DEF NobodySettled

LEMMA NextQueued ==
    ASSUME WellFormed, [Next]_vars, QueuedHasArrived, SentHasArrived, reached \subseteq reached'
    PROVE  QueuedHasArrived'
<1> SUFFICES ASSUME NEW c \in Conns, NEW i \in 1..Len(inbox'[c]),
                    inbox'[c][i].kind = "confirmed"
             PROVE  inbox'[c][i].of \in reached'
  BY DEF QueuedHasArrived
<1>1. inbox[c] \in Seq(Message)
  BY DEF WellFormed, TypeOK
<1>2. \A j \in 1..Len(inbox[c]) :
         inbox[c][j].kind = "confirmed" => inbox[c][j].of \in reached
  BY DEF QueuedHasArrived
<1>3. CASE inbox'[c] = inbox[c]
  BY <1>2, <1>3
<1>4. CASE inbox'[c] = <<>>
  BY <1>4
<1>5. CASE inbox[c] # <<>> /\ inbox'[c] = Tail(inbox[c])
  <2>1. i + 1 \in 1..Len(inbox[c]) /\ inbox'[c][i] = inbox[c][i + 1]
    BY <1>1, <1>5, HeadTailProperties
  <2> QED
    BY <2>1, <1>2
<1>6. ASSUME NEW e \in Message, inbox'[c] = Append(inbox[c], e),
             e.kind = "confirmed" =>
                \E d \in Conns : conn[d].at = "confirming" /\ conn[d].of = e.of
      PROVE  inbox'[c][i].of \in reached'
  <2>1. CASE i = Len(inbox[c]) + 1
    BY <1>1, <1>6, <2>1 DEF SentHasArrived
  <2>2. CASE i \in 1..Len(inbox[c])
    BY <1>1, <1>2, <1>6, <2>2
  <2> QED
    BY <1>1, <1>6, <2>1, <2>2
<1> QED
  BY <1>3, <1>4, <1>5, <1>6, QueueMoves

LEMMA NextSent ==
    ASSUME WellFormed, [Next]_vars, QueuedHasArrived, SentHasArrived, reached \subseteq reached'
    PROVE  SentHasArrived'
<1> SUFFICES ASSUME NEW c \in Conns,
                    conn'[c].at \in {"confirming", "confirm_stage", "confirm_flag"}
             PROVE  conn'[c].of \in reached'
  BY DEF SentHasArrived
<1>1. CASE conn'[c] = conn[c]
  BY <1>1 DEF SentHasArrived
<1>2. CASE conn'[c] # conn[c]
  <2>1. Comes(c, conn'[c])
    BY <1>2, ConnMoves
  <2>2. CASE Receives(c, "confirmed") /\ conn'[c].of = Head(inbox[c]).of
    <3>1. inbox[c] \in Seq(Message) /\ inbox[c] # <<>>
      BY <2>2 DEF Receives, WellFormed, TypeOK
    <3>2. 1 \in 1..Len(inbox[c]) /\ Head(inbox[c]) = inbox[c][1]
      BY <3>1
    <3> QED
      BY <2>2, <3>2 DEF QueuedHasArrived, Receives
  <2>3. CASE conn'[c].of \in reached
    BY <2>3
  <2> QED
    BY <2>1, <2>2, <2>3 DEF Comes, SentHasArrived
<1> QED
  BY <1>1, <1>2

LEMMA NextNear ==
    ASSUME WellFormed, LoopInv, [Next]_vars, NearIsNew, confirmed \subseteq reached
    PROVE  NearIsNew'
<1> SUFFICES ASSUME NEW c \in Conns, conn'[c].at = "near_stage"
             PROVE  conn'[c].of \notin confirmed'
  BY DEF NearIsNew
<1>1. CASE confirmed' = confirmed
  BY <1>1, ConnMoves DEF NearIsNew, Comes
<1>2. CASE confirmed' # confirmed
  <2>1. PICK d \in Conns : /\ conn[d].at = "confirm_flag"
                           /\ At(d, IF confirmed' = Members THEN "restage" ELSE "open")
    BY <1>2, FlagMoves
  <2>2. c # d /\ conn'[c] = conn[c]
    BY <2>1 DEF At, WellFormed, TypeOK
  <2> QED
    BY <2>1, <2>2 DEF LoopInv, OneWrites, Writing
<1> QED
  BY <1>1, <1>2

LEMMA NextArrival == WellFormed /\ LoopInv /\ ArrivalInv /\ [Next]_vars => ArrivalInv'
<1> SUFFICES ASSUME WellFormed, LoopInv, ArrivalInv, [Next]_vars, status' = "IN-PROGRESS"
             PROVE  /\ confirmed' \subseteq reached'
                    /\ QueuedHasArrived' /\ SentHasArrived' /\ NearIsNew' /\ NobodySettled'
  BY DEF ArrivalInv
<1>1. /\ confirmed \subseteq reached
      /\ QueuedHasArrived /\ SentHasArrived /\ NearIsNew /\ NobodySettled
  BY FlagMoves DEF ArrivalInv
<1>2. reached \subseteq reached'
  BY <1>1, FlagMoves DEF NobodySettled, Deleting
<1>3. confirmed' \subseteq reached'
  BY <1>1, <1>2, FlagMoves DEF SentHasArrived
<1> QED
  BY <1>1, <1>2, <1>3, NextQueued, NextSent, NextNear, NextNobodySettled

SafeInv == WellFormed /\ LoopInv /\ ArrivalInv

LEMMA AlwaysSafe == Spec => []SafeInv
<1>1. Init => LoopInv /\ ArrivalInv
  BY DEF Init, LoopInv, OneWrites, FlagsAsRead, Writing, ArrivalInv, QueuedHasArrived,
         SentHasArrived, NearIsNew, NobodySettled
<1>2. SafeInv /\ [Next]_vars => SafeInv'
  BY NextWellFormed, NextLoop, NextArrival DEF SafeInv
<1> QED
  BY <1>1, <1>2, InitWellFormed, PTL DEF Spec, SafeInv

(* While the transaction is open an identity is confirmed only of a member  *)
(* who has arrived: a confirmation finds the flag it was sent for, because  *)
(* only a settlement deletes flags.                                         *)
THEOREM ConfirmationsFollowArrivals == Spec => []ConfirmedHasArrived
<1>1. SafeInv => ConfirmedHasArrived
  BY DEF SafeInv, ArrivalInv, ConfirmedHasArrived
<1> QED
  BY <1>1, AlwaysSafe, PTL

\* Who moves a stage once both identities are confirmed.
LEMMA LastMoves ==
    ASSUME SafeInv, [Next]_vars, status = "IN-PROGRESS", confirmed = Members,
           NEW m \in Members, stage'[m] # stage[m]
    PROVE  \/ stage'[m] = "AWAITING_CASH_CONFIRMATION"
           \/ /\ stage'[m] = "AWAITING_PAYMENT_INITIATION"
              /\ \E c \in Conns : Owns(c, m) /\ conn[c].at = "restage"
<1>1. ~Deleting /\ NearIsNew
  BY DEF SafeInv, ArrivalInv, NobodySettled, Deleting
<1>2. \A c \in Conns : conn[c].at # "confirm_stage"
  BY DEF SafeInv, LoopInv, FlagsAsRead
<1>3. \A c \in Conns : conn[c].at # "near_stage"
  <2> SUFFICES ASSUME NEW c \in Conns, conn[c].at = "near_stage" PROVE FALSE
    OBVIOUS
  <2>1. conn[c].of \in Members
    BY DEF SafeInv, WellFormed, TypeOK, Conn
  <2> QED
    BY <1>1, <2>1 DEF NearIsNew
<1> QED
  BY <1>1, <1>2, <1>3, StageMoves DEF SafeInv

(* Once both identities are confirmed no queued message moves a stage of    *)
(* the open transaction: both members have arrived, so that an arrival is   *)
(* old news, and so is a confirmation.  Only the consumer that has just set *)
(* the second flag has a write to do.                                       *)
THEOREM PaymentsMoveOn == Spec => OnlyPaymentMovesOn
<1>1. SafeInv /\ [Next]_vars =>
        [(status = "IN-PROGRESS" /\ confirmed = Members) =>
           \A m \in Members : stage'[m] # stage[m] =>
              \/ stage'[m] = "AWAITING_CASH_CONFIRMATION"
              \/ /\ stage'[m] = "AWAITING_PAYMENT_INITIATION"
                 /\ \E c \in Conns : Owns(c, m) /\ conn[c].at = "restage"]_vars
  BY LastMoves
<1> QED
  BY <1>1, AlwaysSafe, PTL DEF Spec, OnlyPaymentMovesOn

-----------------------------------------------------------------------------
(* Stages and denials.                                                      *)

\* A handler that is about to ask for the cash has recorded the payment.
CashIsPaid ==
    \A t \in Threads :
       job[t].at \in {"publish_payment", "stage_agent", "stage_customer"} => paid # "no"

StageInv == StageIsEarned /\ CashIsPaid

LEMMA NextStage == SafeInv /\ StageInv /\ [Next]_vars => StageInv'
<1> SUFFICES ASSUME SafeInv, WellFormed, StageInv, [Next]_vars PROVE StageInv'
  BY DEF SafeInv
<1>1. CashIsPaid'
  <2> SUFFICES ASSUME NEW t \in Threads,
                      job'[t].at \in {"publish_payment", "stage_agent", "stage_customer"}
               PROVE  paid' # "no"
    BY DEF CashIsPaid
  <2>1. CASE job'[t] = job[t]
    BY <2>1, FlagMoves DEF StageInv, CashIsPaid
  <2>2. CASE job'[t] # job[t]
    BY <2>2, JobMoves, FlagMoves DEF StageInv, CashIsPaid
  <2> QED
    BY <2>1, <2>2
<1>2. StageIsEarned'
  <2> SUFFICES ASSUME status' = "IN-PROGRESS", NEW m \in Members
               PROVE  /\ stage'[m] = "AWAITING_IDENTITY_CONFIRMATION" =>
                            \/ reached' # {}
                            \/ \E c \in Conns : Owns(c, m) /\ conn'[c].at = "near_flag"
                            \/ stage'[m] \in unflagged'
                      /\ stage'[m] = "AWAITING_PAYMENT_INITIATION" =>
                            \/ confirmed' # {}
                            \/ \E c \in Conns : Owns(c, m) /\ conn'[c].at = "confirm_flag"
                            \/ stage'[m] \in unflagged'
                      /\ stage'[m] = "AWAITING_CASH_CONFIRMATION" => paid' # "no"
    BY DEF StageIsEarned
  <2>1. status = "IN-PROGRESS" /\ ~Deleting
    BY FlagMoves DEF SafeInv, ArrivalInv, NobodySettled, Deleting
  <2>2. CASE stage'[m] = stage[m]
    <3>1. \A c \in Conns : Owns(c, m) => c \notin Strangers
      BY SocketAssumption DEF Owns, Members
    <3>2. /\ reached # {} => reached' # {}
          /\ confirmed # {} => confirmed' # {}
          /\ paid # "no" => paid' # "no"
      BY <2>1, FlagMoves
    <3>3. CASE stage[m] = "AWAITING_IDENTITY_CONFIRMATION"
      BY <2>1, <2>2, <3>1, <3>2, <3>3, FlagWriterMoves DEF StageInv, StageIsEarned
    <3>4. CASE stage[m] = "AWAITING_PAYMENT_INITIATION"
      BY <2>1, <2>2, <3>1, <3>2, <3>4, FlagWriterMoves DEF StageInv, StageIsEarned
    <3>5. CASE stage[m] = "AWAITING_CASH_CONFIRMATION"
      BY <2>1, <2>2, <3>2, <3>5 DEF StageInv, StageIsEarned
    <3> QED
      BY <2>2, <3>3, <3>4, <3>5
  <2>3. CASE stage'[m] # stage[m]
    <3>1. \A c \in Conns : conn[c].at = "restage" => confirmed' # {}
      BY FlagMoves DEF SafeInv, LoopInv, FlagsAsRead, Members
    <3>2. \A t \in Threads : job[t].at \in {"stage_agent", "stage_customer"} => paid' # "no"
      BY FlagMoves DEF StageInv, CashIsPaid
    <3> QED
      BY <2>1, <2>3, <3>1, <3>2, StageMoves
  <2> QED
    BY <2>2, <2>3
<1> QED
  BY <1>1, <1>2 DEF StageInv

(* No stage is ahead of its cause, an arrival, a confirmation or a payment, *)
(* but where a consumer has yet to set the flag, or was cut before it did.  *)
THEOREM StagesAreEarned == Spec => []StageIsEarned
<1>1. Init => StageInv
  BY DEF Init, StageInv, StageIsEarned, CashIsPaid
<1>2. StageInv => StageIsEarned
  BY DEF StageInv
<1> QED
  BY <1>1, <1>2, AlwaysSafe, NextStage, PTL DEF Spec

\* A consumer that cancels goes on to do so, or is cut.
LEMMA CancellerMoves ==
    ASSUME WellFormed, [Next]_vars, NEW c \in Conns,
           conn[c].at \in {"cancel_lookup", "cancel"}
    PROVE  \/ conn'[c].at \in {"cancel_lookup", "cancel"}
           \/ status' # "IN-PROGRESS"
           \/ denialCut'
<1> USE DEF WellFormed, TypeOK, At, Live, Ready, Receives, rest, flags, history
<1>1. CASE \E d \in Conns : \/ Connect(d) \/ RefuseAnonymous(d) \/ JoinLookup(d) \/ JoinCheck(d)
                            \/ Leave(d) \/ Cut(d) \/ NearFails(d) \/ Located(d)
                            \/ Confirming(d) \/ SendUnknown(d)
  BY <1>1 DEF Connect, RefuseAnonymous, JoinLookup, JoinCheck, Leave, Cut, NearFails,
     Located, Confirming, SendUnknown
<1>2. CASE \E d \in Conns, m \in Members :
              SendLocation(d, m) \/ SendConfirm(d, m) \/ SendDenial(d, m)
  BY <1>2 DEF SendLocation, SendConfirm, SendDenial, AtOf
<1>3. CASE \E d \in Conns : Handle(d)
  BY <1>3 DEF Handle, HandleNear, HandleConfirmed, HandleDenied, HandleNotice,
              HandleUnknown, CancelLookup, Cancel, WriteStage, WriteFlag,
              Restage, AtOf
<1>4. CASE DestinationExpires \/ UNCHANGED vars
  BY <1>4 DEF DestinationExpires, vars
<1>5. CASE \E t \in Threads : \/ PayLookup(t) \/ SettleLookup(t) \/ CancelRequestLookup(t)
                              \/ Serve(t) \/ Abort(t)
  BY <1>5 DEF PayLookup, SettleLookup, CancelRequestLookup, Serve, Abort, Record, SetStage,
              MarkPayment, MarkTxn, DeleteKey, CancelRequest, Publish, sockets
<1> QED
  BY <1>1, <1>2, <1>3, <1>4, <1>5 DEF Next

\* Who is told has a consumer that cancels.
LEMMA DenialMoves ==
    ASSUME WellFormed, [Next]_vars
    PROVE  /\ (denialTold' /\ ~denialTold) => \E c \in Conns : conn'[c].at = "cancel_lookup"
           /\ denialCut => denialCut'
<1> USE DEF WellFormed, TypeOK, At, rest, flags, history
<1>1. CASE \E d \in Conns : \/ Connect(d) \/ RefuseAnonymous(d) \/ JoinLookup(d) \/ JoinCheck(d)
                            \/ Leave(d) \/ Cut(d) \/ NearFails(d) \/ Located(d)
                            \/ Confirming(d) \/ SendUnknown(d)
  BY <1>1 DEF Connect, RefuseAnonymous, JoinLookup, JoinCheck, Leave, Cut, NearFails,
     Located, Confirming, SendUnknown
<1>2. CASE \E d \in Conns, m \in Members :
              SendLocation(d, m) \/ SendConfirm(d, m) \/ SendDenial(d, m)
  BY <1>2 DEF SendLocation, SendConfirm, SendDenial
<1>3. CASE \E d \in Conns : HandleDenied(d)
  BY <1>3 DEF HandleDenied
<1>4. CASE \E d \in Conns : \/ HandleNear(d) \/ HandleConfirmed(d) \/ WriteStage(d)
                            \/ WriteFlag(d) \/ Restage(d) \/ HandleNotice(d)
                            \/ HandleUnknown(d) \/ CancelLookup(d) \/ Cancel(d)
  BY <1>4 DEF HandleNear, HandleConfirmed, HandleNotice, HandleUnknown, CancelLookup, Cancel,
              WriteStage, WriteFlag, Restage
<1>5. CASE DestinationExpires \/ UNCHANGED vars
  BY <1>5 DEF DestinationExpires, vars
<1>6. CASE \E t \in Threads : \/ PayLookup(t) \/ SettleLookup(t) \/ CancelRequestLookup(t)
                              \/ Serve(t) \/ Abort(t)
  BY <1>6 DEF PayLookup, SettleLookup, CancelRequestLookup, Serve, Abort, Record, SetStage,
              MarkPayment, MarkTxn, DeleteKey, CancelRequest, Publish, sockets
<1> QED
  BY <1>1, <1>2, <1>3, <1>4, <1>5, <1>6 DEF Next, Handle

LEMMA NextDenial == WellFormed /\ DenialCloses /\ [Next]_vars => DenialCloses'
<1> SUFFICES ASSUME WellFormed, DenialCloses, [Next]_vars,
                    denialTold', status' = "IN-PROGRESS", ~denialCut'
             PROVE  \E c \in Conns : conn'[c].at \in {"cancel_lookup", "cancel"}
  BY DEF DenialCloses
<1>1. CASE ~denialTold
  BY <1>1, DenialMoves
<1>2. CASE denialTold
  <2>1. PICK c \in Conns : conn[c].at \in {"cancel_lookup", "cancel"}
    BY <1>2, FlagMoves, DenialMoves DEF DenialCloses
  <2> QED
    BY <2>1, CancellerMoves
<1> QED
  BY <1>1, <1>2

(* Whoever is told of a cancellation by a denial finds the transaction      *)
(* closed, unless the consumer is about to close it or was cut there.       *)
THEOREM DenialsClose == Spec => []DenialCloses
<1>1. Init => DenialCloses
  BY DEF Init, DenialCloses
<1> QED
  BY <1>1, AlwaysWellFormed, NextDenial, PTL DEF Spec

-----------------------------------------------------------------------------
(* What a step may never do.                                                *)

\* Messages queued long ago, settlements and cancellations of others, and clients
\* that come and go undo nothing: an open transaction keeps its arrivals, every
\* transaction its confirmations and its payment, and none is opened again.  Cash that
\* was shown as awaited after both confirmations is until the transaction closes, but
\* for the last write of the consumer that set the second flag.
ProgressStands ==
    /\ status' = "IN-PROGRESS" => status = "IN-PROGRESS"
    /\ status = "IN-PROGRESS" => reached \subseteq reached'
    /\ confirmed \subseteq confirmed'
    /\ paid # "no" => paid' # "no"
    /\ (status = "IN-PROGRESS" /\ confirmed = Members) =>
          \A m \in Members :
             stage[m] = "AWAITING_CASH_CONFIRMATION" =>
                \/ stage'[m] = stage[m]
                \/ \E c \in Conns : Owns(c, m) /\ conn[c].at = "restage"

THEOREM ProgressIsKept == Spec => [][ProgressStands]_vars
<1>1. ASSUME SafeInv, [Next]_vars PROVE ProgressStands
  <2>1. status = "IN-PROGRESS" => ~Deleting
    BY <1>1 DEF SafeInv, ArrivalInv, NobodySettled, Deleting
  <2> QED
    BY <1>1, <2>1, FlagMoves, LastMoves DEF ProgressStands, SafeInv
<1> QED
  BY <1>1, AlwaysSafe, PTL DEF Spec
=============================================================================
