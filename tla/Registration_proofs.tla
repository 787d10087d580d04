------------------------ MODULE Registration_proofs ------------------------
(***************************************************************************)
(* Theorems about Registration, for any tokens, numbers, addresses and     *)
(* threads.                                                                *)
(***************************************************************************)
EXTENDS Registration, TLAPS

-----------------------------------------------------------------------------
(* Jobs and sessions.                                                       *)

Reading == {"check_otp", "read_session"}
Basing == {"write_otp", "write_address", "write_verified", "create_user"}

\* What a job carries at each step.
LEMMA JobFields ==
    ASSUME NEW j \in Job
    PROVE  /\ j.at = "store_session" => j.mobile \in Mobiles
           /\ j.at \notin {"idle", "store_session"} => j.token \in Tokens
           /\ j.at \in Reading \cup {"write_address"} => j.email \in Emails
           /\ j.at \in Basing => j.base \in Session
           /\ j.at = "create_user" => j.base.address # Null
<1>0. CASE j = IdleJob
  <2>1. j.at = "idle"
    BY <1>0 DEF IdleJob
  <2> QED
    BY <2>1 DEF Reading, Basing
<1>1. CASE j \in StoreJob
  BY <1>1 DEF StoreJob, Reading, Basing
<1>2. CASE j \in OtpJob \cup LinkJob
  BY <1>2 DEF OtpJob, LinkJob, Reading, Basing
<1>3. CASE j \in AddressJob
  BY <1>3 DEF AddressJob, Reading, Basing
<1>4. CASE j \in UserJob
  BY <1>4 DEF UserJob, Reading, Basing
<1> QED
  BY <1>0, <1>1, <1>2, <1>3, <1>4 DEF Job

\* What the handlers make of a session.
LEMMA SessionFields ==
    ASSUME NEW s \in Session
    PROVE  /\ s.mobile \in Mobiles
           /\ s.otp \in BOOLEAN
           /\ s.verified \in BOOLEAN
           /\ s.address \in Emails \cup {Null}
           /\ s # Null
           /\ WithOtp(s) \in Session
           /\ WithOtp(s).mobile = s.mobile
           /\ WithOtp(s).otp
           /\ WithOtp(s).address = s.address
           /\ WithOtp(s).verified = s.verified
           /\ WithLink(s) \in Session
           /\ WithLink(s).mobile = s.mobile
           /\ WithLink(s).otp = s.otp
           /\ WithLink(s).address = s.address
           /\ \A e \in Emails :
                 /\ WithAddress(s, e) \in Session
                 /\ WithAddress(s, e).mobile = s.mobile
                 /\ WithAddress(s, e).otp = s.otp
                 /\ WithAddress(s, e).verified = s.verified
BY RegistrationAssumption DEF Session, WithOtp, WithLink, WithAddress

LEMMA LinkVerifies == ASSUME NEW s \in Session PROVE WithLink(s).verified
BY DEF Session, WithLink

LEMMA NewSessionFields ==
    ASSUME NEW m \in Mobiles
    PROVE  /\ NewSession(m) \in Session
           /\ NewSession(m).mobile = m
           /\ ~NewSession(m).otp
           /\ NewSession(m).address = Null
           /\ ~NewSession(m).verified
BY DEF NewSession, Session

\* A handler goes on to job j, the others stay where they are.
LEMMA BeginEffect ==
    ASSUME TypeOK, NEW t \in Threads, NEW j, Begin(t, j)
    PROVE  /\ job'[t] = j
           /\ \A u \in Threads : u # t => job'[u] = job[u]
           /\ j \in Job => job' \in [Threads -> Job]
BY DEF TypeOK, Begin

LEMMA ReturnEffect ==
    ASSUME TypeOK, NEW t \in Threads, Return(t)
    PROVE  /\ job'[t].at = "idle"
           /\ \A u \in Threads : u # t => job'[u] = job[u]
           /\ job' \in [Threads -> Job]
BY BeginEffect DEF Return, IdleJob, Job

LEMMA PutEffect ==
    ASSUME TypeOK, NEW k \in Tokens, NEW s \in Session, Put(k, s)
    PROVE  /\ session'[k] = s
           /\ \A i \in Tokens : i # k => session'[i] = session[i]
           /\ session' \in [Tokens -> Session \cup {Null}]
           /\ astray' \in SUBSET Tokens
           /\ astray \subseteq astray'
           /\ session[k] = Null => k \in astray'
BY DEF TypeOK, Put, Live

-----------------------------------------------------------------------------
(* Types.                                                                   *)

LEMMA TypeStep == TypeOK /\ [Next]_vars => TypeOK'
<1> SUFFICES ASSUME TypeOK, [Next]_vars PROVE TypeOK'
  OBVIOUS
<1> USE DEF history
<1>1. CASE UNCHANGED vars
  BY <1>1 DEF TypeOK, vars
<1>2. ASSUME NEW t \in Threads, NEW m \in Mobiles, EnquireLookup(t, m) PROVE TypeOK'
  <2>1. [at |-> "store_session", mobile |-> m] \in Job
    BY DEF Job, StoreJob
  <2> QED
    BY <1>2, <2>1, BeginEffect DEF EnquireLookup, TypeOK
<1>3. ASSUME NEW t \in Threads, NEW k \in Tokens, StoreSession(t, k) PROVE TypeOK'
  <2>1. job[t] \in Job /\ job[t].at = "store_session"
    BY <1>3 DEF StoreSession, TypeOK
  <2>2. NewSession(job[t].mobile) \in Session
    BY <2>1, JobFields, NewSessionFields
  <2> QED
    BY <1>3, <2>2, ReturnEffect DEF StoreSession, TypeOK
<1>4. ASSUME NEW t \in Threads, NEW k \in Tokens, VerifyOtp(t, k) PROVE TypeOK'
  <2>1. [at |-> "write_otp", token |-> k, base |-> session[k]] \in Job
    BY <1>4 DEF VerifyOtp, Live, TypeOK, Job, OtpJob
  <2> QED
    BY <1>4, <2>1, BeginEffect DEF VerifyOtp, TypeOK
<1>5. ASSUME NEW t \in Threads, NEW k \in Tokens, NEW e \in Emails, AddressLookup(t, k, e)
      PROVE  TypeOK'
  <2>1. [at |-> "check_otp", token |-> k, email |-> e] \in Job
    BY DEF Job, AddressJob
  <2> QED
    BY <1>5, <2>1, BeginEffect DEF AddressLookup, TypeOK
<1>6. ASSUME NEW t \in Threads, NEW k \in Tokens, FollowLink(t, k) PROVE TypeOK'
  <2>1. [at |-> "write_verified", token |-> k, base |-> session[k]] \in Job
    BY <1>6 DEF FollowLink, Live, TypeOK, Job, LinkJob
  <2> QED
    BY <1>6, <2>1, BeginEffect DEF FollowLink, TypeOK
<1>7. ASSUME NEW t \in Threads, NEW k \in Tokens, CheckVerified(t, k) PROVE TypeOK'
  <2>1. [at |-> "read_account", token |-> k] \in Job
    BY DEF Job, UserJob
  <2> QED
    BY <1>7, <2>1, BeginEffect DEF CheckVerified, TypeOK
<1>8. ASSUME NEW t \in Threads, WriteOtp(t) PROVE TypeOK'
  <2>1. job[t] \in Job /\ job[t].at = "write_otp"
    BY <1>8 DEF WriteOtp, TypeOK
  <2>2. job[t].token \in Tokens /\ WithOtp(job[t].base) \in Session
    BY <2>1, JobFields, SessionFields DEF Basing
  <2> QED
    BY <1>8, <2>2, PutEffect, ReturnEffect DEF WriteOtp, TypeOK
<1>9. ASSUME NEW t \in Threads, CheckOtp(t) PROVE TypeOK'
  <2>1. job[t] \in Job /\ job[t].at = "check_otp"
    BY <1>9 DEF CheckOtp, TypeOK
  <2>2. [at |-> "read_session", token |-> job[t].token, email |-> job[t].email] \in Job
    BY <2>1, JobFields DEF Reading, Job, AddressJob
  <2> QED
    BY <1>9, <2>2, BeginEffect, ReturnEffect DEF CheckOtp, TypeOK
<1>10. ASSUME NEW t \in Threads, ReadSession(t) PROVE TypeOK'
  <2>1. job[t] \in Job /\ job[t].at = "read_session"
    BY <1>10 DEF ReadSession, TypeOK
  <2>2. job[t].token \in Tokens /\ job[t].email \in Emails
    BY <2>1, JobFields DEF Reading
  <2>3. CASE Live(job[t].token)
    <3>1. session[job[t].token] \in Session
      BY <2>2, <2>3 DEF Live, TypeOK
    <3>2. [at |-> "write_address", token |-> job[t].token,
                       email |-> job[t].email,
           base |-> session[job[t].token]] \in Job
      BY <2>2, <3>1 DEF Job, AddressJob
    <3> QED
      BY <1>10, <2>3, <3>2, BeginEffect DEF ReadSession, TypeOK
  <2> QED
    BY <1>10, <2>3, ReturnEffect DEF ReadSession, TypeOK
<1>11. ASSUME NEW t \in Threads, WriteAddress(t) PROVE TypeOK'
  <2>1. job[t] \in Job /\ job[t].at = "write_address"
    BY <1>11 DEF WriteAddress, TypeOK
  <2>2. job[t].token \in Tokens /\ WithAddress(job[t].base, job[t].email) \in Session
    BY <2>1, JobFields, SessionFields DEF Basing, Reading
  <2> QED
    BY <1>11, <2>2, PutEffect, ReturnEffect DEF WriteAddress, TypeOK
<1>13. ASSUME NEW t \in Threads, WriteVerified(t) PROVE TypeOK'
  <2>1. job[t] \in Job /\ job[t].at = "write_verified"
    BY <1>13 DEF WriteVerified, TypeOK
  <2>2. job[t].token \in Tokens /\ WithLink(job[t].base) \in Session
    BY <2>1, JobFields, SessionFields DEF Basing
  <2> QED
    BY <1>13, <2>2, PutEffect, ReturnEffect DEF WriteVerified, TypeOK
<1>14. ASSUME NEW t \in Threads, ReadAccount(t) PROVE TypeOK'
  <2>1. job[t] \in Job /\ job[t].at = "read_account"
    BY <1>14 DEF ReadAccount, TypeOK
  <2>2. job[t].token \in Tokens
    BY <2>1, JobFields
  <2>3. CASE Live(job[t].token) /\ session[job[t].token].address # Null
    <3>1. session[job[t].token] \in {s \in Session : s.address # Null}
      BY <2>2, <2>3 DEF Live, TypeOK
    <3>2. [at |-> "create_user", token |-> job[t].token,
           base |-> session[job[t].token]] \in Job
      BY <2>2, <3>1 DEF Job, UserJob
    <3> QED
      BY <1>14, <2>3, <3>2, BeginEffect DEF ReadAccount, TypeOK
  <2> QED
    BY <1>14, <2>3, ReturnEffect DEF ReadAccount, TypeOK
<1>15. ASSUME NEW t \in Threads, CreateUser(t) PROVE TypeOK'
  <2>1. job[t] \in Job /\ job[t].at = "create_user"
    BY <1>15 DEF CreateUser, TypeOK
  <2>2. job[t].token \in Tokens /\ job[t].base \in Session /\ job[t].base.address # Null
    BY <2>1, JobFields DEF Basing
  <2>3. NewUser(t) \in User
    BY <2>2, SessionFields DEF NewUser, User
  <2>4. [at |-> "delete_session", token |-> job[t].token] \in Job
    BY <2>2 DEF Job, UserJob
  <2>5. users' \in SUBSET User
    BY <1>15, <2>3 DEF CreateUser, TypeOK
  <2>6. job' \in [Threads -> Job]
    BY <1>15, <2>4, BeginEffect, ReturnEffect DEF CreateUser
  <2> QED
    BY <1>15, <2>5, <2>6 DEF CreateUser, TypeOK
<1>16. ASSUME NEW t \in Threads, DeleteSession(t) PROVE TypeOK'
  BY <1>16, ReturnEffect DEF DeleteSession, TypeOK
<1>17. ASSUME NEW t \in Threads, Abort(t) PROVE TypeOK'
  <2>1. job[t] \in Job
    BY DEF TypeOK
  <2>2. job[t].at = "delete_session" => job[t].token \in Tokens
    BY <2>1, JobFields
  <2> QED
    BY <1>17, <2>2, ReturnEffect DEF Abort, TypeOK
<1>18. ASSUME NEW k \in Tokens, Expire(k) PROVE TypeOK'
  BY <1>18 DEF Expire, TypeOK
<1> QED
  BY <1>1, <1>2, <1>3, <1>4, <1>5, <1>6, <1>7, <1>8, <1>9, <1>10, <1>11, <1>13,
     <1>14, <1>15, <1>16, <1>17, <1>18 DEF Next, Step

(* Every reachable state is well formed, in spite of sessions that are      *)
(* written back whole.                                                      *)
THEOREM TypeCorrect == Spec => []TypeOK
<1>1. Init => TypeOK
  BY DEF Init, TypeOK, Job
<1> QED
  BY <1>1, TypeStep, PTL DEF Spec
-----------------------------------------------------------------------------
(* What a step can do: to a handler, to a session, to the users.            *)

StartsOn(t) == Idle(t) /\ job'[t].token \in Tokens /\ Live(job'[t].token)
GoesOn(t, a) == job[t].at = a /\ job'[t].token = job[t].token
Reads(t) == Live(job'[t].token) /\ job'[t].base = session[job'[t].token]

\* How a handler gets to each of its steps.
Arrives(t) ==
    \/ job'[t].at \in {"idle", "store_session"}
    \/ /\ job'[t].at = "write_otp"
       /\ StartsOn(t) /\ Reads(t) /\ job'[t].token \in passed'
    \/ job'[t].at = "check_otp" /\ StartsOn(t)
    \/ /\ job'[t].at = "read_session"
       /\ GoesOn(t, "check_otp") /\ Live(job[t].token) /\ session[job[t].token].otp
    \/ job'[t].at = "write_address" /\ GoesOn(t, "read_session") /\ Reads(t)
    \/ /\ job'[t].at = "write_verified"
       /\ StartsOn(t) /\ Reads(t) /\ job'[t].token \in followed'
       /\ session[job'[t].token].otp \/ job'[t].token \in early'
    \/ job'[t].at = "read_account" /\ StartsOn(t) /\ session[job'[t].token].verified
    \/ job'[t].at = "create_user" /\ GoesOn(t, "read_account") /\ Reads(t)
    \/ job'[t].at = "delete_session" /\ GoesOn(t, "create_user")

LEMMA JobMoves ==
    ASSUME TypeOK, [Next]_vars, NEW t \in Threads, job'[t] # job[t]
    PROVE  Arrives(t)
<1> USE DEF Arrives
<1>1. CASE UNCHANGED vars
  BY <1>1 DEF vars
<1>2. ASSUME NEW u \in Threads, NEW m \in Mobiles, EnquireLookup(u, m) PROVE Arrives(t)
  <2>1. u = t
    BY <1>2, BeginEffect DEF EnquireLookup
  <2>2. job'[t] = [at |-> "store_session", mobile |-> m]
    BY <1>2, <2>1, BeginEffect DEF EnquireLookup
  <2> QED
    BY <1>2, <2>1, <2>2 DEF EnquireLookup, StartsOn, GoesOn, Reads
<1>3. ASSUME NEW u \in Threads, NEW i \in Tokens, StoreSession(u, i) PROVE Arrives(t)
  BY <1>3, ReturnEffect DEF StoreSession
<1>4. ASSUME NEW u \in Threads, NEW i \in Tokens, VerifyOtp(u, i) PROVE Arrives(t)
  <2>1. u = t
    BY <1>4, BeginEffect DEF VerifyOtp
  <2>2. job'[t] = [at |-> "write_otp", token |-> i, base |-> session[i]]
    BY <1>4, <2>1, BeginEffect DEF VerifyOtp
  <2> QED
    BY <1>4, <2>1, <2>2 DEF VerifyOtp, StartsOn, GoesOn, Reads
<1>5. ASSUME NEW u \in Threads, NEW i \in Tokens, NEW e \in Emails,
             AddressLookup(u, i, e)
      PROVE  Arrives(t)
  <2>1. u = t
    BY <1>5, BeginEffect DEF AddressLookup
  <2>2. job'[t] = [at |-> "check_otp", token |-> i, email |-> e]
    BY <1>5, <2>1, BeginEffect DEF AddressLookup
  <2> QED
    BY <1>5, <2>1, <2>2 DEF AddressLookup, StartsOn, GoesOn, Reads
<1>6. ASSUME NEW u \in Threads, NEW i \in Tokens, FollowLink(u, i) PROVE Arrives(t)
  <2>1. u = t
    BY <1>6, BeginEffect DEF FollowLink
  <2>2. job'[t] = [at |-> "write_verified", token |-> i, base |-> session[i]]
    BY <1>6, <2>1, BeginEffect DEF FollowLink
  <2> QED
    BY <1>6, <2>1, <2>2 DEF FollowLink, StartsOn, GoesOn, Reads
<1>7. ASSUME NEW u \in Threads, NEW i \in Tokens, CheckVerified(u, i) PROVE Arrives(t)
  <2>1. u = t
    BY <1>7, BeginEffect DEF CheckVerified
  <2>2. job'[t] = [at |-> "read_account", token |-> i]
    BY <1>7, <2>1, BeginEffect DEF CheckVerified
  <2> QED
    BY <1>7, <2>1, <2>2 DEF CheckVerified, StartsOn, GoesOn, Reads
<1>8. ASSUME NEW u \in Threads, WriteOtp(u) PROVE Arrives(t)
  BY <1>8, ReturnEffect DEF WriteOtp
<1>9. ASSUME NEW u \in Threads, CheckOtp(u) PROVE Arrives(t)
  <2>1. u = t
    BY <1>9, BeginEffect, ReturnEffect DEF CheckOtp
  <2>2. \/ job'[t].at = "idle"
        \/ /\ job'[t] = [at |-> "read_session", token |-> job[t].token,
                       email |-> job[t].email]
           /\ Live(job[t].token) /\ session[job[t].token].otp
    BY <1>9, <2>1, BeginEffect, ReturnEffect DEF CheckOtp
  <2> QED
    BY <1>9, <2>1, <2>2 DEF CheckOtp, StartsOn, GoesOn, Reads
<1>10. ASSUME NEW u \in Threads, ReadSession(u) PROVE Arrives(t)
  <2>1. u = t
    BY <1>10, BeginEffect, ReturnEffect DEF ReadSession
  <2>2. \/ job'[t].at = "idle"
        \/ /\ job'[t] = [at |-> "write_address", token |-> job[t].token,
                       email |-> job[t].email,
                      base |-> session[job[t].token]]
           /\ Live(job[t].token)
    BY <1>10, <2>1, BeginEffect, ReturnEffect DEF ReadSession
  <2> QED
    BY <1>10, <2>1, <2>2 DEF ReadSession, StartsOn, GoesOn, Reads
<1>11. ASSUME NEW u \in Threads, WriteAddress(u) PROVE Arrives(t)
  BY <1>11, ReturnEffect DEF WriteAddress
<1>13. ASSUME NEW u \in Threads, WriteVerified(u) PROVE Arrives(t)
  BY <1>13, ReturnEffect DEF WriteVerified
<1>14. ASSUME NEW u \in Threads, ReadAccount(u) PROVE Arrives(t)
  <2>1. u = t
    BY <1>14, BeginEffect, ReturnEffect DEF ReadAccount
  <2>2. \/ job'[t].at = "idle"
        \/ /\ job'[t] = [at |-> "create_user", token |-> job[t].token,
                      base |-> session[job[t].token]]
           /\ Live(job[t].token)
    BY <1>14, <2>1, BeginEffect, ReturnEffect DEF ReadAccount
  <2> QED
    BY <1>14, <2>1, <2>2 DEF ReadAccount, StartsOn, GoesOn, Reads
<1>15. ASSUME NEW u \in Threads, CreateUser(u) PROVE Arrives(t)
  <2>1. u = t
    BY <1>15, BeginEffect, ReturnEffect DEF CreateUser
  <2>2. \/ job'[t].at = "idle"
        \/ job'[t] = [at |-> "delete_session", token |-> job[t].token]
    BY <1>15, <2>1, BeginEffect, ReturnEffect DEF CreateUser
  <2> QED
    BY <1>15, <2>1, <2>2 DEF CreateUser, StartsOn, GoesOn, Reads
<1>16. ASSUME NEW u \in Threads, DeleteSession(u) PROVE Arrives(t)
  BY <1>16, ReturnEffect DEF DeleteSession
<1>17. ASSUME NEW u \in Threads, Abort(u) PROVE Arrives(t)
  BY <1>17, ReturnEffect DEF Abort
<1>18. ASSUME NEW i \in Tokens, Expire(i) PROVE Arrives(t)
  BY <1>18 DEF Expire
<1> QED
  BY <1>1, <1>2, <1>3, <1>4, <1>5, <1>6, <1>7, <1>8, <1>9, <1>10, <1>11, <1>13,
     <1>14, <1>15, <1>16, <1>17, <1>18 DEF Next, Step

\* The session under k is started, is gone, or is what a handler makes of its base.
Writes(t, k, s) ==
    /\ job[t].token = k
    /\ \/ job[t].at = "write_otp" /\ s = WithOtp(job[t].base)
       \/ job[t].at = "write_address" /\ s = WithAddress(job[t].base, job[t].email)
       \/ job[t].at = "write_verified" /\ s = WithLink(job[t].base)

Changes(k) ==
    \/ session'[k] = Null
    \/ /\ k \in issued' \ issued
       /\ \E m \in Mobiles : session'[k] = NewSession(m)
    \/ /\ \E t \in Threads : Writes(t, k, session'[k])
       /\ session[k] = Null => k \in astray'

LEMMA SessionMoves ==
    ASSUME TypeOK, [Next]_vars, NEW k \in Tokens, session'[k] # session[k]
    PROVE  Changes(k)
<1>1. CASE UNCHANGED vars
  BY <1>1 DEF vars
<1>2. ASSUME NEW u \in Threads, NEW i \in Tokens, StoreSession(u, i) PROVE Changes(k)
  <2>1. job[u].mobile \in Mobiles
    BY <1>2, JobFields DEF StoreSession, TypeOK
  <2> QED
    BY <1>2, <2>1 DEF StoreSession, TypeOK, Changes
<1>3. ASSUME NEW u \in Threads, WriteOtp(u) PROVE Changes(k)
  <2>1. job[u] \in Job
    BY DEF TypeOK
  <2>2. job[u].token \in Tokens /\ WithOtp(job[u].base) \in Session
    BY <1>3, <2>1, JobFields, SessionFields DEF WriteOtp, Basing, Reading
  <2>3. session'[job[u].token] = WithOtp(job[u].base)
    BY <1>3, <2>2, PutEffect DEF WriteOtp
  <2>4. k = job[u].token
    BY <1>3, <2>2, PutEffect DEF WriteOtp
  <2>5. Writes(u, k, session'[k])
    BY <1>3, <2>3, <2>4 DEF WriteOtp, Writes
  <2>6. session[k] = Null => k \in astray'
    BY <1>3, <2>2, <2>4, PutEffect DEF WriteOtp
  <2> QED
    BY <2>5, <2>6 DEF Changes
<1>4. ASSUME NEW u \in Threads, WriteAddress(u) PROVE Changes(k)
  <2>1. job[u] \in Job
    BY DEF TypeOK
  <2>2. job[u].token \in Tokens /\ WithAddress(job[u].base, job[u].email) \in Session
    BY <1>4, <2>1, JobFields, SessionFields DEF WriteAddress, Basing, Reading
  <2>3. session'[job[u].token] = WithAddress(job[u].base, job[u].email)
    BY <1>4, <2>2, PutEffect DEF WriteAddress
  <2>4. k = job[u].token
    BY <1>4, <2>2, PutEffect DEF WriteAddress
  <2>5. Writes(u, k, session'[k])
    BY <1>4, <2>3, <2>4 DEF WriteAddress, Writes
  <2>6. session[k] = Null => k \in astray'
    BY <1>4, <2>2, <2>4, PutEffect DEF WriteAddress
  <2> QED
    BY <2>5, <2>6 DEF Changes
<1>5. ASSUME NEW u \in Threads, WriteVerified(u) PROVE Changes(k)
  <2>1. job[u] \in Job
    BY DEF TypeOK
  <2>2. job[u].token \in Tokens /\ WithLink(job[u].base) \in Session
    BY <1>5, <2>1, JobFields, SessionFields DEF WriteVerified, Basing, Reading
  <2>3. session'[job[u].token] = WithLink(job[u].base)
    BY <1>5, <2>2, PutEffect DEF WriteVerified
  <2>4. k = job[u].token
    BY <1>5, <2>2, PutEffect DEF WriteVerified
  <2>5. Writes(u, k, session'[k])
    BY <1>5, <2>3, <2>4 DEF WriteVerified, Writes
  <2>6. session[k] = Null => k \in astray'
    BY <1>5, <2>2, <2>4, PutEffect DEF WriteVerified
  <2> QED
    BY <2>5, <2>6 DEF Changes
<1>6. ASSUME NEW u \in Threads, DeleteSession(u) PROVE Changes(k)
  BY <1>6 DEF DeleteSession, TypeOK, Changes
<1>7. ASSUME NEW i \in Tokens, Expire(i) PROVE Changes(k)
  BY <1>7 DEF Expire, TypeOK, Changes
<1> QED
  BY <1>1, <1>2, <1>3, <1>4, <1>5, <1>6, <1>7 DEF Next, Step, EnquireLookup, VerifyOtp,
     AddressLookup, FollowLink, CheckVerified, CheckOtp, ReadSession, ReadAccount,
     CreateUser, Abort

\* What is recorded stays recorded.
LEMMA Grows ==
    ASSUME TypeOK, [Next]_vars
    PROVE  /\ issued \subseteq issued'
           /\ passed \subseteq passed'
           /\ followed \subseteq followed'
           /\ astray \subseteq astray'
           /\ users \subseteq users'
           /\ early \subseteq early'
BY DEF Next, Step, vars, history, EnquireLookup, StoreSession, VerifyOtp, AddressLookup,
       FollowLink, CheckVerified, WriteOtp, CheckOtp, ReadSession, WriteAddress,
       WriteVerified, ReadAccount, CreateUser, DeleteSession, Abort, Expire, Put

\* A user is made by a handler that goes on to delete the session.
LEMMA UserMoves ==
    ASSUME TypeOK, [Next]_vars, NEW u \in users', u \notin users
    PROVE  \E t \in Threads :
              /\ job[t].at = "create_user"
              /\ ~Taken(job[t].base)
              /\ u = NewUser(t)
              /\ users' = users \cup {u}
              /\ job'[t].at = "delete_session"
              /\ job'[t].token = job[t].token
<1>1. PICK t \in Threads : CreateUser(t)
  BY DEF Next, Step, vars, EnquireLookup, StoreSession, VerifyOtp, AddressLookup,
       FollowLink, CheckVerified, WriteOtp, CheckOtp, ReadSession, WriteAddress,
       WriteVerified, ReadAccount, DeleteSession, Abort, Expire
<1>2. /\ ~Taken(job[t].base)
      /\ users' = users \cup {NewUser(t)}
      /\ Begin(t, [at |-> "delete_session", token |-> job[t].token])
  BY <1>1 DEF CreateUser
<1>3. job'[t] = [at |-> "delete_session", token |-> job[t].token]
  BY <1>2, BeginEffect
<1>4. job'[t].at = "delete_session" /\ job'[t].token = job[t].token
  BY <1>3
<1>5. job[t].at = "create_user"
  BY <1>1 DEF CreateUser
<1>6. u = NewUser(t)
  BY <1>2
<1> QED
  BY <1>2, <1>4, <1>5, <1>6

\* A handler leaves the deletion with the session gone or the token marked.
LEMMA DeletionEnds ==
    ASSUME TypeOK, [Next]_vars, NEW t \in Threads, job[t].at = "delete_session",
           job'[t] # job[t]
    PROVE  session'[job[t].token] = Null \/ job[t].token \in astray'
<1>0. job[t].token \in Tokens
  BY JobFields DEF TypeOK
<1>1. DeleteSession(t) \/ Abort(t)
  <2>1. CASE UNCHANGED vars
    BY <2>1 DEF vars
  <2>2. ASSUME NEW u \in Threads, NEW m \in Mobiles, EnquireLookup(u, m) PROVE FALSE
    BY <2>2, BeginEffect DEF EnquireLookup, Idle
  <2>3. ASSUME NEW u \in Threads, NEW i \in Tokens, StoreSession(u, i) PROVE FALSE
    BY <2>3, ReturnEffect DEF StoreSession
  <2>4. ASSUME NEW u \in Threads, NEW i \in Tokens, VerifyOtp(u, i) PROVE FALSE
    BY <2>4, BeginEffect DEF VerifyOtp, Idle
  <2>5. ASSUME NEW u \in Threads, NEW i \in Tokens, NEW e \in Emails,
               AddressLookup(u, i, e)
        PROVE  FALSE
    BY <2>5, BeginEffect DEF AddressLookup, Idle
  <2>6. ASSUME NEW u \in Threads, NEW i \in Tokens, FollowLink(u, i) PROVE FALSE
    BY <2>6, BeginEffect DEF FollowLink, Idle
  <2>7. ASSUME NEW u \in Threads, NEW i \in Tokens, CheckVerified(u, i) PROVE FALSE
    BY <2>7, BeginEffect DEF CheckVerified, Idle
  <2>8. ASSUME NEW u \in Threads, WriteOtp(u) PROVE FALSE
    BY <2>8, ReturnEffect DEF WriteOtp
  <2>9. ASSUME NEW u \in Threads, CheckOtp(u) PROVE FALSE
    BY <2>9, BeginEffect, ReturnEffect DEF CheckOtp
  <2>10. ASSUME NEW u \in Threads, ReadSession(u) PROVE FALSE
    BY <2>10, BeginEffect, ReturnEffect DEF ReadSession
  <2>11. ASSUME NEW u \in Threads, WriteAddress(u) PROVE FALSE
    BY <2>11, ReturnEffect DEF WriteAddress
  <2>13. ASSUME NEW u \in Threads, WriteVerified(u) PROVE FALSE
    BY <2>13, ReturnEffect DEF WriteVerified
  <2>14. ASSUME NEW u \in Threads, ReadAccount(u) PROVE FALSE
    BY <2>14, BeginEffect, ReturnEffect DEF ReadAccount
  <2>15. ASSUME NEW u \in Threads, CreateUser(u) PROVE FALSE
    BY <2>15, BeginEffect, ReturnEffect DEF CreateUser
  <2>16. ASSUME NEW u \in Threads, DeleteSession(u) \/ Abort(u) PROVE u = t
    BY <2>16, ReturnEffect DEF DeleteSession, Abort
  <2>17. ASSUME NEW i \in Tokens, Expire(i) PROVE FALSE
    BY <2>17 DEF Expire
  <2> QED
    BY <2>1, <2>2, <2>3, <2>4, <2>5, <2>6, <2>7, <2>8, <2>9, <2>10, <2>11, <2>13,
       <2>14, <2>15, <2>16, <2>17 DEF Next, Step
<1> QED
  BY <1>0, <1>1 DEF DeleteSession, Abort, TypeOK

-----------------------------------------------------------------------------
(* What was proved.  What a session says, in Redis or in the hands of a     *)
(* handler that is about to write it, has happened; an address is there     *)
(* only after the code.                                                     *)

Earned(k, s) ==
    /\ s.otp \/ s.address # Null => k \in passed
    /\ s.verified => k \in followed

SessionsEarned == \A k \in Tokens : Live(k) => Earned(k, session[k])

JobEarned(t) ==
    /\ job[t].at \in {"write_otp", "read_session", "write_address"} =>
          job[t].token \in passed
    /\ job[t].at \in {"write_verified", "read_account", "create_user"} =>
          job[t].token \in followed
    /\ job[t].at \in Basing => Earned(job[t].token, job[t].base)

EarnedInv ==
    /\ TypeOK
    /\ SessionsEarned
    /\ \A t \in Threads : JobEarned(t)
    /\ UserIsVerified

LEMMA EarnedStep == EarnedInv /\ [Next]_vars => EarnedInv'
<1> SUFFICES ASSUME EarnedInv, [Next]_vars PROVE EarnedInv'
  OBVIOUS
<1>0. TypeOK /\ TypeOK'
  BY TypeStep DEF EarnedInv
<1>1. passed \subseteq passed' /\ followed \subseteq followed' /\ users \subseteq users'
  BY <1>0, Grows
<1>2. SessionsEarned'
  <2> SUFFICES ASSUME NEW k \in Tokens, session'[k] # Null
               PROVE  Earned(k, session[k])'
    BY DEF SessionsEarned, Live
  <2>1. CASE session'[k] = session[k]
    BY <2>1, <1>1 DEF EarnedInv, SessionsEarned, Live, Earned
  <2>2. CASE \E m \in Mobiles : session'[k] = NewSession(m)
    BY <2>2, NewSessionFields DEF Earned
  <2>3. ASSUME NEW t \in Threads, Writes(t, k, session'[k])
        PROVE  Earned(k, session[k])'
    <3>1. job[t] \in Job /\ JobEarned(t)
      BY <1>0 DEF TypeOK, EarnedInv
    <3>2. job[t].at \in Basing /\ job[t].token = k
      BY <2>3 DEF Writes, Basing
    <3>3. job[t].base \in Session /\ Earned(k, job[t].base)
      BY <3>1, <3>2, JobFields DEF JobEarned
    <3>4. CASE job[t].at = "write_otp"
      <4>1. session'[k] = WithOtp(job[t].base) /\ k \in passed
        BY <2>3, <3>1, <3>4 DEF Writes, JobEarned
      <4> QED
        BY <4>1, <3>3, <1>1, SessionFields DEF Earned
    <3>5. CASE job[t].at = "write_address"
      <4>1. /\ session'[k] = WithAddress(job[t].base, job[t].email)
            /\ k \in passed
            /\ job[t].email \in Emails
        BY <2>3, <3>1, <3>5, JobFields DEF Writes, JobEarned
      <4> QED
        BY <4>1, <3>3, <1>1, SessionFields DEF Earned
    <3>6. CASE job[t].at = "write_verified"
      <4>1. session'[k] = WithLink(job[t].base) /\ k \in followed
        BY <2>3, <3>1, <3>6 DEF Writes, JobEarned
      <4> QED
        BY <4>1, <3>3, <1>1, SessionFields DEF Earned
    <3> QED
      BY <2>3, <3>4, <3>5, <3>6 DEF Writes
  <2> QED
    BY <1>0, <2>1, <2>2, <2>3, SessionMoves DEF Changes
<1>3. ASSUME NEW t \in Threads PROVE JobEarned(t)'
  <2>1. CASE job'[t] = job[t]
    BY <2>1, <1>1 DEF EarnedInv, JobEarned, Earned
  <2>2. CASE job'[t] # job[t]
    <3>1. JobEarned(t) /\ Arrives(t)
      BY <1>0, <2>2, JobMoves DEF EarnedInv
    <3>2. job'[t].at \in Basing =>
             job'[t].token \in Tokens /\ Earned(job'[t].token, job'[t].base)
      <4>1. job'[t] \in Job
        BY <1>0 DEF TypeOK
      <4>2. job'[t].at \in Basing => job'[t].token \in Tokens /\ Reads(t)
        BY <3>1, <4>1, JobFields DEF Arrives, Basing
      <4> QED
        BY <4>2 DEF Reads, EarnedInv, SessionsEarned
    <3>3. job'[t].at = "read_session" =>
             job[t].token \in passed /\ job'[t].token = job[t].token
      <4>1. job'[t].at = "read_session" => job[t].at = "check_otp"
        BY <3>1 DEF Arrives, GoesOn
      <4>2. job[t].at = "check_otp" => job[t].token \in Tokens
        BY <1>0, JobFields DEF TypeOK
      <4> QED
        BY <3>1, <4>1, <4>2 DEF Arrives, GoesOn, EarnedInv, SessionsEarned, Earned
    <3>4. job'[t].at = "read_account" => job'[t].token \in followed
      BY <3>1 DEF Arrives, StartsOn, EarnedInv, SessionsEarned, Earned
    <3>5. job'[t].at \in {"write_otp", "write_address"} => job'[t].token \in passed'
      BY <3>1, <1>1 DEF Arrives, GoesOn, JobEarned
    <3>6. job'[t].at \in {"write_verified", "create_user"} => job'[t].token \in followed'
      BY <3>1, <1>1 DEF Arrives, GoesOn, JobEarned
    <3> QED
      BY <1>1, <3>2, <3>3, <3>4, <3>5, <3>6 DEF JobEarned, Earned
  <2> QED
    BY <2>1, <2>2
<1>4. UserIsVerified'
  <2> SUFFICES ASSUME NEW u \in users' PROVE u.token \in passed' /\ u.token \in followed'
    BY DEF UserIsVerified
  <2>1. CASE u \in users
    BY <2>1, <1>1 DEF EarnedInv, UserIsVerified
  <2>2. CASE u \notin users
    <3>1. PICK t \in Threads : job[t].at = "create_user" /\ u = NewUser(t)
      BY <1>0, <2>2, UserMoves
    <3>2. u.token = job[t].token
      BY <3>1 DEF NewUser
    <3>3. job[t].base.address # Null
      BY <1>0, <3>1, JobFields DEF TypeOK
    <3>4. JobEarned(t)
      BY DEF EarnedInv
    <3> QED
      BY <1>1, <3>1, <3>2, <3>3, <3>4 DEF JobEarned, Earned, Basing
  <2> QED
    BY <2>1, <2>2
<1> QED
  BY <1>0, <1>2, <1>3, <1>4 DEF EarnedInv

(* A user's session had its code entered and one of its links followed.     *)
THEOREM UsersAreVerified == Spec => []UserIsVerified
<1>1. Init => EarnedInv
  BY DEF Init, EarnedInv, TypeOK, Job, SessionsEarned, Live, JobEarned, UserIsVerified,
         IdleJob, Basing
<1>2. EarnedInv => UserIsVerified
  BY DEF EarnedInv
<1> QED
  BY <1>1, <1>2, EarnedStep, PTL DEF Spec

-----------------------------------------------------------------------------
(* Tokens.  A token is issued before anything refers to it, hence a session *)
(* that starts disturbs nothing.                                            *)

JobIssued(t) == job[t].at \notin {"idle", "store_session"} => job[t].token \in issued

IssuedInv ==
    /\ TypeOK
    /\ \A k \in Tokens : Live(k) => k \in issued
    /\ \A t \in Threads : JobIssued(t)
    /\ \A u \in users : u.token \in issued

LEMMA IssuedStep == IssuedInv /\ [Next]_vars => IssuedInv'
<1> SUFFICES ASSUME IssuedInv, [Next]_vars PROVE IssuedInv'
  OBVIOUS
<1>0. TypeOK /\ TypeOK'
  BY TypeStep DEF IssuedInv
<1>1. issued \subseteq issued'
  BY <1>0, Grows
<1>2. ASSUME NEW k \in Tokens, Live(k)' PROVE k \in issued'
  <2>1. CASE session'[k] = session[k]
    BY <1>1, <1>2, <2>1 DEF IssuedInv, Live
  <2>3. CASE \E t \in Threads : Writes(t, k, session'[k])
    BY <1>1, <2>3 DEF Writes, IssuedInv, JobIssued
  <2> QED
    BY <1>0, <1>2, <2>1, <2>3, SessionMoves DEF Changes, Live
<1>3. ASSUME NEW t \in Threads PROVE JobIssued(t)'
  <2>1. CASE job'[t] = job[t]
    BY <1>1, <2>1 DEF IssuedInv, JobIssued
  <2>2. CASE job'[t] # job[t]
    <3>1. JobIssued(t) /\ Arrives(t)
      BY <1>0, <2>2, JobMoves DEF IssuedInv
    <3>2. StartsOn(t) => job'[t].token \in issued
      BY DEF StartsOn, IssuedInv
    <3> QED
      BY <1>1, <3>1, <3>2 DEF Arrives, GoesOn, JobIssued
  <2> QED
    BY <2>1, <2>2
<1>4. ASSUME NEW u \in users' PROVE u.token \in issued'
  <2>1. CASE u \in users
    BY <1>1, <2>1 DEF IssuedInv
  <2>2. CASE u \notin users
    <3>1. PICK t \in Threads : job[t].at = "create_user" /\ u = NewUser(t)
      BY <1>0, <2>2, UserMoves
    <3>2. u.token = job[t].token
      BY <3>1 DEF NewUser
    <3> QED
      BY <1>1, <3>1, <3>2 DEF IssuedInv, JobIssued
  <2> QED
    BY <2>1, <2>2
<1> QED
  BY <1>0, <1>2, <1>3, <1>4 DEF IssuedInv

LEMMA InitIssued == Init => IssuedInv
BY DEF Init, IssuedInv, TypeOK, Job, Live, JobIssued, IdleJob

-----------------------------------------------------------------------------
(* The code.  Unless a link is followed early, what a handler of an address *)
(* has found entered stays so: every base that will be written says it,     *)
(* whatever is deleted or expires meanwhile.                                *)

Found(k) ==
    \E t \in Threads : job[t].at \in {"read_session", "write_address"} /\ job[t].token = k

OtpInv ==
    /\ IssuedInv
    /\ \A k \in Tokens \ early : Found(k) /\ Live(k) => session[k].otp
    /\ \A t \in Threads :
          /\ job[t].at \in {"write_address", "write_verified"}
          /\ job[t].token \notin early
          => job[t].base.otp

\* Every write of a handler says that the code was entered.
LEMMA WritesSayOtp ==
    ASSUME OtpInv, NEW t \in Threads, NEW k \in Tokens \ early, NEW s, Writes(t, k, s)
    PROVE  s.otp
<1>1. job[t] \in Job /\ job[t].token = k
  BY DEF OtpInv, IssuedInv, TypeOK, Writes
<1>2. job[t].base \in Session
  BY <1>1, JobFields DEF Writes, Basing
<1>3. CASE job[t].at = "write_otp"
  BY <1>2, <1>3, SessionFields DEF Writes
<1>4. CASE job[t].at = "write_address"
  <2>1. job[t].email \in Emails /\ job[t].base.otp
    BY <1>1, <1>4, JobFields DEF OtpInv
  <2> QED
    BY <1>2, <1>4, <2>1, SessionFields DEF Writes
<1>5. CASE job[t].at = "write_verified"
  <2>1. job[t].base.otp
    BY <1>1, <1>5 DEF OtpInv
  <2> QED
    BY <1>2, <1>5, <2>1, SessionFields DEF Writes
<1> QED
  BY <1>3, <1>4, <1>5 DEF Writes

\* What is found was found before, or its session says so.
LEMMA FoundMoves ==
    ASSUME TypeOK, [Next]_vars, NEW k \in Tokens, Found(k)'
    PROVE  Found(k) \/ (Live(k) /\ session[k].otp)
<1>1. PICK t \in Threads :
         job'[t].token = k /\ job'[t].at \in {"read_session", "write_address"}
  BY DEF Found
<1>2. CASE job'[t] = job[t]
  BY <1>1, <1>2 DEF Found
<1>3. CASE job'[t] # job[t]
  BY <1>1, <1>3, JobMoves DEF Arrives, GoesOn, Found
<1> QED
  BY <1>2, <1>3

LEMMA OtpStep == OtpInv /\ [Next]_vars => OtpInv'
<1> SUFFICES ASSUME OtpInv, [Next]_vars PROVE OtpInv'
  OBVIOUS
<1>0. IssuedInv /\ IssuedInv' /\ TypeOK /\ TypeOK' /\ early \subseteq early'
  BY IssuedStep, Grows DEF OtpInv, IssuedInv
<1>1. ASSUME NEW k \in Tokens, k \notin early', Found(k)', Live(k)' PROVE session'[k].otp
  <2>1. Found(k) \/ (Live(k) /\ session[k].otp)
    BY <1>0, <1>1, FoundMoves
  <2>2. CASE session'[k] = session[k]
    BY <1>0, <1>1, <2>1, <2>2 DEF OtpInv, Live
  <2>3. CASE session'[k] # session[k]
    <3>1. k \in issued
      BY <1>0, <2>1 DEF Found, IssuedInv, JobIssued
    <3>2. PICK t \in Threads : Writes(t, k, session'[k])
      BY <1>0, <1>1, <2>3, <3>1, SessionMoves DEF Changes, Live
    <3> QED
      BY <1>0, <1>1, <3>2, WritesSayOtp
  <2> QED
    BY <2>2, <2>3
<1>2. ASSUME NEW t \in Threads, job'[t].at \in {"write_address", "write_verified"},
             job'[t].token \notin early'
      PROVE  job'[t].base.otp
  <2>1. CASE job'[t] = job[t]
    BY <1>0, <1>2, <2>1 DEF OtpInv
  <2>2. CASE job'[t] # job[t]
    <3>1. Arrives(t)
      BY <1>0, <2>2, JobMoves
    <3>2. job'[t].token \in Tokens /\ Reads(t)
      BY <1>0, <1>2, <3>1, JobFields DEF Arrives, TypeOK
    <3>3. CASE job'[t].at = "write_verified"
      BY <1>2, <3>1, <3>2, <3>3 DEF Arrives, Reads
    <3>4. CASE job'[t].at = "write_address"
      <4>1. Found(job'[t].token)
        BY <3>1, <3>4 DEF Arrives, GoesOn, Found
      <4> QED
        BY <1>0, <1>2, <3>2, <4>1 DEF Reads, OtpInv
    <3> QED
      BY <1>2, <3>3, <3>4
  <2> QED
    BY <2>1, <2>2
<1> QED
  BY <1>0, <1>1, <1>2 DEF OtpInv

LEMMA InitOtp == Init => OtpInv
BY InitIssued DEF Init, OtpInv, Live, IdleJob

(* No step of any handler undoes the entry of the code, as long as no link  *)
(* is followed before it.                                                   *)
THEOREM OtpIsKept == Spec => OtpStays
<1>1. ASSUME OtpInv, [Next]_vars, NEW k \in Tokens \ early,
             Live(k), session[k].otp, Live(k)'
      PROVE  session'[k].otp
  <2>1. CASE session'[k] = session[k]
    BY <1>1, <2>1
  <2>2. CASE session'[k] # session[k]
    <3>1. k \in issued
      BY <1>1 DEF OtpInv, IssuedInv
    <3>2. PICK t \in Threads : Writes(t, k, session'[k])
      BY <1>1, <2>2, <3>1, SessionMoves DEF OtpInv, IssuedInv, Changes, Live
    <3> QED
      BY <1>1, <3>2, WritesSayOtp
  <2> QED
    BY <2>1, <2>2
<1>2. OtpInv /\ [Next]_vars =>
         [\A k \in Tokens \ early : Live(k) /\ session[k].otp =>
             ~Live(k)' \/ session'[k].otp]_vars
  BY <1>1
<1> QED
  BY <1>2, InitOtp, OtpStep, PTL DEF Spec, OtpStays

-----------------------------------------------------------------------------
(* The verification.  Run registration_link shows it undone by a handler    *)
(* that writes back what it read before the link was followed.  Nothing     *)
(* else undoes it: when the handlers between the read and the write of one  *)
(* session take turns, what they read is what is there when they write,     *)
(* unless the session is gone by then.                                      *)

Writing == {"write_otp", "write_address", "write_verified"}

TurnsPerSession ==
    \A t, u \in Threads :
       (t # u /\ job[t].at \in Writing /\ job[u].at \in Writing) => job[t].token # job[u].token

BaseIsCurrent ==
    \A t \in Threads :
       (job[t].at \in Writing /\ Live(job[t].token)) => session[job[t].token] = job[t].base

CurrentInv == IssuedInv /\ BaseIsCurrent

\* A handler that writes a session leaves the write behind.
LEMMA WriteEnds ==
    ASSUME TypeOK, [Next]_vars, NEW k \in Tokens, session'[k] # session[k], session'[k] # Null,
           k \in issued
    PROVE  \E t \in Threads : Writes(t, k, session'[k]) /\ job'[t].at \notin Writing
<1>1. ASSUME NEW u \in Threads, WriteOtp(u) \/ WriteVerified(u)
      PROVE  Writes(u, k, session'[k]) /\ job'[u].at \notin Writing
  <2>1. job[u].token = k
    BY <1>1 DEF WriteOtp, WriteVerified, Put, TypeOK
  <2>2. Writes(u, k, session'[k])
    BY <1>1, <2>1 DEF WriteOtp, WriteVerified, Put, TypeOK, Writes
  <2>3. job'[u].at = "idle"
    BY <1>1, ReturnEffect DEF WriteOtp, WriteVerified
  <2> QED
    BY <2>2, <2>3 DEF Writing
<1>2. ASSUME NEW u \in Threads, WriteAddress(u)
      PROVE  Writes(u, k, session'[k]) /\ job'[u].at \notin Writing
  <2>1. job[u].token = k
    BY <1>2 DEF WriteAddress, Put, TypeOK
  <2>2. Writes(u, k, session'[k])
    BY <1>2, <2>1 DEF WriteAddress, Put, TypeOK, Writes
  <2>3. job'[u].at = "idle"
    BY <1>2, ReturnEffect DEF WriteAddress
  <2> QED
    BY <2>2, <2>3 DEF Writing
<1>3. ASSUME NEW u \in Threads, NEW i \in Tokens, StoreSession(u, i) PROVE FALSE
  BY <1>3 DEF StoreSession, TypeOK
<1>4. ASSUME NEW u \in Threads, DeleteSession(u) PROVE FALSE
  BY <1>4 DEF DeleteSession, TypeOK
<1>5. ASSUME NEW i \in Tokens, Expire(i) PROVE FALSE
  BY <1>5 DEF Expire, TypeOK
<1>6. \E u \in Threads : WriteOtp(u) \/ WriteVerified(u) \/ WriteAddress(u)
  BY <1>3, <1>4, <1>5 DEF Next, Step, vars, EnquireLookup, VerifyOtp, AddressLookup,
     FollowLink, CheckVerified, CheckOtp, ReadSession, ReadAccount, CreateUser, Abort
<1> QED
  BY <1>1, <1>2, <1>6

\* No session changes while a handler reads one.
LEMMA ReadsAlone ==
    ASSUME TypeOK, [Next]_vars, NEW t \in Threads, job'[t] # job[t], job'[t].at \in Writing
    PROVE  session' = session
<1>1. ASSUME NEW u \in Threads, NEW i \in Tokens, StoreSession(u, i) PROVE FALSE
  BY <1>1, ReturnEffect DEF StoreSession, Writing
<1>2. ASSUME NEW u \in Threads, WriteOtp(u) \/ WriteVerified(u) \/ DeleteSession(u)
      PROVE  FALSE
  BY <1>2, ReturnEffect DEF WriteOtp, WriteVerified, DeleteSession, Writing
<1>3. ASSUME NEW u \in Threads, WriteAddress(u) PROVE FALSE
  BY <1>3, ReturnEffect DEF WriteAddress, Writing
<1>4. ASSUME NEW i \in Tokens, Expire(i) PROVE FALSE
  BY <1>4 DEF Expire
<1> QED
  BY <1>1, <1>2, <1>3, <1>4 DEF Next, Step, vars, EnquireLookup, VerifyOtp, AddressLookup,
     FollowLink, CheckVerified, CheckOtp, ReadSession, ReadAccount, CreateUser, Abort

LEMMA CurrentStep == CurrentInv /\ TurnsPerSession /\ [Next]_vars => CurrentInv'
<1> SUFFICES ASSUME CurrentInv, TurnsPerSession, [Next]_vars PROVE CurrentInv'
  OBVIOUS
<1>0. IssuedInv /\ IssuedInv' /\ TypeOK /\ TypeOK'
  BY IssuedStep DEF CurrentInv, IssuedInv
<1>1. ASSUME NEW t \in Threads, job'[t].at \in Writing, session'[job'[t].token] # Null
      PROVE  session'[job'[t].token] = job'[t].base
  <2>1. CASE job'[t] = job[t]
    <3>1. job[t].token \in Tokens /\ job[t].token \in issued
      BY <1>0, <1>1, <2>1, JobFields DEF TypeOK, Writing, Basing, IssuedInv, JobIssued
    <3>2. CASE session'[job[t].token] = session[job[t].token]
      BY <1>1, <2>1, <3>2 DEF CurrentInv, BaseIsCurrent, Live
    <3>3. CASE session'[job[t].token] # session[job[t].token]
      <4>1. PICK u \in Threads : /\ Writes(u, job[t].token, session'[job[t].token])
                                 /\ job'[u].at \notin Writing
        BY <1>0, <1>1, <2>1, <3>1, <3>3, WriteEnds
      <4>2. u # t /\ job[u].at \in Writing /\ job[u].token = job[t].token
        BY <1>1, <4>1 DEF Writes, Writing
      <4> QED
        BY <1>1, <2>1, <4>2 DEF TurnsPerSession
    <3> QED
      BY <3>2, <3>3
  <2>2. CASE job'[t] # job[t]
    <3>1. Reads(t)
      BY <1>0, <1>1, <2>2, JobMoves DEF Arrives, Writing
    <3>2. session' = session
      BY <1>0, <1>1, <2>2, ReadsAlone
    <3> QED
      BY <3>1, <3>2 DEF Reads
  <2> QED
    BY <2>1, <2>2
<1> QED
  BY <1>0, <1>1 DEF CurrentInv, BaseIsCurrent, Live

(* When the writes of one session take turns, none undoes the verification. *)
THEOREM TurnsKeepVerification == Spec /\ []TurnsPerSession => VerificationStays
<1>1. ASSUME CurrentInv, [Next]_vars, NEW k \in Tokens, Live(k), session[k].verified, Live(k)'
      PROVE  session'[k].verified
  <2>1. CASE session'[k] = session[k]
    BY <1>1, <2>1
  <2>2. CASE session'[k] # session[k]
    <3>1. PICK t \in Threads : Writes(t, k, session'[k])
      BY <1>1, <2>2, SessionMoves DEF CurrentInv, IssuedInv, Changes, Live
    <3>2. job[t].at \in Writing /\ job[t].token = k
      BY <3>1 DEF Writes, Writing
    <3>3. job[t].base = session[k] /\ job[t].base \in Session
      BY <1>1, <3>2 DEF CurrentInv, BaseIsCurrent, IssuedInv, TypeOK, Live
    <3>4. job[t].at = "write_address" => job[t].email \in Emails
      BY <1>1, JobFields DEF CurrentInv, IssuedInv, TypeOK
    <3> QED
      BY <1>1, <3>1, <3>3, <3>4, SessionFields, LinkVerifies DEF Writes
  <2> QED
    BY <2>1, <2>2
<1>2. CurrentInv /\ [Next]_vars =>
         [\A k \in Tokens : Live(k) /\ session[k].verified =>
             ~Live(k)' \/ session'[k].verified]_vars
  BY <1>1
<1>3. Init => CurrentInv
  BY InitIssued DEF Init, CurrentInv, BaseIsCurrent, IdleJob, Writing
<1> QED
  BY <1>2, <1>3, CurrentStep, PTL DEF Spec, VerificationStays

-----------------------------------------------------------------------------
(* One user.  All that is ever said of a token names the number it was      *)
(* issued for, and the column of numbers is unique.                         *)

Names(k, m) ==
    /\ Live(k) => session[k].mobile = m
    /\ \A t \in Threads : job[t].at \in Basing /\ job[t].token = k => job[t].base.mobile = m
    /\ \A u \in users : u.token = k => u.mobile = m

MobileInv ==
    /\ IssuedInv
    /\ \A k \in Tokens : \E m : Names(k, m)
    /\ OneUserPerSession

LEMMA MobileStep == MobileInv /\ [Next]_vars => MobileInv'
<1> SUFFICES ASSUME MobileInv, [Next]_vars PROVE MobileInv'
  OBVIOUS
<1>0. IssuedInv /\ IssuedInv' /\ TypeOK /\ TypeOK'
  BY IssuedStep DEF MobileInv, IssuedInv
<1>1. ASSUME NEW k \in Tokens PROVE \E m : Names(k, m)'
  <2>1. PICK m : Names(k, m)
    BY DEF MobileInv
  <2>2. ASSUME NEW t \in Threads, job'[t].at \in Basing, job'[t].token = k
        PROVE  job'[t].base.mobile = m
    <3>1. CASE job'[t] = job[t]
      BY <2>1, <2>2, <3>1 DEF Names
    <3>2. CASE job'[t] # job[t]
      <4>1. Reads(t)
        BY <1>0, <2>2, <3>2, JobMoves DEF Arrives, Basing
      <4> QED
        BY <2>1, <2>2, <4>1 DEF Reads, Names
    <3> QED
      BY <3>1, <3>2
  <2>3. ASSUME NEW u \in users', u.token = k PROVE u.mobile = m
    <3>1. CASE u \in users
      BY <2>1, <2>3, <3>1 DEF Names
    <3>2. CASE u \notin users
      <4>1. PICK t \in Threads : job[t].at = "create_user" /\ u = NewUser(t)
        BY <1>0, <3>2, UserMoves
      <4>2. u.token = job[t].token /\ u.mobile = job[t].base.mobile
        BY <4>1 DEF NewUser
      <4> QED
        BY <2>1, <2>3, <4>1, <4>2 DEF Names, Basing
    <3> QED
      BY <3>1, <3>2
  <2>4. CASE Live(k)' => session'[k].mobile = m
    BY <2>2, <2>3, <2>4 DEF Names
  <2>5. CASE Live(k)' /\ session'[k].mobile # m
    <3>1. session'[k] # session[k] /\ session'[k] # Null
      BY <2>1, <2>5 DEF Names, Live
    <3>2. ASSUME NEW t \in Threads, Writes(t, k, session'[k]) PROVE FALSE
      <4>1. job[t] \in Job /\ job[t].at \in Basing /\ job[t].token = k
        BY <1>0, <3>2 DEF Writes, TypeOK, Basing
      <4>2. /\ job[t].base \in Session
            /\ job[t].base.mobile = m
            /\ job[t].at = "write_address" => job[t].email \in Emails
        BY <2>1, <4>1, JobFields DEF Names
      <4>3. session'[k].mobile = job[t].base.mobile
        BY <3>2, <4>2, SessionFields DEF Writes
      <4> QED
        BY <2>5, <4>2, <4>3
    <3>3. k \notin issued
      BY <1>0, <3>1, <3>2, SessionMoves DEF Changes
    <3>4. ASSUME NEW t \in Threads, job'[t].at \in Basing PROVE job'[t].token # k
      <4>1. CASE job'[t] = job[t]
        BY <1>0, <3>3, <3>4, <4>1 DEF IssuedInv, JobIssued, Basing
      <4>2. CASE job'[t] # job[t]
        <5>1. job'[t].token = k => Live(k)
          BY <1>0, <3>4, <4>2, JobMoves DEF Arrives, Reads, Basing
        <5> QED
          BY <1>0, <3>3, <5>1 DEF IssuedInv
      <4> QED
        BY <4>1, <4>2
    <3>5. ASSUME NEW u \in users' PROVE u.token # k
      <4>1. CASE u \in users
        BY <1>0, <3>3, <4>1 DEF IssuedInv
      <4>2. CASE u \notin users
        <5>1. PICK t \in Threads : job[t].at = "create_user" /\ u = NewUser(t)
          BY <1>0, <4>2, UserMoves
        <5>2. u.token = job[t].token
          BY <5>1 DEF NewUser
        <5> QED
          BY <1>0, <3>3, <5>1, <5>2 DEF IssuedInv, JobIssued
      <4> QED
        BY <4>1, <4>2
    <3> QED
      BY <3>4, <3>5 DEF Names
  <2> QED
    BY <2>4, <2>5
<1>2. OneUserPerSession'
  <2> SUFFICES ASSUME NEW u \in users', NEW v \in users', u.token = v.token, u # v
               PROVE  FALSE
    BY DEF OneUserPerSession
  <2>1. CASE u \in users /\ v \in users
    BY <2>1 DEF MobileInv, OneUserPerSession
  <2>2. ASSUME NEW w \in users', w \notin users, NEW x \in users', x # w, x.token = w.token
        PROVE  FALSE
    <3>1. PICK t \in Threads :
             /\ job[t].at = "create_user"
             /\ ~Taken(job[t].base)
             /\ w = NewUser(t)
             /\ users' = users \cup {w}
      BY <1>0, <2>2, UserMoves
    <3>2. w.token = job[t].token
      BY <3>1 DEF NewUser
    <3>3. job[t].token \in Tokens
      BY <1>0, <3>1, JobFields DEF TypeOK
    <3>4. PICK m : Names(job[t].token, m)
      BY <3>3 DEF MobileInv
    <3>5. x \in users
      BY <2>2, <3>1
    <3>6. x.mobile = job[t].base.mobile
      BY <2>2, <3>1, <3>2, <3>4, <3>5 DEF Names, Basing
    <3> QED
      BY <3>1, <3>5, <3>6 DEF Taken
  <2> QED
    BY <2>1, <2>2
<1> QED
  BY <1>0, <1>1, <1>2 DEF MobileInv

(* A session makes one user at most.                                        *)
THEOREM SessionsMakeOneUser == Spec => []OneUserPerSession
<1>1. Init => MobileInv
  BY InitIssued DEF Init, MobileInv, Names, Live, IdleJob, Basing, OneUserPerSession
<1>2. MobileInv => OneUserPerSession
  BY DEF MobileInv
<1> QED
  BY <1>1, <1>2, MobileStep, PTL DEF Spec

-----------------------------------------------------------------------------
(* The end of a session.                                                    *)

EndInv == IssuedInv /\ SessionEndsWithUser

LEMMA EndStep == EndInv /\ [Next]_vars => EndInv'
<1> SUFFICES ASSUME EndInv, [Next]_vars PROVE EndInv'
  OBVIOUS
<1>0. IssuedInv /\ IssuedInv' /\ TypeOK /\ TypeOK'
  BY IssuedStep DEF EndInv, IssuedInv
<1>1. astray \subseteq astray'
  BY <1>0, Grows
<1>2. ASSUME NEW u \in users', session'[u.token] # Null
      PROVE  \/ \E t \in Threads : job'[t].at = "delete_session" /\ job'[t].token = u.token
             \/ u.token \in astray'
  <2>1. CASE u \notin users
    <3>1. PICK t \in Threads : /\ u = NewUser(t)
                               /\ job'[t].at = "delete_session"
                               /\ job'[t].token = job[t].token
      BY <1>0, <2>1, UserMoves
    <3>2. u.token = job[t].token
      BY <3>1 DEF NewUser
    <3> QED
      BY <3>1, <3>2
  <2>2. CASE u \in users /\ session[u.token] # Null
    <3>1. CASE u.token \in astray
      BY <1>1, <3>1
    <3>2. CASE u.token \notin astray
      <4>1. PICK t \in Threads : job[t].at = "delete_session" /\ job[t].token = u.token
        BY <2>2, <3>2 DEF EndInv, SessionEndsWithUser, Live
      <4>2. CASE job'[t] = job[t]
        BY <4>1, <4>2
      <4>3. CASE job'[t] # job[t]
        BY <1>0, <1>2, <4>1, <4>3, DeletionEnds
      <4> QED
        BY <4>2, <4>3
    <3> QED
      BY <3>1, <3>2
  <2>3. CASE u \in users /\ session[u.token] = Null
    <3>1. u.token \in issued /\ u.token \in Tokens
      BY <1>0, <2>3 DEF IssuedInv, TypeOK
    <3> QED
      BY <1>0, <1>2, <2>3, <3>1, SessionMoves DEF Changes
  <2> QED
    BY <2>1, <2>2, <2>3
<1> QED
  BY <1>0, <1>2 DEF EndInv, SessionEndsWithUser, Live

(* The session of a user stays only by a cut or by a late write.            *)
THEOREM SessionsEnd == Spec => []SessionEndsWithUser
<1>1. Init => EndInv
  BY InitIssued DEF Init, EndInv, SessionEndsWithUser
<1>2. EndInv => SessionEndsWithUser
  BY DEF EndInv
<1> QED
  BY <1>1, <1>2, EndStep, PTL DEF Spec
=============================================================================
