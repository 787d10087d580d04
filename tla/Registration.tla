---------------------------- MODULE Registration ----------------------------
(***************************************************************************)
(* Registration of a user: AccountManagerService and the serializers in    *)
(* front of it.                                                            *)
(*                                                                         *)
(* What a person has proved so far is a session, one value under a token   *)
(* in Redis.  Each handler reads the session, often more than once, and    *)
(* writes it back whole; a write may therefore undo what another handler   *)
(* wrote since the read, or bring back a session that is gone.  Both ways  *)
(* to register, by BVN and by bank account, share these handlers.  The     *)
(* answer to the enquiry holds the token, so that the link can be followed *)
(* at any time; what is mailed and texted is left out.                     *)
(*                                                                         *)
(* A handler runs in a thread; each access to Redis, to the table of users *)
(* and to the mail is a step.  A refusal changes nothing but the thread.   *)
(***************************************************************************)
CONSTANTS Tokens,   \* the tokens of sessions, each issued once
          Mobiles,
          Emails,   \* the spellings of addresses
          Lower,    \* the lower-case spelling of each
          Threads,
          Null      \* no session, no address

VARIABLES session,   \* the session under each token
          issued,    \* the tokens in use
          users,     \* the table of users; token is a history field
          passed,    \* history: tokens whose code was entered
          followed,  \* history: tokens whose link was followed
          early,     \* history: tokens whose link was followed before the code
          astray,    \* history: tokens whose session was written back after its
                     \* end, or whose deletion was cut
          job        \* the handler each thread runs

vars == <<session, issued, users, passed, followed, early, astray, job>>

-----------------------------------------------------------------------------
Session == [mobile : Mobiles,
            otp : BOOLEAN,                \* is_otp_verified
            address : Emails \cup {Null}, \* email_address
            verified : BOOLEAN,           \* is_email_verified
            limited : BOOLEAN]            \* the entry has a time limit
User == [email : Emails, mobile : Mobiles, token : Tokens]

IdleJob == [at |-> "idle"]
StoreJob == [at : {"store_session"}, mobile : Mobiles]
OtpJob == [at : {"write_otp"}, token : Tokens, base : Session]
AddressJob == [at : {"check_otp", "read_session"}, token : Tokens, email : Emails]
              \cup [at : {"write_address"}, token : Tokens, email : Emails, base : Session]
LinkJob == [at : {"write_verified"}, token : Tokens, base : Session]
UserJob == [at : {"read_account", "delete_session"}, token : Tokens]
           \cup [at : {"create_user"}, token : Tokens,
                 base : {s \in Session : s.address # Null}]
Job == {IdleJob} \cup StoreJob \cup OtpJob \cup AddressJob \cup LinkJob \cup UserJob

ASSUME RegistrationAssumption ==
    /\ Lower \in [Emails -> Emails]
    /\ Null \notin Session
    /\ Null \notin Emails

TypeOK ==
    /\ session \in [Tokens -> Session \cup {Null}]
    /\ issued \in SUBSET Tokens
    /\ users \in SUBSET User
    /\ passed \in SUBSET Tokens
    /\ followed \in SUBSET Tokens
    /\ early \in SUBSET Tokens
    /\ astray \in SUBSET Tokens
    /\ job \in [Threads -> Job]

Init ==
    /\ session = [k \in Tokens |-> Null]
    /\ issued = {}
    /\ users = {}
    /\ passed = {}
    /\ followed = {}
    /\ early = {}
    /\ astray = {}
    /\ job = [t \in Threads |-> IdleJob]

-----------------------------------------------------------------------------
Live(k) == session[k] # Null
Idle(t) == job[t].at = "idle"
Begin(t, j) == job' = [job EXCEPT ![t] = j]
Return(t) == Begin(t, IdleJob)
history == <<passed, followed, early, astray>>

\* A new session, and what each handler changes in the one it has read.
NewSession(m) == [mobile |-> m, otp |-> FALSE, address |-> Null,
                  verified |-> FALSE, limited |-> TRUE]
WithOtp(s) == [s EXCEPT !.otp = TRUE, !.limited = TRUE]
WithAddress(s, e) == [s EXCEPT !.address = e, !.limited = TRUE]
WithLink(s) == [s EXCEPT !.verified = TRUE, !.limited = FALSE]

\* CacheManager.set_key: the session is written whole, with or without a time limit.
Put(k, s) ==
    /\ session' = [session EXCEPT ![k] = s]
    /\ astray' = IF Live(k) THEN astray ELSE astray \cup {k}

-----------------------------------------------------------------------------
(* The enquiry: the mobile number is new, the session starts.               *)

EnquireLookup(t, m) ==
    /\ Idle(t)
    /\ \A u \in users : u.mobile # m
    /\ Begin(t, [at |-> "store_session", mobile |-> m])
    /\ UNCHANGED <<session, issued, users, history>>

\* Definitions marked "Mutant" are faulty variants that nothing here uses: each
\* shows that a property below notices the fault.
\* Mutant: an enquiry that is repeated starts the session of its number anew.
StoreSessionAnew(t, k) ==
    /\ job[t].at = "store_session"
    /\ k \in issued => Live(k) /\ session[k].mobile = job[t].mobile
    /\ session' = [session EXCEPT ![k] = NewSession(job[t].mobile)]
    /\ issued' = issued \cup {k}
    /\ Return(t)
    /\ UNCHANGED <<users, history>>

StoreSession(t, k) ==
    /\ job[t].at = "store_session"
    /\ k \notin issued
    /\ session' = [session EXCEPT ![k] = NewSession(job[t].mobile)]
    /\ issued' = issued \cup {k}
    /\ Return(t)
    /\ UNCHANGED <<users, history>>

-----------------------------------------------------------------------------
(* The code sent to the mobile number; a wrong one is refused.              *)

VerifyOtp(t, k) ==
    /\ Idle(t)
    /\ Live(k)
    /\ passed' = passed \cup {k}
    /\ Begin(t, [at |-> "write_otp", token |-> k, base |-> session[k]])
    /\ UNCHANGED <<session, issued, users, followed, early, astray>>

WriteOtp(t) ==
    /\ job[t].at = "write_otp"
    /\ Put(job[t].token, WithOtp(job[t].base))
    /\ Return(t)
    /\ UNCHANGED <<issued, users, passed, followed, early>>

-----------------------------------------------------------------------------
(* Pre-registration: the address, to which a link is mailed.                *)

\* The users are searched for the lower-case spelling, and the address is stored as
\* it was typed.
AddressLookup(t, k, e) ==
    /\ Idle(t)
    /\ Live(k)
    /\ \A u \in users : u.email # Lower[e]
    /\ Begin(t, [at |-> "check_otp", token |-> k, email |-> e])
    /\ UNCHANGED <<session, issued, users, history>>

\* Mutant: the code is not asked for.
CheckLive(t) ==
    /\ job[t].at = "check_otp"
    /\ IF Live(job[t].token)
       THEN Begin(t, [at |-> "read_session", token |-> job[t].token,
                      email |-> job[t].email])
       ELSE Return(t)
    /\ UNCHANGED <<session, issued, users, history>>

CheckOtp(t) ==
    /\ job[t].at = "check_otp"
    /\ IF Live(job[t].token) /\ session[job[t].token].otp
       THEN Begin(t, [at |-> "read_session", token |-> job[t].token,
                      email |-> job[t].email])
       ELSE Return(t)
    /\ UNCHANGED <<session, issued, users, history>>

ReadSession(t) ==
    /\ job[t].at = "read_session"
    /\ IF Live(job[t].token)
       THEN Begin(t, [at |-> "write_address", token |-> job[t].token,
                      email |-> job[t].email, base |-> session[job[t].token]])
       ELSE Return(t)
    /\ UNCHANGED <<session, issued, users, history>>

WriteAddress(t) ==
    /\ job[t].at = "write_address"
    /\ Put(job[t].token, WithAddress(job[t].base, job[t].email))
    /\ Return(t)
    /\ UNCHANGED <<issued, users, passed, followed, early>>

-----------------------------------------------------------------------------
(* The link.  Any session there is can be verified by it, the code entered  *)
(* or not; what it leaves behind has no time limit.                         *)

FollowLink(t, k) ==
    /\ Idle(t)
    /\ Live(k)
    /\ followed' = followed \cup {k}
    /\ early' = IF session[k].otp THEN early ELSE early \cup {k}
    /\ Begin(t, [at |-> "write_verified", token |-> k, base |-> session[k]])
    /\ UNCHANGED <<session, issued, users, passed, astray>>

WriteVerified(t) ==
    /\ job[t].at = "write_verified"
    /\ Put(job[t].token, WithLink(job[t].base))
    /\ Return(t)
    /\ UNCHANGED <<issued, users, passed, followed, early>>

-----------------------------------------------------------------------------
(* Post-registration: the session becomes a user and is deleted.            *)

CheckVerified(t, k) ==
    /\ Idle(t)
    /\ Live(k) /\ session[k].verified
    /\ Begin(t, [at |-> "read_account", token |-> k])
    /\ UNCHANGED <<session, issued, users, history>>

\* A session without an address ends the handler.
ReadAccount(t) ==
    /\ job[t].at = "read_account"
    /\ IF Live(job[t].token) /\ session[job[t].token].address # Null
       THEN Begin(t, [at |-> "create_user", token |-> job[t].token,
                      base |-> session[job[t].token]])
       ELSE Return(t)
    /\ UNCHANGED <<session, issued, users, history>>

\* Mutant: only the address is unique.
TakenAddress(s) == \E u \in users : u.email = s.address

\* The columns email and mobile_number are unique.
Taken(s) == \E u \in users : u.email = s.address \/ u.mobile = s.mobile

NewUser(t) == [email |-> job[t].base.address, mobile |-> job[t].base.mobile,
               token |-> job[t].token]

\* Mutant: the session is left to its time limit.
CreateUserOnly(t) ==
    /\ job[t].at = "create_user"
    /\ users' = IF Taken(job[t].base) THEN users ELSE users \cup {NewUser(t)}
    /\ Return(t)
    /\ UNCHANGED <<session, issued, history>>

\* get_or_create, whether it finds the user or the insert fails.
CreateUser(t) ==
    /\ job[t].at = "create_user"
    /\ IF Taken(job[t].base)
       THEN Return(t) /\ UNCHANGED users
       ELSE /\ users' = users \cup {NewUser(t)}
            /\ Begin(t, [at |-> "delete_session", token |-> job[t].token])
    /\ UNCHANGED <<session, issued, history>>

\* Mutant: the entry is emptied.
ClearSession(t) ==
    /\ job[t].at = "delete_session"
    /\ session' = [session EXCEPT ![job[t].token] = <<>>]
    /\ Return(t)
    /\ UNCHANGED <<issued, users, history>>

DeleteSession(t) ==
    /\ job[t].at = "delete_session"
    /\ session' = [session EXCEPT ![job[t].token] = Null]
    /\ Return(t)
    /\ UNCHANGED <<issued, users, history>>

-----------------------------------------------------------------------------
\* The time limit of a session is up.
Expire(k) ==
    /\ Live(k) /\ session[k].limited
    /\ session' = [session EXCEPT ![k] = Null]
    /\ UNCHANGED <<issued, users, history, job>>

\* A handler ends at any statement.
Abort(t) ==
    /\ ~Idle(t)
    /\ astray' = IF job[t].at = "delete_session" THEN astray \cup {job[t].token} ELSE astray
    /\ Return(t)
    /\ UNCHANGED <<session, issued, users, passed, followed, early>>

Step(t) ==
    \/ \E k \in Tokens : StoreSession(t, k)
    \/ WriteOtp(t)
    \/ CheckOtp(t)
    \/ ReadSession(t)
    \/ WriteAddress(t)
    \/ WriteVerified(t)
    \/ ReadAccount(t)
    \/ CreateUser(t)
    \/ DeleteSession(t)

Next ==
    \/ \E t \in Threads :
          \/ \E m \in Mobiles : EnquireLookup(t, m)
          \/ \E k \in Tokens : VerifyOtp(t, k)
          \/ \E k \in Tokens, e \in Emails : AddressLookup(t, k, e)
          \/ \E k \in Tokens : FollowLink(t, k)
          \/ \E k \in Tokens : CheckVerified(t, k)
          \/ Step(t)
          \/ Abort(t)
    \/ \E k \in Tokens : Expire(k)

Spec == Init /\ [][Next]_vars

-----------------------------------------------------------------------------
(* Nobody becomes a user of a session whose code was not entered or none of *)
(* whose links was followed, although each check reads a session that other *)
(* handlers are about to overwrite.  (The link may have gone to an earlier  *)
(* address of the session: a new one leaves is_email_verified as it is.)    *)
UserIsVerified ==
    \A u \in users : u.token \in passed /\ u.token \in followed

(* A session makes one user at most, whatever addresses it went through.    *)
OneUserPerSession ==
    \A u, v \in users : u.token = v.token => u = v

(* The session of a user is gone, unless its deletion is to come or was     *)
(* cut, or another handler wrote it back.                                   *)
SessionEndsWithUser ==
    \A u \in users : Live(u.token) =>
       \/ \E t \in Threads : job[t].at = "delete_session" /\ job[t].token = u.token
       \/ u.token \in astray

(* The code need not be entered again: no write undoes is_otp_verified,     *)
(* although every write is that of a session read before.  A handler of an  *)
(* address has itself found the code entered; only a link that is followed  *)
(* before the code was entered can take the entry back.                     *)
OtpStays ==
    [][\A k \in Tokens \ early : Live(k) /\ session[k].otp =>
          ~Live(k)' \/ session'[k].otp]_vars

(* The page behind the link says that the address is verified and that the  *)
(* registration can go on; the next request is refused if another handler   *)
(* writes back what it read before.                                         *)
VerificationStays ==
    [][\A k \in Tokens : Live(k) /\ session[k].verified =>
          ~Live(k)' \/ session'[k].verified]_vars
=============================================================================
