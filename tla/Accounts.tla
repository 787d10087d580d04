------------------------------ MODULE Accounts ------------------------------
(***************************************************************************)
(* The accounts of userservice: login, logout, the profile, and the resets *)
(* of a password and of a device.                                          *)
(*                                                                         *)
(* Every HTTP request is a call, served by a thread of its own.  A call is *)
(* made once and names what it brings: the token a login issues, the code  *)
(* a reset sends, the password or the device a request carries.  As in the *)
(* other modules a query, an update and a cache call are each a step, and  *)
(* calls interleave between them.  Wrong passwords and wrong codes are     *)
(* refused and change nothing, so they are not steps.                      *)
(***************************************************************************)
EXTENDS Naturals, FiniteSets

CONSTANTS Users,
          BvnUsers,   \* those whose reg_mode is Bvn: their password is kept here
          Calls,
          MaxRunning, \* bound: calls served at the same time
          Null

VARIABLES password,  \* User.password, by the call that brought it; Null from registration
          devices,   \* table UserDevices, by the call that inserted the row
          reset,     \* cache entry password:reset:{email_address}
          deviceOtp, \* cache entry user.device_reset.{mobile_number}
          blacklist, \* cache entry blacklisted_tokens
          seen,      \* users with a cache entry last_seen:{id}
          call,      \* what each call asks for; fixed when it starts
          at,        \* the statement each call runs next, or how it ended
          kept,      \* the password a profile update found at its authentication
          listed     \* the blacklist a logout read

vars == <<password, devices, reset, deviceOtp, blacklist, seen, call, at, kept, listed>>

-----------------------------------------------------------------------------
Kinds == {"login", "logout", "update", "change_password",
          "reset", "confirm", "finalize", "device_reset", "device_finalize"}

\* with: the token of an authenticated request, or the code that is entered;
\* before: history, the calls that had ended when this one started.
Call == [kind : Kinds, user : Users, with : Calls \cup {Null}, before : SUBSET Calls]
ResetEntry == [code : Calls, validated : BOOLEAN, limited : BOOLEAN]

Ended == {"answered", "failed"}
Running == {"check_device", "put_device", "insert_device", "sign", "mark_seen", "authorize",
            "read_list", "write_list", "write_profile", "store_code", "confirm_code",
            "set_password", "delete_code", "store_otp", "drop_otp"}

\* Null is no call and no entry.
ASSUME AccountsAssumption ==
    /\ BvnUsers \subseteq Users
    /\ Null \notin Calls \cup Call \cup ResetEntry

TypeOK ==
    /\ password \in [Users -> Calls \cup {Null}]
    /\ devices \in [Calls -> Calls \cup {Null}]
    /\ reset \in [Users -> ResetEntry \cup {Null}]
    /\ deviceOtp \in [Users -> Calls \cup {Null}]
    /\ blacklist \in SUBSET Calls
    /\ seen \in SUBSET Users
    /\ call \in [Calls -> Call \cup {Null}]
    /\ at \in [Calls -> Running \cup Ended \cup {"new"}]
    /\ kept \in [Calls -> Calls \cup {Null}]
    /\ listed \in [Calls -> SUBSET Calls]

Init ==
    /\ password = [u \in Users |-> Null]
    /\ devices = [c \in Calls |-> Null]
    /\ reset = [u \in Users |-> Null]
    /\ deviceOtp = [u \in Users |-> Null]
    /\ blacklist = {}
    /\ seen = {}
    /\ call = [c \in Calls |-> Null]
    /\ at = [c \in Calls |-> "new"]
    /\ kept = [c \in Calls |-> Null]
    /\ listed = [c \in Calls |-> {}]

-----------------------------------------------------------------------------
Is(c, kinds) == call[c] # Null /\ call[c].kind \in kinds
Answered(c, kinds) == Is(c, kinds) /\ at[c] = "answered"
Tokens == {c \in Calls : Answered(c, {"login"})}
DevicesOf(u) == {c \in Calls : devices[c] # Null /\ call[c].user = u}

\* The device that call c brings: a reset names it when it is initiated.
Brings(c) == IF call[c].kind = "login" THEN c ELSE call[c].with

\* Call c starts on behalf of u, with a token or a code, at statement first.
Start(c, k, u, w, first) ==
    /\ call[c] = Null
    /\ Cardinality({d \in Calls : at[d] \in Running}) < MaxRunning
    /\ call' = [call EXCEPT ![c] = [kind |-> k, user |-> u, with |-> w,
                                    before |-> {d \in Calls : at[d] \in Ended}]]
    /\ at' = [at EXCEPT ![c] = first]

GoTo(c, a) == at' = [at EXCEPT ![c] = a]

-----------------------------------------------------------------------------
(* Login (AuthenticationService.perform_local_auth) by the right password.  *)
(* The position and last_login are written to columns of their own.         *)

Login(c, u) ==
    /\ Start(c, "login", u, Null, "check_device")
    /\ UNCHANGED <<password, devices, reset, deviceOtp, blacklist, seen, kept, listed>>

\* Definitions marked "Mutant" are faulty variants that nothing here uses: each
\* shows that a property below notices the fault.
\* Mutant: every login brings its device.
PutAtEveryLogin(c) ==
    /\ at[c] = "check_device"
    /\ GoTo(c, "put_device")
    /\ UNCHANGED <<password, devices, reset, deviceOtp, blacklist, seen, call, kept, listed>>

\* A login brings a device only to a user who has none.
CheckDevice(c) ==
    /\ at[c] = "check_device"
    /\ GoTo(c, IF DevicesOf(call[c].user) = {} THEN "put_device" ELSE "sign")
    /\ UNCHANGED <<password, devices, reset, deviceOtp, blacklist, seen, call, kept, listed>>

AfterDevice(c) == IF call[c].kind = "login" THEN "sign" ELSE "drop_otp"

\* Mutant: a new row for every device.
PutNewDevice(c) ==
    /\ at[c] = "put_device"
    /\ GoTo(c, "insert_device")
    /\ UNCHANGED <<password, devices, reset, deviceOtp, blacklist, seen, call, kept, listed>>

\* update_or_create locks the one row it finds and updates it; it raises if it finds
\* more.  Without a row there is nothing to lock, and the insert is a later statement.
PutDevice(c) ==
    /\ at[c] = "put_device"
    /\ LET mine == DevicesOf(call[c].user) IN
       \/ mine = {} /\ GoTo(c, "insert_device") /\ UNCHANGED devices
       \/ \E d \in mine :
             /\ mine = {d}
             /\ devices' = [devices EXCEPT ![d] = Brings(c)]
             /\ GoTo(c, AfterDevice(c))
       \/ \E d, e \in mine : d # e /\ GoTo(c, "failed") /\ UNCHANGED devices
    /\ UNCHANGED <<password, reset, deviceOtp, blacklist, seen, call, kept, listed>>

InsertDevice(c) ==
    /\ at[c] = "insert_device"
    /\ devices' = [devices EXCEPT ![c] = Brings(c)]
    /\ GoTo(c, AfterDevice(c))
    /\ UNCHANGED <<password, reset, deviceOtp, blacklist, seen, call, kept, listed>>

\* The token of a login is good once the response has it.
Sign(c) ==
    /\ at[c] = "sign"
    /\ GoTo(c, "answered")
    /\ UNCHANGED <<password, devices, reset, deviceOtp, blacklist, seen, call, kept, listed>>

-----------------------------------------------------------------------------
(* A request with a token is authenticated (JSONWebTokenAuthentication),    *)
(* which reads the user and marks the user as seen, and then authorized     *)
(* (IsTokenBlackListed).  A token that was logged out still marks its user. *)

Authenticate(c, k, token) ==
    /\ token \in Tokens
    /\ Start(c, k, call[token].user, token, "mark_seen")
    /\ kept' = [kept EXCEPT ![c] = password[call[token].user]]
    /\ UNCHANGED <<password, devices, reset, deviceOtp, blacklist, seen, listed>>

MarkSeen(c) ==
    /\ at[c] = "mark_seen"
    /\ seen' = seen \cup {call[c].user}
    /\ GoTo(c, "authorize")
    /\ UNCHANGED <<password, devices, reset, deviceOtp, blacklist, call, kept, listed>>

Authorize(c) ==
    /\ at[c] = "authorize"
    /\ GoTo(c, IF call[c].with \in blacklist THEN "failed"
               ELSE IF call[c].kind = "logout" THEN "read_list" ELSE "write_profile")
    /\ UNCHANGED <<password, devices, reset, deviceOtp, blacklist, seen, call, kept, listed>>

\* The key last_seen ends after LAST_SEEN_CACHE_TTL.
ExpireSeen(u) ==
    /\ u \in seen
    /\ seen' = seen \ {u}
    /\ UNCHANGED <<password, devices, reset, deviceOtp, blacklist, call, at, kept, listed>>

-----------------------------------------------------------------------------
(* Logout (AuthenticationService.logout_user): the list is read, extended   *)
(* and stored as a whole, for ever.                                         *)

ReadList(c) ==
    /\ at[c] = "read_list"
    /\ IF call[c].with \in blacklist
       THEN GoTo(c, "failed") /\ UNCHANGED listed
       ELSE GoTo(c, "write_list") /\ listed' = [listed EXCEPT ![c] = blacklist]
    /\ UNCHANGED <<password, devices, reset, deviceOtp, blacklist, seen, call, kept>>

\* Mutant: the list of a logout holds the tokens of its own user's session alone.
WriteOwnToken(c) ==
    /\ at[c] = "write_list"
    /\ blacklist' = {call[c].with}
    /\ GoTo(c, "answered")
    /\ UNCHANGED <<password, devices, reset, deviceOtp, seen, call, kept, listed>>

WriteList(c) ==
    /\ at[c] = "write_list"
    /\ blacklist' = listed[c] \cup {call[c].with}
    /\ GoTo(c, "answered")
    /\ UNCHANGED <<password, devices, reset, deviceOtp, seen, call, kept, listed>>

-----------------------------------------------------------------------------
(* The profile (UserProfileSerializer.update).  Without a new password the  *)
(* one that the authentication read is written back; the picture and the    *)
(* address go the same way.  Bank users have no password to change.         *)

\* Mutant: the password that is written back is the one from registration.
WriteProfileAnew(c) ==
    /\ at[c] = "write_profile"
    /\ password' = IF call[c].user \in BvnUsers
                   THEN [password EXCEPT ![call[c].user] =
                           IF call[c].kind = "change_password" THEN c ELSE Null]
                   ELSE password
    /\ GoTo(c, "answered")
    /\ UNCHANGED <<devices, reset, deviceOtp, blacklist, seen, call, kept, listed>>

WriteProfile(c) ==
    /\ at[c] = "write_profile"
    /\ password' = IF call[c].user \in BvnUsers
                   THEN [password EXCEPT ![call[c].user] =
                           IF call[c].kind = "change_password" THEN c ELSE kept[c]]
                   ELSE password
    /\ GoTo(c, "answered")
    /\ UNCHANGED <<devices, reset, deviceOtp, blacklist, seen, call, kept, listed>>

-----------------------------------------------------------------------------
(* The reset of a password: a code is stored and mailed, entered, and used. *)
(* A mail or a text that is not sent ends the call after its one write.     *)

InitiateReset(c, u) ==
    /\ u \in BvnUsers
    /\ Start(c, "reset", u, Null, "store_code")
    /\ UNCHANGED <<password, devices, reset, deviceOtp, blacklist, seen, kept, listed>>

\* Mutant: a code that is still there is not replaced.
StoreFirstCode(c) ==
    /\ at[c] = "store_code"
    /\ reset' = [reset EXCEPT ![call[c].user] =
                   IF @ # Null THEN @
                   ELSE [code |-> c, validated |-> FALSE, limited |-> TRUE]]
    /\ GoTo(c, "answered")
    /\ UNCHANGED <<password, devices, deviceOtp, blacklist, seen, call, kept, listed>>

StoreCode(c) ==
    /\ at[c] = "store_code"
    /\ reset' = [reset EXCEPT ![call[c].user] =
                   [code |-> c, validated |-> FALSE, limited |-> TRUE]]
    /\ GoTo(c, "answered")
    /\ UNCHANGED <<password, devices, deviceOtp, blacklist, seen, call, kept, listed>>

\* The half hour of a code that was not entered is over.
ExpireCode(u) ==
    /\ reset[u] # Null
    /\ reset[u].limited
    /\ reset' = [reset EXCEPT ![u] = Null]
    /\ UNCHANGED <<password, devices, deviceOtp, blacklist, seen, call, at, kept, listed>>

ConfirmLookup(c, u) ==
    /\ reset[u] # Null
    /\ Start(c, "confirm", u, reset[u].code, "confirm_code")
    /\ UNCHANGED <<password, devices, reset, deviceOtp, blacklist, seen, kept, listed>>

\* Stores the code that was read, without a time limit, whatever is there by now.
ConfirmCode(c) ==
    /\ at[c] = "confirm_code"
    /\ reset' = [reset EXCEPT ![call[c].user] =
                   [code |-> call[c].with, validated |-> TRUE, limited |-> FALSE]]
    /\ GoTo(c, "answered")
    /\ UNCHANGED <<password, devices, deviceOtp, blacklist, seen, call, kept, listed>>

\* Whoever finalizes sends the address and the new password, not the code.
FinalizeLookup(c, u) ==
    /\ reset[u] # Null
    /\ reset[u].validated
    /\ Start(c, "finalize", u, reset[u].code, "set_password")
    /\ UNCHANGED <<password, devices, reset, deviceOtp, blacklist, seen, kept, listed>>

SetPassword(c) ==
    /\ at[c] = "set_password"
    /\ password' = [password EXCEPT ![call[c].user] = c]
    /\ GoTo(c, "delete_code")
    /\ UNCHANGED <<devices, reset, deviceOtp, blacklist, seen, call, kept, listed>>

\* Mutant: the code stays until its time is over.
KeepCode(c) ==
    /\ at[c] = "delete_code"
    /\ GoTo(c, "answered")
    /\ UNCHANGED <<password, devices, reset, deviceOtp, blacklist, seen, call, kept, listed>>

\* Deletes whatever entry there is, also that of a later reset.
DeleteCode(c) ==
    /\ at[c] = "delete_code"
    /\ reset' = [reset EXCEPT ![call[c].user] = Null]
    /\ GoTo(c, "answered")
    /\ UNCHANGED <<password, devices, deviceOtp, blacklist, seen, call, kept, listed>>

-----------------------------------------------------------------------------
(* The reset of the device, confirmed by a code sent to the phone.          *)

InitiateDeviceReset(c, u) ==
    /\ Start(c, "device_reset", u, Null, "store_otp")
    /\ UNCHANGED <<password, devices, reset, deviceOtp, blacklist, seen, kept, listed>>

\* Mutant: the entry holds the number it is filed under.
StoreNumber(c) ==
    /\ at[c] = "store_otp"
    /\ deviceOtp' = [deviceOtp EXCEPT ![call[c].user] = call[c].user]
    /\ GoTo(c, "answered")
    /\ UNCHANGED <<password, devices, reset, blacklist, seen, call, kept, listed>>

StoreOtp(c) ==
    /\ at[c] = "store_otp"
    /\ deviceOtp' = [deviceOtp EXCEPT ![call[c].user] = c]
    /\ GoTo(c, "answered")
    /\ UNCHANGED <<password, devices, reset, blacklist, seen, call, kept, listed>>

ExpireOtp(u) ==
    /\ deviceOtp[u] # Null
    /\ deviceOtp' = [deviceOtp EXCEPT ![u] = Null]
    /\ UNCHANGED <<password, devices, reset, blacklist, seen, call, at, kept, listed>>

FinalizeDeviceLookup(c, u) ==
    /\ deviceOtp[u] # Null
    /\ Start(c, "device_finalize", u, deviceOtp[u], "put_device")
    /\ UNCHANGED <<password, devices, reset, deviceOtp, blacklist, seen, kept, listed>>

DropOtp(c) ==
    /\ at[c] = "drop_otp"
    /\ deviceOtp' = [deviceOtp EXCEPT ![call[c].user] = Null]
    /\ GoTo(c, "answered")
    /\ UNCHANGED <<password, devices, reset, blacklist, seen, call, kept, listed>>

-----------------------------------------------------------------------------
\* A call ends half-way: the database, Redis, a mail or SMS service fails, or the
\* process dies.
Abort(c) ==
    /\ at[c] \in Running
    /\ GoTo(c, "failed")
    /\ UNCHANGED <<password, devices, reset, deviceOtp, blacklist, seen, call, kept, listed>>

Ask(c) ==
    \/ \E u \in Users :
         \/ Login(c, u)
         \/ InitiateReset(c, u)
         \/ ConfirmLookup(c, u)
         \/ FinalizeLookup(c, u)
         \/ InitiateDeviceReset(c, u)
         \/ FinalizeDeviceLookup(c, u)
    \/ \E k \in {"logout", "update", "change_password"}, token \in Tokens :
         Authenticate(c, k, token)

Step(c) ==
    \/ CheckDevice(c) \/ PutDevice(c) \/ InsertDevice(c) \/ Sign(c)
    \/ MarkSeen(c) \/ Authorize(c)
    \/ ReadList(c) \/ WriteList(c)
    \/ WriteProfile(c)
    \/ StoreCode(c) \/ ConfirmCode(c) \/ SetPassword(c) \/ DeleteCode(c)
    \/ StoreOtp(c) \/ DropOtp(c)

Next ==
    \/ \E c \in Calls : Ask(c) \/ Step(c) \/ Abort(c)
    \/ \E u \in Users : ExpireSeen(u) \/ ExpireCode(u) \/ ExpireOtp(u)

Spec == Init /\ [][Next]_vars

-----------------------------------------------------------------------------
\* Two calls overlapped: each started before the other had ended.
Overlap(c, d) == c # d /\ c \notin call[d].before /\ d \notin call[c].before

(* Who has been logged out stays out: the token of an answered logout is on *)
(* the list, unless another logout overlapped and stored the list it had    *)
(* read before.                                                             *)
LoggedOutStaysListed ==
    \A c \in Calls : Answered(c, {"logout"}) =>
       \/ call[c].with \in blacklist
       \/ \E d \in Calls : Is(d, {"logout"}) /\ Overlap(c, d)

(* A new password stays until the next one: it is replaced by a call that   *)
(* brings a password and had not ended before, or undone by a profile       *)
(* update that overlapped and wrote back what it had read.                  *)
NewPasswordStays ==
    \A c \in Calls :
       (Answered(c, {"change_password", "finalize"}) /\ call[c].user \in BvnUsers) =>
          \/ password[call[c].user] = c
          \/ \E d \in Calls \ {c} :
               /\ Is(d, {"change_password", "finalize", "update"})
               /\ call[d].user = call[c].user
               /\ d \notin call[c].before
               /\ Is(d, {"update"}) => Overlap(c, d)

(* A code that was mailed once resets a password once: a second reset by    *)
(* the same code overlapped the first, or the code was confirmed again      *)
(* while one of them ran and the late write brought it back.                *)
OneResetPerCode ==
    \A c, d \in Calls :
       (/\ c # d
        /\ Answered(c, {"finalize"}) /\ Answered(d, {"finalize"})
        /\ call[c].with = call[d].with) =>
          \/ Overlap(c, d)
          \/ \E v \in Calls : /\ Is(v, {"confirm"})
                              /\ call[v].with = call[c].with
                              /\ Overlap(v, c) \/ Overlap(v, d)

(* The code that was sent last is the one that counts: if another is        *)
(* stored, it was sent later, or was confirmed by a call that overlapped    *)
(* the sending and put back the code it had read.                           *)
NewestCodeCounts ==
    \A c \in Calls :
       LET u == call[c].user IN
       (Answered(c, {"reset"}) /\ reset[u] # Null) =>
          \/ reset[u].code = c
          \/ \E d \in Calls \ {c} :
               /\ Is(d, {"reset", "confirm"})
               /\ call[d].user = u
               /\ d \notin call[c].before
               /\ Is(d, {"confirm"}) => Overlap(c, d)

(* A user has one device, which is what the reset of a device relies on: a  *)
(* second row comes only from two calls that overlapped, neither of which   *)
(* found a row to lock.                                                     *)
OnlyOverlapDoublesDevices ==
    \A c, d \in Calls :
       (devices[c] # Null /\ devices[d] # Null /\ c # d /\ call[c].user = call[d].user)
          => Overlap(c, d)

(* A device that was reset stays the user's device however often the user   *)
(* logs in with another: only the next reset replaces it, or a login that   *)
(* overlapped.                                                              *)
ResetDeviceStays ==
    \A c \in Calls : Answered(c, {"device_finalize"}) =>
       \/ \E d \in DevicesOf(call[c].user) : devices[d] = call[c].with
       \/ \E d \in Calls \ {c} :
            /\ Is(d, {"login", "device_finalize"})
            /\ call[d].user = call[c].user
            /\ d \notin call[c].before
            /\ Is(d, {"login"}) => Overlap(c, d)
=============================================================================
