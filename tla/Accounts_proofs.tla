--------------------------- MODULE Accounts_proofs ---------------------------
(***************************************************************************)
(* Theorems about Accounts, for any users and calls and any number of      *)
(* calls at once.                                                          *)
(***************************************************************************)
EXTENDS Accounts, TLAPS

-----------------------------------------------------------------------------
(* Which calls run which statements, and what they bring.                   *)

Suits(k, a) ==
    /\ a \in {"check_device", "sign"} => k = "login"
    /\ a \in {"put_device", "insert_device"} => k \in {"login", "device_finalize"}
    /\ a \in {"mark_seen", "authorize"} => k \in {"logout", "update", "change_password"}
    /\ a \in {"read_list", "write_list"} => k = "logout"
    /\ a = "write_profile" => k \in {"update", "change_password"}
    /\ a = "store_code" => k = "reset"
    /\ a = "confirm_code" => k = "confirm"
    /\ a \in {"set_password", "delete_code"} => k = "finalize"
    /\ a = "store_otp" => k = "device_reset"
    /\ a = "drop_otp" => k = "device_finalize"

Fits(c) ==
    /\ call[c] = Null <=> at[c] = "new"
    /\ call[c] # Null =>
         /\ Suits(call[c].kind, at[c])
         /\ call[c].kind \notin {"login", "reset", "device_reset"} => call[c].with \in Calls

\* Ended calls have ended for good.
Past(c) == call[c] # Null => \A d \in call[c].before : at[d] \in Ended

WellFormed ==
    /\ TypeOK
    /\ \A c \in Calls : Fits(c)
    /\ \A c \in Calls : Past(c)

-----------------------------------------------------------------------------
(* The two ways in which a call moves: it starts, or it goes on.            *)

LEMMA StartEffect ==
    ASSUME WellFormed, NEW c \in Calls, NEW k \in Kinds, NEW u \in Users,
           NEW w \in Calls \cup {Null}, NEW first \in Running,
           Start(c, k, u, w, first)
    PROVE  /\ call[c] = Null
           /\ call'[c] = [kind |-> k, user |-> u, with |-> w,
                          before |-> {d \in Calls : at[d] \in Ended}]
           /\ call'[c] # Null
           /\ at'[c] = first
           /\ \A d \in Calls : d # c => call'[d] = call[d] /\ at'[d] = at[d]
           /\ call' \in [Calls -> Call \cup {Null}]
           /\ at' \in [Calls -> Running \cup Ended \cup {"new"}]
<1> DEFINE new == [kind |-> k, user |-> u, with |-> w,
                   before |-> {d \in Calls : at[d] \in Ended}]
<1>1. new \in Call
  BY DEF Call
<1>2. new # Null
  BY <1>1, AccountsAssumption
<1>3. call' = [call EXCEPT ![c] = new] /\ at' = [at EXCEPT ![c] = first] /\ call[c] = Null
  BY DEF Start
<1> HIDE DEF new
<1>4. call'[c] = new /\ at'[c] = first
  BY <1>3 DEF WellFormed, TypeOK
<1>5. \A d \in Calls : d # c => call'[d] = call[d] /\ at'[d] = at[d]
  BY <1>3 DEF WellFormed, TypeOK
<1>6. call' \in [Calls -> Call \cup {Null}]
  BY <1>1, <1>3 DEF WellFormed, TypeOK
<1>7. at' \in [Calls -> Running \cup Ended \cup {"new"}]
  BY <1>3 DEF WellFormed, TypeOK
<1> QED
  BY <1>2, <1>3, <1>4, <1>5, <1>6, <1>7 DEF new

LEMMA StartKeeps ==
    ASSUME WellFormed, NEW c \in Calls, NEW k \in Kinds, NEW u \in Users,
           NEW w \in Calls \cup {Null}, NEW first \in Running,
           Start(c, k, u, w, first),
           Suits(k, first),
           k \notin {"login", "reset", "device_reset"} => w \in Calls
    PROVE  /\ call' \in [Calls -> Call \cup {Null}]
           /\ at' \in [Calls -> Running \cup Ended \cup {"new"}]
           /\ \A d \in Calls : Fits(d)' /\ Past(d)'
<1>1. /\ call[c] = Null
      /\ call'[c] = [kind |-> k, user |-> u, with |-> w,
                     before |-> {d \in Calls : at[d] \in Ended}]
      /\ call'[c] # Null
      /\ at'[c] = first
      /\ \A d \in Calls : d # c => call'[d] = call[d] /\ at'[d] = at[d]
      /\ call' \in [Calls -> Call \cup {Null}]
      /\ at' \in [Calls -> Running \cup Ended \cup {"new"}]
  BY StartEffect
<1>2. call'[c].kind = k /\ call'[c].with = w
      /\ call'[c].before = {d \in Calls : at[d] \in Ended}
  BY <1>1
<1>3. at[c] = "new"
  BY <1>1 DEF WellFormed, Fits
<1>4. at'[c] # "new"
  BY <1>1 DEF Running
<1>5. \A d \in Calls : at[d] \in Ended => at'[d] \in Ended
  BY <1>1, <1>3 DEF Ended
<1>6. Fits(c)'
  BY <1>1, <1>2, <1>4 DEF Fits, Suits
<1>7. Past(c)'
  BY <1>2, <1>5 DEF Past
<1>8. ASSUME NEW d \in Calls, d # c PROVE Fits(d)' /\ Past(d)'
  <2>1. call'[d] = call[d] /\ at'[d] = at[d]
    BY <1>1, <1>8
  <2>2. Fits(d)'
    BY <2>1 DEF WellFormed, Fits, Suits
  <2>3. call[d] # Null => call[d].before \subseteq Calls
    BY DEF WellFormed, TypeOK, Call
  <2>4. Past(d)'
    BY <1>5, <2>1, <2>3 DEF WellFormed, Past
  <2> QED
    BY <2>2, <2>4
<1> QED
  BY <1>1, <1>6, <1>7, <1>8

LEMMA GoToEffect ==
    ASSUME WellFormed, NEW c \in Calls, NEW a, GoTo(c, a)
    PROVE  /\ at'[c] = a
           /\ \A d \in Calls : d # c => at'[d] = at[d]
BY DEF WellFormed, TypeOK, GoTo

LEMMA GoToKeeps ==
    ASSUME WellFormed, NEW c \in Calls, NEW a \in Running \cup Ended, GoTo(c, a),
           UNCHANGED call, at[c] \in Running, Suits(call[c].kind, a)
    PROVE  /\ call' \in [Calls -> Call \cup {Null}]
           /\ at' \in [Calls -> Running \cup Ended \cup {"new"}]
           /\ \A d \in Calls : Fits(d)' /\ Past(d)'
<1>1. at'[c] = a /\ \A d \in Calls : d # c => at'[d] = at[d]
  BY GoToEffect
<1>2. call' \in [Calls -> Call \cup {Null}]
  BY DEF WellFormed, TypeOK
<1>3. at' \in [Calls -> Running \cup Ended \cup {"new"}]
  BY DEF WellFormed, TypeOK, GoTo
<1>4. a # "new" /\ at[c] # "new" /\ at[c] \notin Ended
  BY DEF Running, Ended
<1>5. Fits(c)'
  BY <1>1, <1>4 DEF WellFormed, Fits, Suits
<1>6. \A d \in Calls : at[d] \in Ended => at'[d] \in Ended
  BY <1>1, <1>4
<1>7. ASSUME NEW d \in Calls PROVE Fits(d)'
  <2>1. CASE d = c
    BY <1>5, <2>1
  <2>2. CASE d # c
    BY <1>1, <2>2 DEF WellFormed, Fits, Suits
  <2> QED
    BY <2>1, <2>2
<1>8. ASSUME NEW d \in Calls PROVE Past(d)'
  <2>1. call[d] # Null => call[d].before \subseteq Calls
    BY DEF WellFormed, TypeOK, Call
  <2> QED
    BY <1>6, <2>1 DEF WellFormed, Past
<1> QED
  BY <1>2, <1>3, <1>7, <1>8

-----------------------------------------------------------------------------
(* Types, kinds and the past.                                               *)

\* What a call brings, and whose it is, at each statement.
LEMMA CallFields ==
    ASSUME WellFormed, NEW c \in Calls, at[c] \in Running
    PROVE  /\ call[c] \in Call
           /\ call[c] # Null
           /\ call[c].user \in Users
           /\ Suits(call[c].kind, at[c])
           /\ at[c] \notin {"check_device", "put_device", "insert_device", "sign",
                            "store_code", "store_otp"} => call[c].with \in Calls
           /\ Brings(c) \in Calls \cup {Null}
           /\ at[c] \in {"put_device", "insert_device"} => Brings(c) \in Calls
<1>1. at[c] # "new"
  BY DEF Running
<1>2. call[c] # Null /\ call[c] \in Call /\ Suits(call[c].kind, at[c])
  BY <1>1 DEF WellFormed, TypeOK, Fits
<1>3. /\ call[c].user \in Users
      /\ call[c].with \in Calls \cup {Null}
      /\ call[c].kind \in Kinds
  BY <1>2 DEF Call
<1>4. call[c].kind \notin {"login", "reset", "device_reset"} => call[c].with \in Calls
  BY <1>2 DEF WellFormed, Fits
<1>5. at[c] \notin {"check_device", "put_device", "insert_device", "sign",
                   "store_code", "store_otp"} => call[c].with \in Calls
  BY <1>2, <1>4 DEF Suits, Running
<1>6. Brings(c) \in Calls \cup {Null}
  BY <1>3 DEF Brings
<1>7. at[c] \in {"put_device", "insert_device"} => Brings(c) \in Calls
  BY <1>2, <1>4 DEF Brings, Suits
<1> QED
  BY <1>2, <1>3, <1>5, <1>6, <1>7

LEMMA TypeStep == WellFormed /\ [Next]_vars => WellFormed'
<1> SUFFICES ASSUME WellFormed, [Next]_vars PROVE WellFormed'
  OBVIOUS
<1> DEFINE Moved == /\ call' \in [Calls -> Call \cup {Null}]
                    /\ at' \in [Calls -> Running \cup Ended \cup {"new"}]
                    /\ \A d \in Calls : Fits(d)' /\ Past(d)'
<1>1. CASE UNCHANGED vars
  BY <1>1 DEF vars, WellFormed, TypeOK, Fits, Past, Suits
<1>2. ASSUME NEW c \in Calls, NEW u \in Users, Login(c, u) PROVE WellFormed'
  <2>1. Suits("login", "check_device") /\ "login" \in Kinds /\ "check_device" \in Running
    BY DEF Suits, Kinds, Running
  <2>2. Moved
    BY <1>2, <2>1, StartKeeps DEF Login
  <2> QED
    BY <1>2, <2>2 DEF Login, WellFormed, TypeOK
<1>3. ASSUME NEW c \in Calls, NEW u \in Users, InitiateReset(c, u) PROVE WellFormed'
  <2>1. Suits("reset", "store_code") /\ "reset" \in Kinds /\ "store_code" \in Running
    BY DEF Suits, Kinds, Running
  <2>2. Moved
    BY <1>3, <2>1, StartKeeps DEF InitiateReset
  <2> QED
    BY <1>3, <2>2 DEF InitiateReset, WellFormed, TypeOK
<1>4. ASSUME NEW c \in Calls, NEW u \in Users, ConfirmLookup(c, u) PROVE WellFormed'
  <2>1. Suits("confirm", "confirm_code") /\ "confirm" \in Kinds /\ "confirm_code" \in Running
    BY DEF Suits, Kinds, Running
  <2>2. reset[u].code \in Calls
    BY <1>4 DEF ConfirmLookup, WellFormed, TypeOK, ResetEntry
  <2>3. Moved
    BY <1>4, <2>1, <2>2, StartKeeps DEF ConfirmLookup
  <2> QED
    BY <1>4, <2>3 DEF ConfirmLookup, WellFormed, TypeOK
<1>5. ASSUME NEW c \in Calls, NEW u \in Users, FinalizeLookup(c, u) PROVE WellFormed'
  <2>1. Suits("finalize", "set_password") /\ "finalize" \in Kinds /\ "set_password" \in Running
    BY DEF Suits, Kinds, Running
  <2>2. reset[u].code \in Calls
    BY <1>5 DEF FinalizeLookup, WellFormed, TypeOK, ResetEntry
  <2>3. Moved
    BY <1>5, <2>1, <2>2, StartKeeps DEF FinalizeLookup
  <2> QED
    BY <1>5, <2>3 DEF FinalizeLookup, WellFormed, TypeOK
<1>6. ASSUME NEW c \in Calls, NEW u \in Users, InitiateDeviceReset(c, u) PROVE WellFormed'
  <2>1. Suits("device_reset", "store_otp") /\ "device_reset" \in Kinds /\ "store_otp" \in Running
    BY DEF Suits, Kinds, Running
  <2>2. Moved
    BY <1>6, <2>1, StartKeeps DEF InitiateDeviceReset
  <2> QED
    BY <1>6, <2>2 DEF InitiateDeviceReset, WellFormed, TypeOK
<1>7. ASSUME NEW c \in Calls, NEW u \in Users, FinalizeDeviceLookup(c, u) PROVE WellFormed'
  <2>1. Suits("device_finalize", "put_device") /\ "device_finalize" \in Kinds /\ "put_device" \in Running
    BY DEF Suits, Kinds, Running
  <2>2. deviceOtp[u] \in Calls
    BY <1>7 DEF FinalizeDeviceLookup, WellFormed, TypeOK
  <2>3. Moved
    BY <1>7, <2>1, <2>2, StartKeeps DEF FinalizeDeviceLookup
  <2> QED
    BY <1>7, <2>3 DEF FinalizeDeviceLookup, WellFormed, TypeOK
<1>8. ASSUME NEW c \in Calls, NEW k \in {"logout", "update", "change_password"},
             NEW token \in Tokens, Authenticate(c, k, token)
      PROVE  WellFormed'
  <2>1. Suits(k, "mark_seen") /\ k \in Kinds /\ "mark_seen" \in Running
    BY DEF Suits, Kinds, Running
  <2>2. token \in Calls /\ call[token].user \in Users
    BY DEF Tokens, Answered, Is, WellFormed, TypeOK, Call
  <2>3. Moved
    BY <1>8, <2>1, <2>2, StartKeeps DEF Authenticate
  <2>4. password[call[token].user] \in Calls \cup {Null}
    BY <2>2 DEF WellFormed, TypeOK
  <2> QED
    BY <1>8, <2>3, <2>4 DEF Authenticate, WellFormed, TypeOK
<1>9. ASSUME NEW c \in Calls, CheckDevice(c) PROVE WellFormed'
  <2>1. at[c] \in Running
    BY <1>9 DEF CheckDevice, Running
  <2>2. PICK a \in {"put_device", "sign"} : GoTo(c, a) /\ Suits(call[c].kind, a)
    BY <1>9, <2>1, CallFields DEF CheckDevice, Suits
  <2>3. a \in Running \cup Ended
    BY <2>2 DEF Running, Ended
  <2>4. UNCHANGED call
    BY <1>9 DEF CheckDevice
  <2>5. Moved
    BY <2>1, <2>2, <2>3, <2>4, GoToKeeps
  <2> QED
    BY <1>9, <2>1, <2>5, CallFields DEF CheckDevice, WellFormed, TypeOK
<1>10. ASSUME NEW c \in Calls, PutDevice(c) PROVE WellFormed'
  <2>1. at[c] \in Running
    BY <1>10 DEF PutDevice, Running
  <2>2. PICK a \in {"insert_device", "sign", "drop_otp", "failed"} : GoTo(c, a) /\ Suits(call[c].kind, a)
    BY <1>10, <2>1, CallFields DEF PutDevice, AfterDevice, Suits
  <2>3. a \in Running \cup Ended
    BY <2>2 DEF Running, Ended
  <2>4. UNCHANGED call
    BY <1>10 DEF PutDevice
  <2>5. Moved
    BY <2>1, <2>2, <2>3, <2>4, GoToKeeps
  <2>6. Brings(c) \in Calls
    BY <1>10, <2>1, CallFields DEF PutDevice
  <2>7. devices' \in [Calls -> Calls \cup {Null}]
    BY <1>10, <2>6 DEF PutDevice, WellFormed, TypeOK
  <2> QED
    BY <1>10, <2>5, <2>7 DEF PutDevice, WellFormed, TypeOK
<1>11. ASSUME NEW c \in Calls, InsertDevice(c) PROVE WellFormed'
  <2>1. at[c] \in Running
    BY <1>11 DEF InsertDevice, Running
  <2>2. PICK a \in {"sign", "drop_otp"} : GoTo(c, a) /\ Suits(call[c].kind, a)
    BY <1>11, <2>1, CallFields DEF InsertDevice, AfterDevice, Suits
  <2>3. a \in Running \cup Ended
    BY <2>2 DEF Running, Ended
  <2>4. UNCHANGED call
    BY <1>11 DEF InsertDevice
  <2>5. Moved
    BY <2>1, <2>2, <2>3, <2>4, GoToKeeps
  <2>6. Brings(c) \in Calls
    BY <1>11, <2>1, CallFields DEF InsertDevice
  <2>7. devices' \in [Calls -> Calls \cup {Null}]
    BY <1>11, <2>6 DEF InsertDevice, WellFormed, TypeOK
  <2> QED
    BY <1>11, <2>5, <2>7 DEF InsertDevice, WellFormed, TypeOK
<1>12. ASSUME NEW c \in Calls, Sign(c) PROVE WellFormed'
  <2>1. at[c] \in Running
    BY <1>12 DEF Sign, Running
  <2>2. PICK a \in {"answered"} : GoTo(c, a) /\ Suits(call[c].kind, a)
    BY <1>12, <2>1, CallFields DEF Sign, Suits
  <2>3. a \in Running \cup Ended
    BY <2>2 DEF Running, Ended
  <2>4. UNCHANGED call
    BY <1>12 DEF Sign
  <2>5. Moved
    BY <2>1, <2>2, <2>3, <2>4, GoToKeeps
  <2> QED
    BY <1>12, <2>1, <2>5, CallFields DEF Sign, WellFormed, TypeOK
<1>13. ASSUME NEW c \in Calls, MarkSeen(c) PROVE WellFormed'
  <2>1. at[c] \in Running
    BY <1>13 DEF MarkSeen, Running
  <2>2. PICK a \in {"authorize"} : GoTo(c, a) /\ Suits(call[c].kind, a)
    BY <1>13, <2>1, CallFields DEF MarkSeen, Suits
  <2>3. a \in Running \cup Ended
    BY <2>2 DEF Running, Ended
  <2>4. UNCHANGED call
    BY <1>13 DEF MarkSeen
  <2>5. Moved
    BY <2>1, <2>2, <2>3, <2>4, GoToKeeps
  <2> QED
    BY <1>13, <2>1, <2>5, CallFields DEF MarkSeen, WellFormed, TypeOK
<1>14. ASSUME NEW c \in Calls, Authorize(c) PROVE WellFormed'
  <2>1. at[c] \in Running
    BY <1>14 DEF Authorize, Running
  <2>2. PICK a \in {"failed", "read_list", "write_profile"} : GoTo(c, a) /\ Suits(call[c].kind, a)
    BY <1>14, <2>1, CallFields DEF Authorize, Suits
  <2>3. a \in Running \cup Ended
    BY <2>2 DEF Running, Ended
  <2>4. UNCHANGED call
    BY <1>14 DEF Authorize
  <2>5. Moved
    BY <2>1, <2>2, <2>3, <2>4, GoToKeeps
  <2> QED
    BY <1>14, <2>1, <2>5, CallFields DEF Authorize, WellFormed, TypeOK
<1>15. ASSUME NEW c \in Calls, ReadList(c) PROVE WellFormed'
  <2>1. at[c] \in Running
    BY <1>15 DEF ReadList, Running
  <2>2. PICK a \in {"failed", "write_list"} : GoTo(c, a) /\ Suits(call[c].kind, a)
    BY <1>15, <2>1, CallFields DEF ReadList, Suits
  <2>3. a \in Running \cup Ended
    BY <2>2 DEF Running, Ended
  <2>4. UNCHANGED call
    BY <1>15 DEF ReadList
  <2>5. Moved
    BY <2>1, <2>2, <2>3, <2>4, GoToKeeps
  <2> QED
    BY <1>15, <2>1, <2>5, CallFields DEF ReadList, WellFormed, TypeOK
<1>16. ASSUME NEW c \in Calls, WriteList(c) PROVE WellFormed'
  <2>1. at[c] \in Running
    BY <1>16 DEF WriteList, Running
  <2>2. PICK a \in {"answered"} : GoTo(c, a) /\ Suits(call[c].kind, a)
    BY <1>16, <2>1, CallFields DEF WriteList, Suits
  <2>3. a \in Running \cup Ended
    BY <2>2 DEF Running, Ended
  <2>4. UNCHANGED call
    BY <1>16 DEF WriteList
  <2>5. Moved
    BY <2>1, <2>2, <2>3, <2>4, GoToKeeps
  <2> QED
    BY <1>16, <2>1, <2>5, CallFields DEF WriteList, WellFormed, TypeOK
<1>17. ASSUME NEW c \in Calls, WriteProfile(c) PROVE WellFormed'
  <2>1. at[c] \in Running
    BY <1>17 DEF WriteProfile, Running
  <2>2. PICK a \in {"answered"} : GoTo(c, a) /\ Suits(call[c].kind, a)
    BY <1>17, <2>1, CallFields DEF WriteProfile, Suits
  <2>3. a \in Running \cup Ended
    BY <2>2 DEF Running, Ended
  <2>4. UNCHANGED call
    BY <1>17 DEF WriteProfile
  <2>5. Moved
    BY <2>1, <2>2, <2>3, <2>4, GoToKeeps
  <2> QED
    BY <1>17, <2>1, <2>5, CallFields DEF WriteProfile, WellFormed, TypeOK
<1>18. ASSUME NEW c \in Calls, StoreCode(c) PROVE WellFormed'
  <2>1. at[c] \in Running
    BY <1>18 DEF StoreCode, Running
  <2>2. PICK a \in {"answered"} : GoTo(c, a) /\ Suits(call[c].kind, a)
    BY <1>18, <2>1, CallFields DEF StoreCode, Suits
  <2>3. a \in Running \cup Ended
    BY <2>2 DEF Running, Ended
  <2>4. UNCHANGED call
    BY <1>18 DEF StoreCode
  <2>5. Moved
    BY <2>1, <2>2, <2>3, <2>4, GoToKeeps
  <2>6. [code |-> c, validated |-> FALSE, limited |-> TRUE] \in ResetEntry
    BY <1>18, <2>1, CallFields DEF StoreCode, ResetEntry
  <2> QED
    BY <1>18, <2>5, <2>6 DEF StoreCode, WellFormed, TypeOK
<1>19. ASSUME NEW c \in Calls, ConfirmCode(c) PROVE WellFormed'
  <2>1. at[c] \in Running
    BY <1>19 DEF ConfirmCode, Running
  <2>2. PICK a \in {"answered"} : GoTo(c, a) /\ Suits(call[c].kind, a)
    BY <1>19, <2>1, CallFields DEF ConfirmCode, Suits
  <2>3. a \in Running \cup Ended
    BY <2>2 DEF Running, Ended
  <2>4. UNCHANGED call
    BY <1>19 DEF ConfirmCode
  <2>5. Moved
    BY <2>1, <2>2, <2>3, <2>4, GoToKeeps
  <2>6. [code |-> call[c].with, validated |-> TRUE, limited |-> FALSE] \in ResetEntry
    BY <1>19, <2>1, CallFields DEF ConfirmCode, ResetEntry
  <2> QED
    BY <1>19, <2>5, <2>6 DEF ConfirmCode, WellFormed, TypeOK
<1>20. ASSUME NEW c \in Calls, SetPassword(c) PROVE WellFormed'
  <2>1. at[c] \in Running
    BY <1>20 DEF SetPassword, Running
  <2>2. PICK a \in {"delete_code"} : GoTo(c, a) /\ Suits(call[c].kind, a)
    BY <1>20, <2>1, CallFields DEF SetPassword, Suits
  <2>3. a \in Running \cup Ended
    BY <2>2 DEF Running, Ended
  <2>4. UNCHANGED call
    BY <1>20 DEF SetPassword
  <2>5. Moved
    BY <2>1, <2>2, <2>3, <2>4, GoToKeeps
  <2> QED
    BY <1>20, <2>1, <2>5, CallFields DEF SetPassword, WellFormed, TypeOK
<1>21. ASSUME NEW c \in Calls, DeleteCode(c) PROVE WellFormed'
  <2>1. at[c] \in Running
    BY <1>21 DEF DeleteCode, Running
  <2>2. PICK a \in {"answered"} : GoTo(c, a) /\ Suits(call[c].kind, a)
    BY <1>21, <2>1, CallFields DEF DeleteCode, Suits
  <2>3. a \in Running \cup Ended
    BY <2>2 DEF Running, Ended
  <2>4. UNCHANGED call
    BY <1>21 DEF DeleteCode
  <2>5. Moved
    BY <2>1, <2>2, <2>3, <2>4, GoToKeeps
  <2> QED
    BY <1>21, <2>1, <2>5, CallFields DEF DeleteCode, WellFormed, TypeOK
<1>22. ASSUME NEW c \in Calls, StoreOtp(c) PROVE WellFormed'
  <2>1. at[c] \in Running
    BY <1>22 DEF StoreOtp, Running
  <2>2. PICK a \in {"answered"} : GoTo(c, a) /\ Suits(call[c].kind, a)
    BY <1>22, <2>1, CallFields DEF StoreOtp, Suits
  <2>3. a \in Running \cup Ended
    BY <2>2 DEF Running, Ended
  <2>4. UNCHANGED call
    BY <1>22 DEF StoreOtp
  <2>5. Moved
    BY <2>1, <2>2, <2>3, <2>4, GoToKeeps
  <2> QED
    BY <1>22, <2>1, <2>5, CallFields DEF StoreOtp, WellFormed, TypeOK
<1>23. ASSUME NEW c \in Calls, DropOtp(c) PROVE WellFormed'
  <2>1. at[c] \in Running
    BY <1>23 DEF DropOtp, Running
  <2>2. PICK a \in {"answered"} : GoTo(c, a) /\ Suits(call[c].kind, a)
    BY <1>23, <2>1, CallFields DEF DropOtp, Suits
  <2>3. a \in Running \cup Ended
    BY <2>2 DEF Running, Ended
  <2>4. UNCHANGED call
    BY <1>23 DEF DropOtp
  <2>5. Moved
    BY <2>1, <2>2, <2>3, <2>4, GoToKeeps
  <2> QED
    BY <1>23, <2>1, <2>5, CallFields DEF DropOtp, WellFormed, TypeOK
<1>24. ASSUME NEW c \in Calls, Abort(c) PROVE WellFormed'
  <2>1. at[c] \in Running
    BY <1>24 DEF Abort, Running
  <2>2. PICK a \in {"failed"} : GoTo(c, a) /\ Suits(call[c].kind, a)
    BY <1>24, <2>1, CallFields DEF Abort, Suits
  <2>3. a \in Running \cup Ended
    BY <2>2 DEF Running, Ended
  <2>4. UNCHANGED call
    BY <1>24 DEF Abort
  <2>5. Moved
    BY <2>1, <2>2, <2>3, <2>4, GoToKeeps
  <2> QED
    BY <1>24, <2>1, <2>5, CallFields DEF Abort, WellFormed, TypeOK
<1>25. ASSUME NEW u \in Users, ExpireSeen(u) PROVE WellFormed'
  BY <1>25 DEF ExpireSeen, WellFormed, TypeOK, Fits, Past, Suits
<1>26. ASSUME NEW u \in Users, ExpireCode(u) PROVE WellFormed'
  BY <1>26 DEF ExpireCode, WellFormed, TypeOK, Fits, Past, Suits
<1>27. ASSUME NEW u \in Users, ExpireOtp(u) PROVE WellFormed'
  BY <1>27 DEF ExpireOtp, WellFormed, TypeOK, Fits, Past, Suits
<1> QED
  BY <1>1, <1>2, <1>3, <1>4, <1>5, <1>6, <1>7, <1>8, <1>9, <1>10, <1>11, <1>12,
     <1>13, <1>14, <1>15, <1>16, <1>17, <1>18, <1>19, <1>20, <1>21, <1>22, <1>23,
     <1>24, <1>25, <1>26, <1>27 DEF Next, Ask, Step

(* Every reachable state is well formed: each call runs the statements of   *)
(* its own request, and a call that has ended stays ended.                  *)
THEOREM TypeCorrect == Spec => []TypeOK
<1>1. Init => WellFormed
  BY DEF Init, WellFormed, TypeOK, Fits, Past
<1>2. WellFormed => TypeOK
  BY DEF WellFormed
<1> QED
  BY <1>1, <1>2, TypeStep, PTL DEF Spec
-----------------------------------------------------------------------------
(* What a step can do: to its own call, and to what calls share.            *)

LEMMA Actor ==
    ASSUME WellFormed, [Next]_vars, NEW c \in Calls,
           at'[c] # at[c] \/ call'[c] # call[c] \/ kept'[c] # kept[c] \/ listed'[c] # listed[c]
    PROVE  Ask(c) \/ Step(c) \/ Abort(c)
<1>1. CASE UNCHANGED vars
  BY <1>1 DEF vars
<1>2. CASE \E u \in Users : ExpireSeen(u) \/ ExpireCode(u) \/ ExpireOtp(u)
  BY <1>2 DEF ExpireSeen, ExpireCode, ExpireOtp
<1>3. ASSUME NEW d \in Calls, Ask(d) PROVE d = c
  BY <1>3 DEF Ask, Login, InitiateReset, ConfirmLookup, FinalizeLookup, InitiateDeviceReset,
     FinalizeDeviceLookup, Authenticate, Start, WellFormed, TypeOK
<1>4. ASSUME NEW d \in Calls, Step(d) PROVE d = c
  BY <1>4 DEF Step, CheckDevice, PutDevice, InsertDevice, Sign, MarkSeen, Authorize,
     ReadList,
     WriteList, WriteProfile, StoreCode, ConfirmCode, SetPassword, DeleteCode, StoreOtp,
     DropOtp, GoTo, WellFormed, TypeOK
<1>5. ASSUME NEW d \in Calls, Abort(d) PROVE d = c
  BY <1>5 DEF Abort, GoTo, WellFormed, TypeOK
<1> QED
  BY <1>1, <1>2, <1>3, <1>4, <1>5 DEF Next

\* The step that takes a call to a statement, or to its end.
LEMMA Arrivals ==
    ASSUME WellFormed, NEW c \in Calls, Ask(c) \/ Step(c) \/ Abort(c)
    PROVE  /\ at'[c] = "put_device" =>
                CheckDevice(c) \/ \E u \in Users : FinalizeDeviceLookup(c, u)
           /\ at'[c] = "insert_device" => PutDevice(c)
           /\ at'[c] = "drop_otp" => PutDevice(c) \/ InsertDevice(c)
           /\ at'[c] = "mark_seen" =>
                \E k \in {"logout", "update", "change_password"}, token \in Tokens :
                   Authenticate(c, k, token)
           /\ at'[c] = "authorize" => MarkSeen(c)
           /\ at'[c] = "write_list" => ReadList(c)
           /\ at'[c] = "write_profile" => Authorize(c)
           /\ at'[c] = "confirm_code" => \E u \in Users : ConfirmLookup(c, u)
           /\ at'[c] = "set_password" => \E u \in Users : FinalizeLookup(c, u)
           /\ at'[c] = "delete_code" => SetPassword(c)
           /\ at'[c] = "answered" =>
                \/ Sign(c) \/ WriteList(c) \/ WriteProfile(c) \/ StoreCode(c)
                \/ ConfirmCode(c) \/ DeleteCode(c) \/ StoreOtp(c) \/ DropOtp(c)
<1>1. CASE Ask(c)
  BY <1>1 DEF Ask, Login, InitiateReset, ConfirmLookup, FinalizeLookup, InitiateDeviceReset,
     FinalizeDeviceLookup, Authenticate, Start, WellFormed, TypeOK
<1>2. CASE Step(c)
  BY <1>2 DEF Step, CheckDevice, PutDevice, InsertDevice, AfterDevice, Sign, MarkSeen,
     Authorize, ReadList, WriteList, WriteProfile, StoreCode, ConfirmCode, SetPassword,
     DeleteCode, StoreOtp, DropOtp, GoTo, WellFormed, TypeOK
<1>3. CASE Abort(c)
  BY <1>3 DEF Abort, GoTo, WellFormed, TypeOK
<1> QED
  BY <1>1, <1>2, <1>3

\* The steps that write each thing that calls share.
LEMMA Writers ==
    ASSUME [Next]_vars
    PROVE  /\ password' = password \/ \E c \in Calls : WriteProfile(c) \/ SetPassword(c)
           /\ devices' = devices \/ \E c \in Calls : PutDevice(c) \/ InsertDevice(c)
           /\ \/ reset' = reset
              \/ \E c \in Calls : StoreCode(c) \/ ConfirmCode(c) \/ DeleteCode(c)
              \/ \E u \in Users : ExpireCode(u)
           /\ blacklist' = blacklist \/ \E c \in Calls : WriteList(c)
<1>1. CASE UNCHANGED vars
  BY <1>1 DEF vars
<1>2. CASE \E u \in Users : ExpireSeen(u) \/ ExpireCode(u) \/ ExpireOtp(u)
  BY <1>2 DEF ExpireSeen, ExpireCode, ExpireOtp
<1>3. CASE \E c \in Calls : Ask(c) \/ Abort(c)
  BY <1>3 DEF Ask, Login, InitiateReset, ConfirmLookup, FinalizeLookup, InitiateDeviceReset,
     FinalizeDeviceLookup, Authenticate, Abort
<1>4. CASE \E c \in Calls : Step(c)
  BY <1>4 DEF Step, CheckDevice, Sign, MarkSeen, Authorize, ReadList, WriteList,
     WriteProfile, StoreCode, ConfirmCode, SetPassword, DeleteCode, StoreOtp, DropOtp,
     PutDevice, InsertDevice
<1> QED
  BY <1>1, <1>2, <1>3, <1>4 DEF Next

\* What a call asked for stays, and so does its end.
LEMMA CallStays ==
    ASSUME WellFormed, [Next]_vars, NEW c \in Calls
    PROVE  /\ call[c] # Null => call'[c] = call[c]
           /\ at[c] \in Ended => at'[c] = at[c]
<1>1. CASE at'[c] = at[c] /\ call'[c] = call[c]
  BY <1>1
<1>2. CASE Ask(c)
  <2>1. call[c] = Null
    BY <1>2 DEF Ask, Login, InitiateReset, ConfirmLookup, FinalizeLookup,
       InitiateDeviceReset, FinalizeDeviceLookup, Authenticate, Start
  <2>2. at[c] \notin Ended
    BY <2>1 DEF WellFormed, Fits, Ended
  <2> QED
    BY <2>1, <2>2
<1>3. CASE Step(c) \/ Abort(c)
  BY <1>3 DEF Step, CheckDevice, PutDevice, InsertDevice, Sign, MarkSeen, Authorize,
     ReadList, WriteList, WriteProfile, StoreCode, ConfirmCode, SetPassword, DeleteCode,
     StoreOtp, DropOtp, Abort, Ended, Running
<1> QED
  BY <1>1, <1>2, <1>3, Actor

\* A call starts knowing those that ended before.
LEMMA CallBegins ==
    ASSUME WellFormed, [Next]_vars, NEW c \in Calls, call[c] = Null, call'[c] # Null
    PROVE  /\ Ask(c)
           /\ call'[c].before = {d \in Calls : at[d] \in Ended}
           /\ at'[c] \in Running
<1>1. Ask(c) \/ Step(c) \/ Abort(c)
  BY Actor
<1>2. Ask(c)
  <2>1. ~Step(c) /\ ~Abort(c)
    BY DEF Step, CheckDevice, PutDevice, InsertDevice, Sign, MarkSeen, Authorize,
       ReadList, WriteList, WriteProfile, StoreCode, ConfirmCode, SetPassword, DeleteCode,
       StoreOtp, DropOtp, Abort
  <2> QED
    BY <1>1, <2>1
<1>3. PICK k, u, w, first : first \in Running /\ Start(c, k, u, w, first)
  BY <1>2 DEF Ask, Login, InitiateReset, ConfirmLookup, FinalizeLookup,
     InitiateDeviceReset, FinalizeDeviceLookup, Authenticate, Running
<1>4. call' = [call EXCEPT ![c] = [kind |-> k, user |-> u, with |-> w,
                                   before |-> {d \in Calls : at[d] \in Ended}]]
      /\ at' = [at EXCEPT ![c] = first]
  BY <1>3 DEF Start
<1>5. call'[c] = [kind |-> k, user |-> u, with |-> w,
                  before |-> {d \in Calls : at[d] \in Ended}]
      /\ at'[c] = first
  BY <1>4 DEF WellFormed, TypeOK
<1> QED
  BY <1>2, <1>3, <1>5

\* What a call finds when it starts.
LEMMA CallReads ==
    ASSUME WellFormed, NEW c \in Calls, Ask(c)
    PROVE  /\ call[c] = Null
           /\ call'[c].kind \in {"logout", "update", "change_password"} =>
                kept'[c] = password[call'[c].user]
           /\ call'[c].kind \in {"confirm", "finalize"} =>
                /\ call'[c].user \in Users
                /\ reset[call'[c].user] # Null
                /\ call'[c].with = reset[call'[c].user].code
<1> DEFINE Found ==
      /\ call[c] = Null
      /\ call'[c].kind \in {"logout", "update", "change_password"} =>
           kept'[c] = password[call'[c].user]
      /\ call'[c].kind \in {"confirm", "finalize"} =>
           /\ call'[c].user \in Users
           /\ reset[call'[c].user] # Null
           /\ call'[c].with = reset[call'[c].user].code
<1>1. ASSUME NEW u \in Users,
             \/ Login(c, u) \/ InitiateReset(c, u)
             \/ InitiateDeviceReset(c, u) \/ FinalizeDeviceLookup(c, u)
      PROVE  Found
  <2>1. PICK k, w, first :
           /\ k \in {"login", "reset", "device_reset", "device_finalize"}
           /\ Start(c, k, u, w, first)
    BY <1>1 DEF Login, InitiateReset, InitiateDeviceReset, FinalizeDeviceLookup
  <2>2. call[c] = Null /\ call'[c].kind = k
    BY <2>1 DEF Start, WellFormed, TypeOK
  <2> QED
    BY <2>1, <2>2
<1>2. ASSUME NEW u \in Users, ConfirmLookup(c, u) \/ FinalizeLookup(c, u)
      PROVE  Found
  <2>1. reset[u] # Null
    BY <1>2 DEF ConfirmLookup, FinalizeLookup
  <2>2. PICK k, first :
           k \in {"confirm", "finalize"} /\ Start(c, k, u, reset[u].code, first)
    BY <1>2 DEF ConfirmLookup, FinalizeLookup
  <2>3. /\ call[c] = Null
        /\ call'[c].kind = k
        /\ call'[c].user = u
        /\ call'[c].with = reset[u].code
    BY <2>2 DEF Start, WellFormed, TypeOK
  <2> QED
    BY <2>1, <2>2, <2>3
<1>3. ASSUME NEW k \in {"logout", "update", "change_password"}, NEW token \in Tokens,
             Authenticate(c, k, token)
      PROVE  Found
  <2>1. /\ call[c] = Null
        /\ call'[c].kind = k
        /\ call'[c].user = call[token].user
        /\ kept'[c] = password[call[token].user]
    BY <1>3 DEF Authenticate, Start, WellFormed, TypeOK
  <2> QED
    BY <2>1
<1> QED
  BY <1>1, <1>2, <1>3 DEF Ask

\* It keeps what it found.
LEMMA KeptStays ==
    ASSUME WellFormed, [Next]_vars, NEW c \in Calls, call[c] # Null
    PROVE  kept'[c] = kept[c]
<1>1. ~Ask(c)
  BY CallReads
<1>2. CASE Step(c) \/ Abort(c)
  BY <1>2 DEF Step, CheckDevice, PutDevice, InsertDevice, Sign, MarkSeen, Authorize,
     ReadList, WriteList, WriteProfile, StoreCode, ConfirmCode, SetPassword, DeleteCode,
     StoreOtp, DropOtp, Abort
<1> QED
  BY <1>1, <1>2, Actor

\* A call that had ended before another was there and changes no more.
LEMMA PastIsPast ==
    ASSUME WellFormed, [Next]_vars, NEW d \in Calls, call'[d] # Null,
           NEW c \in Calls, c \in call'[d].before
    PROVE  at[c] \in Ended /\ at'[c] = at[c] /\ call[c] # Null /\ call'[c] = call[c]
<1>1. at[c] \in Ended
  BY CallStays, CallBegins DEF WellFormed, Past
<1>2. call[c] # Null
  BY <1>1 DEF WellFormed, Fits, Ended
<1> QED
  BY <1>1, <1>2, CallStays

\* A call that runs overlaps every other that runs or ended since it started.
LEMMA RunningOverlaps ==
    ASSUME WellFormed, NEW c \in Calls, NEW d \in Calls, c # d,
           at[d] \in Running, call[c] # Null
    PROVE  /\ d \notin call[c].before
           /\ c \notin call[d].before => Overlap(c, d)
           /\ at[c] \in Running => Overlap(c, d)
<1>1. call[d] # Null
  BY CallFields
<1>2. d \notin call[c].before
  BY DEF WellFormed, Past, Running, Ended
<1>3. at[c] \in Running => c \notin call[d].before
  BY <1>1 DEF WellFormed, Past, Running, Ended
<1> QED
  BY <1>2, <1>3 DEF Overlap

\* How two calls lie to each other does not change.
LEMMA RelationStays ==
    ASSUME WellFormed, [Next]_vars, NEW c \in Calls, call[c] # Null,
           NEW d \in Calls, call[d] # Null
    PROVE  /\ call'[c] = call[c] /\ call'[d] = call[d]
           /\ Overlap(c, d)' <=> Overlap(c, d)
BY CallStays DEF Overlap

-----------------------------------------------------------------------------
(* Logouts.                                                                 *)

\* Another logout overlapped that of c.
ListLost(c) == \E d \in Calls : Is(d, {"logout"}) /\ Overlap(c, d)

\* A logout that is about to store its list has read those that ended before.
ListsArePast ==
    \A d \in Calls : at[d] = "write_list" =>
       \A c \in Calls : (c \in call[d].before /\ Answered(c, {"logout"})) =>
          call[c].with \in listed[d] \/ ListLost(c)

LogoutInv == LoggedOutStaysListed /\ ListsArePast

LEMMA ListLostStays ==
    ASSUME WellFormed, [Next]_vars, NEW c \in Calls, call[c] # Null, ListLost(c)
    PROVE  ListLost(c)'
<1>1. PICK d \in Calls : Is(d, {"logout"}) /\ Overlap(c, d)
  BY DEF ListLost
<1>2. call[d] # Null
  BY <1>1 DEF Is
<1> QED
  BY <1>1, <1>2, RelationStays DEF Is, ListLost

LEMMA LogoutStep ==
    WellFormed /\ LogoutInv /\ [Next]_vars => LogoutInv'
<1> SUFFICES ASSUME WellFormed, LogoutInv, [Next]_vars PROVE LogoutInv'
  OBVIOUS
<1>1. ASSUME NEW c \in Calls, Answered(c, {"logout"})'
      PROVE  (call[c].with \in blacklist \/ ListLost(c))'
  <2>1. CASE ~Answered(c, {"logout"})
    <3>1. call'[c] # Null /\ call'[c].kind = "logout" /\ at'[c] = "answered"
      BY <1>1 DEF Answered, Is
    <3>2. call[c] # Null => call'[c] = call[c]
      BY CallStays
    <3>3. call[c] # Null
      BY <3>1, CallBegins DEF Running
    <3>4. at[c] # "answered"
      BY <2>1, <3>1, <3>2, <3>3 DEF Answered, Is
    <3>5. Ask(c) \/ Step(c) \/ Abort(c)
      BY <3>1, <3>4, Actor
    <3>6. WriteList(c)
      <4>1. Fits(c)
        BY DEF WellFormed
      <4> QED
        BY <3>1, <3>2, <3>3, <3>5, <4>1, Arrivals DEF Fits, Suits, Sign, WriteProfile,
           StoreCode, ConfirmCode, DeleteCode, StoreOtp, DropOtp
    <3> QED
      BY <3>2, <3>3, <3>6 DEF WriteList
  <2>2. CASE Answered(c, {"logout"})
    <3>1. call[c] # Null /\ call'[c] = call[c] /\ at[c] = "answered"
      BY <2>2, CallStays DEF Answered, Is
    <3>2. CASE ListLost(c)
      BY <3>1, <3>2, ListLostStays
    <3>3. CASE blacklist' = blacklist
      BY <2>2, <3>1, <3>2, <3>3 DEF LogoutInv, LoggedOutStaysListed, ListLost
    <3>4. ASSUME NEW d \in Calls, WriteList(d)
          PROVE  call[c].with \in blacklist' \/ ListLost(c)
      <4>1. at[d] = "write_list" /\ at[d] \in Running /\ blacklist' = listed[d] \cup {call[d].with}
        BY <3>4 DEF WriteList, Running
      <4>2. CASE c \in call[d].before
        BY <2>2, <4>1, <4>2 DEF LogoutInv, ListsArePast
      <4>3. CASE c \notin call[d].before
        <5>1. c # d
          BY <3>1, <4>1
        <5>2. Overlap(c, d)
          BY <3>1, <4>1, <4>3, <5>1, RunningOverlaps
        <5>3. Is(d, {"logout"})
          BY <4>1, CallFields DEF Is, Suits
        <5> QED
          BY <5>2, <5>3 DEF ListLost
      <4> QED
        BY <4>2, <4>3
    <3> QED
      BY <3>1, <3>2, <3>3, <3>4, Writers
  <2> QED
    BY <2>1, <2>2
<1>2. ASSUME NEW d \in Calls, at'[d] = "write_list", call'[d] # Null,
             NEW c \in Calls, c \in call'[d].before, Answered(c, {"logout"})'
      PROVE  (call[c].with \in listed[d] \/ ListLost(c))'
  <2>1. at'[c] = at[c] /\ call[c] # Null /\ call'[c] = call[c]
    BY <1>2, PastIsPast
  <2>2. Answered(c, {"logout"})
    BY <1>2, <2>1 DEF Answered, Is
  <2>3. call[d] # Null /\ call'[d] = call[d]
    BY <1>2, CallBegins, CallStays, Arrivals DEF ReadList, WellFormed, Fits
  <2>4. CASE listed'[d] = listed[d] /\ at[d] = "write_list"
    BY <1>2, <2>1, <2>2, <2>3, <2>4, ListLostStays DEF LogoutInv, ListsArePast
  <2>5. CASE ReadList(d)
    <3>1. listed'[d] = blacklist
      <4>1. at'[d] # "failed"
        BY <1>2
      <4> QED
        BY <2>5, <4>1 DEF ReadList, GoTo, WellFormed, TypeOK
    <3>2. call[c].with \in blacklist \/ ListLost(c)
      BY <2>2 DEF LogoutInv, LoggedOutStaysListed, ListLost
    <3> QED
      BY <2>1, <3>1, <3>2, ListLostStays
  <2>6. (at'[d] = at[d] /\ listed'[d] = listed[d]) \/ Ask(d) \/ Step(d) \/ Abort(d)
    BY Actor
  <2> QED
    BY <1>2, <2>4, <2>5, <2>6, Arrivals
<1>3. \A d \in Calls : at'[d] = "write_list" => call'[d] # Null
  BY TypeStep DEF WellFormed, Fits
<1> QED
  BY <1>1, <1>2, <1>3 DEF LogoutInv, LoggedOutStaysListed, ListsArePast, ListLost

(* The token of whoever has logged out stays on the list, unless another    *)
(* logout overlapped and stored the list it had read before.                *)
THEOREM LoggedOutIsListed == Spec => []LoggedOutStaysListed
<1>1. Init => WellFormed /\ LogoutInv
  BY DEF Init, WellFormed, TypeOK, Fits, Past, LogoutInv, LoggedOutStaysListed,
     ListsArePast, Answered, Is
<1>2. LogoutInv => LoggedOutStaysListed
  BY DEF LogoutInv
<1> QED
  BY <1>1, <1>2, TypeStep, LogoutStep, PTL DEF Spec

-----------------------------------------------------------------------------
(* Passwords.                                                               *)

Changed(c) ==
    \/ Is(c, {"change_password"}) /\ at[c] = "answered"
    \/ Is(c, {"finalize"}) /\ at[c] \in {"delete_code", "answered"}

\* A call that brings a password came later, or an update overlapped.
Replaces(d, c) ==
    /\ d # c
    /\ Is(d, {"change_password", "finalize", "update"})
    /\ call[d].user = call[c].user
    /\ d \notin call[c].before
    /\ Is(d, {"update"}) => Overlap(c, d)
Replaced(c) == \E d \in Calls : Replaces(d, c)

PasswordHeld ==
    \A c \in Calls : (Changed(c) /\ call[c].user \in BvnUsers) =>
       password[call[c].user] = c \/ Replaced(c)

\* An update holds the password that the calls before it left.
KeptIsPast ==
    \A d \in Calls : (Is(d, {"update", "change_password"}) /\ at[d] \in Running) =>
       \A c \in Calls :
          (/\ c \in call[d].before /\ Changed(c)
           /\ call[c].user = call[d].user /\ call[c].user \in BvnUsers) =>
             kept[d] = c \/ Replaced(c)

PasswordInv == PasswordHeld /\ KeptIsPast

LEMMA ReplacedStays ==
    ASSUME WellFormed, [Next]_vars, NEW c \in Calls, call[c] # Null, Replaced(c)
    PROVE  Replaced(c)'
<1>1. PICK d \in Calls : Replaces(d, c)
  BY DEF Replaced
<1>2. call[d] # Null
  BY <1>1 DEF Replaces, Is
<1>3. Replaces(d, c)'
  BY <1>1, <1>2, RelationStays DEF Replaces, Is
<1> QED
  BY <1>3 DEF Replaced

LEMMA PasswordStep ==
    WellFormed /\ PasswordInv /\ [Next]_vars => PasswordInv'
<1> SUFFICES ASSUME WellFormed, PasswordInv, [Next]_vars PROVE PasswordInv'
  OBVIOUS
<1>1. ASSUME NEW c \in Calls, Changed(c)', (call[c].user \in BvnUsers)'
      PROVE  (password[call[c].user] = c \/ Replaced(c))'
  <2>1. call'[c] # Null /\ at'[c] \in {"delete_code", "answered"}
    BY <1>1 DEF Changed, Is
  <2>2. call[c] # Null /\ call'[c] = call[c]
    BY <2>1, CallBegins, CallReads, CallStays, Arrivals DEF SetPassword, Running
  <2>3. call[c].user \in Users
    BY <2>2 DEF WellFormed, TypeOK, Call
  <2>4. CASE ~Changed(c)
    <3>1. at'[c] # at[c]
      BY <1>1, <2>2, <2>4 DEF Changed, Is
    <3>2. Ask(c) \/ Step(c) \/ Abort(c)
      BY <3>1, Actor
    <3>3. Fits(c)
      BY DEF WellFormed
    <3>4. CASE at'[c] = "delete_code"
      <4>1. SetPassword(c)
        BY <3>2, <3>4, Arrivals
      <4> QED
        BY <2>2, <2>3, <4>1 DEF SetPassword, WellFormed, TypeOK
    <3>5. CASE at'[c] = "answered"
      <4>1. WriteProfile(c) /\ call[c].kind = "change_password"
        BY <1>1, <2>2, <2>4, <3>2, <3>3, <3>5, Arrivals DEF Fits, Suits, Changed, Is, Sign,
           WriteList, WriteProfile, StoreCode, ConfirmCode, DeleteCode, StoreOtp, DropOtp
      <4> QED
        BY <1>1, <2>2, <2>3, <4>1 DEF WriteProfile, WellFormed, TypeOK
    <3> QED
      BY <2>1, <3>4, <3>5
  <2>5. CASE Changed(c)
    <3>0. at[c] \in {"delete_code", "answered"}
      BY <2>5 DEF Changed
    <3>1. CASE Replaced(c)
      BY <2>2, <3>1, ReplacedStays
    <3>2. password[call[c].user] = c \/ Replaced(c)
      BY <1>1, <2>2, <2>5 DEF PasswordInv, PasswordHeld
    <3>3. CASE password' = password
      BY <2>2, <3>1, <3>2, <3>3
    <3>4. ASSUME NEW d \in Calls, WriteProfile(d)
          PROVE  password'[call[c].user] = c \/ Replaced(c)
      <4>1. /\ at[d] = "write_profile" /\ at[d] \in Running
            /\ call[d] # Null /\ call[d].user \in Users
            /\ call[d].kind \in {"update", "change_password"}
        BY <3>4, CallFields DEF WriteProfile, Running, Suits
      <4>2. d # c /\ d \notin call[c].before
            /\ (c \notin call[d].before => Overlap(c, d))
        BY <2>2, <3>0, <4>1, RunningOverlaps
      <4>3. CASE call[d].user # call[c].user
        BY <2>3, <3>2, <3>4, <4>1, <4>3 DEF WriteProfile, WellFormed, TypeOK
      <4>4. CASE call[d].user = call[c].user /\ c \in call[d].before
        <5>1. kept[d] = c \/ Replaced(c)
          BY <1>1, <2>2, <2>5, <4>1, <4>4 DEF PasswordInv, KeptIsPast, Is
        <5>2. CASE call[d].kind = "update"
          <6>1. password'[call[d].user] = kept[d]
            BY <1>1, <2>2, <3>4, <4>1, <4>4, <5>2 DEF WriteProfile, WellFormed, TypeOK
          <6> QED
            BY <4>4, <5>1, <6>1
        <5>3. CASE call[d].kind = "change_password"
          BY <4>1, <4>2, <4>4, <5>3 DEF Replaced, Replaces, Is
        <5> QED
          BY <4>1, <5>2, <5>3
      <4>5. CASE call[d].user = call[c].user /\ c \notin call[d].before
        BY <4>1, <4>2, <4>5 DEF Replaced, Replaces, Is
      <4> QED
        BY <4>3, <4>4, <4>5
    <3>5. ASSUME NEW d \in Calls, SetPassword(d)
          PROVE  password'[call[c].user] = c \/ Replaced(c)
      <4>1. /\ at[d] = "set_password" /\ at[d] \in Running
            /\ call[d] # Null /\ call[d].user \in Users
            /\ call[d].kind = "finalize"
        BY <3>5, CallFields DEF SetPassword, Running, Suits
      <4>2. d # c /\ d \notin call[c].before
        BY <2>2, <3>0, <4>1, RunningOverlaps
      <4>3. CASE call[d].user # call[c].user
        BY <2>3, <3>2, <3>5, <4>1, <4>3 DEF SetPassword, WellFormed, TypeOK
      <4>4. CASE call[d].user = call[c].user
        BY <4>1, <4>2, <4>4 DEF Replaced, Replaces, Is
      <4> QED
        BY <4>3, <4>4
    <3>6. password'[call[c].user] = c \/ Replaced(c)
      BY <3>2, <3>3, <3>4, <3>5, Writers
    <3> QED
      BY <2>2, <3>1, <3>6
  <2> QED
    BY <2>4, <2>5
<1>2. ASSUME NEW d \in Calls, Is(d, {"update", "change_password"})', (at[d] \in Running)',
             NEW c \in Calls, (c \in call[d].before)', Changed(c)',
             (call[c].user = call[d].user)', (call[c].user \in BvnUsers)'
      PROVE  (kept[d] = c \/ Replaced(c))'
  <2>1. call'[d] # Null
    BY <1>2 DEF Is
  <2>2. at'[c] = at[c] /\ call[c] # Null /\ call'[c] = call[c]
    BY <1>2, <2>1, PastIsPast
  <2>3. Changed(c)
    BY <1>2, <2>2 DEF Changed, Is
  <2>4. CASE call[d] # Null
    <3>1. call'[d] = call[d] /\ kept'[d] = kept[d]
      BY <2>4, CallStays, KeptStays
    <3>2. at[d] \in Running
      BY <1>2, <2>4, CallStays DEF WellFormed, TypeOK, Fits, Running, Ended
    <3>3. kept[d] = c \/ Replaced(c)
      BY <1>2, <2>2, <2>3, <3>1, <3>2 DEF PasswordInv, KeptIsPast, Is
    <3> QED
      BY <2>2, <3>1, <3>3, ReplacedStays
  <2>5. CASE call[d] = Null
    <3>1. kept'[d] = password[call'[d].user]
      BY <1>2, <2>1, <2>5, CallBegins, CallReads DEF Is
    <3>2. password[call[c].user] = c \/ Replaced(c)
      BY <1>2, <2>2, <2>3 DEF PasswordInv, PasswordHeld
    <3> QED
      BY <1>2, <2>2, <3>1, <3>2, ReplacedStays
  <2> QED
    BY <2>4, <2>5
<1> QED
  BY <1>1, <1>2 DEF PasswordInv, PasswordHeld, KeptIsPast

(* A new password stays until a call brings the next one, unless an update  *)
(* of the profile overlapped and wrote back the one it had read.            *)
THEOREM NewPasswordsStay == Spec => []NewPasswordStays
<1>1. Init => WellFormed /\ PasswordInv
  BY DEF Init, WellFormed, TypeOK, Fits, Past, PasswordInv, PasswordHeld, KeptIsPast,
     Changed, Is
<1>2. PasswordInv => NewPasswordStays
  BY DEF PasswordInv, PasswordHeld, NewPasswordStays, Answered, Changed, Replaced,
     Replaces, Is
<1> QED
  BY <1>1, <1>2, TypeStep, PasswordStep, PTL DEF Spec

-----------------------------------------------------------------------------
(* Codes that reset passwords.                                              *)

\* w is a reset of user u whose code was sent.
Sent(w, u) == w \in Calls /\ Is(w, {"reset"}) /\ at[w] = "answered" /\ call[w].user = u

CodesWereSent ==
    /\ \A u \in Users : reset[u] # Null => Sent(reset[u].code, u)
    /\ \A c \in Calls : Is(c, {"confirm", "finalize"}) => Sent(call[c].with, call[c].user)

LEMMA SentStays ==
    ASSUME WellFormed, [Next]_vars, NEW w, NEW u, Sent(w, u)
    PROVE  Sent(w, u)'
<1>1. w \in Calls /\ call[w] # Null /\ at[w] = "answered"
  BY DEF Sent, Is
<1>2. call'[w] = call[w] /\ at'[w] = at[w]
  BY <1>1, CallStays DEF Ended
<1> QED
  BY <1>1, <1>2 DEF Sent, Is

\* The calls that leave a code to a user.
Stores(d, u) ==
    /\ at[d] = "store_code" /\ at'[d] = "answered"
    /\ call[d].kind = "reset"
    /\ reset'[u].code = d
Confirms(d, u) ==
    /\ at[d] = "confirm_code"
    /\ call[d].kind = "confirm"
    /\ reset'[u].code = call[d].with

LEMMA CodeMoves ==
    ASSUME WellFormed, [Next]_vars, NEW u \in Users, reset'[u] # reset[u], reset'[u] # Null
    PROVE  \E d \in Calls :
              /\ at[d] \in Running /\ call[d] # Null /\ call[d].user = u
              /\ Stores(d, u) \/ Confirms(d, u)
<1>1. ASSUME NEW d \in Calls, StoreCode(d)
      PROVE  at[d] \in Running /\ call[d] # Null /\ call[d].user = u /\ Stores(d, u)
  <2>1. at[d] = "store_code" /\ at[d] \in Running
    BY <1>1 DEF StoreCode, Running
  <2>2. call[d] # Null /\ call[d].user \in Users /\ call[d].kind = "reset"
    BY <2>1, CallFields DEF Suits
  <2>3. at'[d] = "answered"
    BY <1>1, GoToEffect DEF StoreCode
  <2>4. call[d].user = u /\ reset'[u].code = d
    BY <1>1, <2>2 DEF StoreCode, WellFormed, TypeOK
  <2> QED
    BY <2>1, <2>2, <2>3, <2>4 DEF Stores
<1>2. ASSUME NEW d \in Calls, ConfirmCode(d)
      PROVE  at[d] \in Running /\ call[d] # Null /\ call[d].user = u /\ Confirms(d, u)
  <2>1. at[d] = "confirm_code" /\ at[d] \in Running
    BY <1>2 DEF ConfirmCode, Running
  <2>2. call[d] # Null /\ call[d].user \in Users /\ call[d].kind = "confirm"
    BY <2>1, CallFields DEF Suits
  <2>3. call[d].user = u /\ reset'[u].code = call[d].with
    BY <1>2, <2>2 DEF ConfirmCode, WellFormed, TypeOK
  <2> QED
    BY <2>1, <2>2, <2>3 DEF Confirms
<1>3. ASSUME NEW d \in Calls, DeleteCode(d) PROVE FALSE
  <2>1. call[d].user \in Users
    BY <1>3, CallFields DEF DeleteCode, Running
  <2> QED
    BY <1>3, <2>1 DEF DeleteCode, WellFormed, TypeOK
<1>4. ASSUME NEW v \in Users, ExpireCode(v) PROVE FALSE
  BY <1>4 DEF ExpireCode, WellFormed, TypeOK
<1> QED
  BY <1>1, <1>2, <1>3, <1>4, Writers

LEMMA CodeStep ==
    WellFormed /\ CodesWereSent /\ [Next]_vars => CodesWereSent'
<1> SUFFICES ASSUME WellFormed, CodesWereSent, [Next]_vars PROVE CodesWereSent'
  OBVIOUS
<1>1. ASSUME NEW u \in Users, reset'[u] # Null PROVE Sent(reset[u].code, u)'
  <2>1. CASE reset'[u] = reset[u]
    BY <1>1, <2>1, SentStays DEF CodesWereSent
  <2>2. ASSUME NEW d \in Calls, call[d] # Null, call[d].user = u, Stores(d, u)
        PROVE  Sent(reset[u].code, u)'
    BY <2>2, CallStays DEF Stores, Sent, Is
  <2>3. ASSUME NEW d \in Calls, call[d] # Null, call[d].user = u, Confirms(d, u)
        PROVE  Sent(reset[u].code, u)'
    <3>1. Sent(call[d].with, u)
      BY <2>3 DEF Confirms, CodesWereSent, Is
    <3> QED
      BY <2>3, <3>1, SentStays DEF Confirms
  <2> QED
    BY <1>1, <2>1, <2>2, <2>3, CodeMoves
<1>2. ASSUME NEW c \in Calls, Is(c, {"confirm", "finalize"})'
      PROVE  Sent(call[c].with, call[c].user)'
  <2>1. CASE call[c] # Null
    <3>1. call'[c] = call[c]
      BY <2>1, CallStays
    <3>2. Sent(call[c].with, call[c].user)
      BY <1>2, <2>1, <3>1 DEF CodesWereSent, Is
    <3> QED
      BY <3>1, <3>2, SentStays
  <2>2. CASE call[c] = Null
    <3>1. /\ call'[c].user \in Users
          /\ reset[call'[c].user] # Null
          /\ call'[c].with = reset[call'[c].user].code
      BY <1>2, <2>2, CallBegins, CallReads DEF Is
    <3>2. Sent(call'[c].with, call'[c].user)
      BY <3>1 DEF CodesWereSent
    <3> QED
      BY <3>2, SentStays
  <2> QED
    BY <2>1, <2>2
<1> QED
  BY <1>1, <1>2 DEF CodesWereSent

\* The newest code.
Renews(d, c) ==
    /\ d # c
    /\ Is(d, {"reset", "confirm"})
    /\ call[d].user = call[c].user
    /\ d \notin call[c].before
    /\ Is(d, {"confirm"}) => Overlap(c, d)
Renewed(c) == \E d \in Calls : Renews(d, c)

NewestIsStored ==
    \A c \in Calls : (Answered(c, {"reset"}) /\ reset[call[c].user] # Null) =>
       reset[call[c].user].code = c \/ Renewed(c)

\* A confirmation holds the newest code of those sent before it began.
EnteredIsPast ==
    \A d \in Calls : Is(d, {"confirm"}) =>
       \A c \in Calls :
          (c \in call[d].before /\ Answered(c, {"reset"}) /\ call[c].user = call[d].user) =>
             call[d].with = c \/ Renewed(c)

NewestInv == NewestIsStored /\ EnteredIsPast

LEMMA RenewedStays ==
    ASSUME WellFormed, [Next]_vars, NEW c \in Calls, call[c] # Null, Renewed(c)
    PROVE  Renewed(c)'
<1>1. PICK d \in Calls : Renews(d, c)
  BY DEF Renewed
<1>2. call[d] # Null
  BY <1>1 DEF Renews, Is
<1>3. Renews(d, c)'
  BY <1>1, <1>2, RelationStays DEF Renews, Is
<1> QED
  BY <1>3 DEF Renewed

LEMMA NewestStep ==
    WellFormed /\ NewestInv /\ [Next]_vars => NewestInv'
<1> SUFFICES ASSUME WellFormed, NewestInv, [Next]_vars PROVE NewestInv'
  OBVIOUS
<1>1. ASSUME NEW c \in Calls, Answered(c, {"reset"})', (reset[call[c].user] # Null)'
      PROVE  (reset[call[c].user].code = c \/ Renewed(c))'
  <2>1. call'[c] # Null /\ call'[c].kind = "reset" /\ at'[c] = "answered"
    BY <1>1 DEF Answered, Is
  <2>2. call[c] # Null /\ call'[c] = call[c]
    BY <2>1, CallBegins, CallStays DEF Running
  <2>3. call[c].user \in Users
    BY <2>2 DEF WellFormed, TypeOK, Call
  <2>4. CASE at[c] # "answered"
    <3>1. Ask(c) \/ Step(c) \/ Abort(c)
      BY <2>1, <2>4, Actor
    <3>2. StoreCode(c)
      <4>1. Fits(c)
        BY DEF WellFormed
      <4> QED
        BY <2>1, <2>2, <3>1, <4>1, Arrivals DEF Fits, Suits, Sign, WriteList, WriteProfile,
           ConfirmCode, DeleteCode, StoreOtp, DropOtp
    <3> QED
      BY <2>2, <2>3, <3>2 DEF StoreCode, WellFormed, TypeOK
  <2>5. CASE at[c] = "answered"
    <3>1. Answered(c, {"reset"})
      BY <2>1, <2>2, <2>5 DEF Answered, Is
    <3>2. CASE Renewed(c)
      BY <2>2, <3>2, RenewedStays
    <3>3. CASE reset'[call[c].user] = reset[call[c].user]
      BY <1>1, <2>2, <3>1, <3>2, <3>3 DEF NewestInv, NewestIsStored
    <3>4. ASSUME NEW d \in Calls, at[d] \in Running, call[d] # Null,
                 call[d].user = call[c].user,
                 Stores(d, call[c].user) \/ Confirms(d, call[c].user)
          PROVE  reset'[call[c].user].code = c \/ Renewed(c)
      <4>1. d # c
        BY <2>5, <3>4 DEF Running
      <4>2. d \notin call[c].before /\ (c \notin call[d].before => Overlap(c, d))
        BY <2>2, <3>4, <4>1, RunningOverlaps
      <4>3. CASE Stores(d, call[c].user)
        BY <3>4, <4>1, <4>2, <4>3 DEF Stores, Renewed, Renews, Is
      <4>4. CASE Confirms(d, call[c].user) /\ c \notin call[d].before
        BY <3>4, <4>1, <4>2, <4>4 DEF Confirms, Renewed, Renews, Is
      <4>5. CASE Confirms(d, call[c].user) /\ c \in call[d].before
        BY <3>1, <3>4, <4>5 DEF Confirms, NewestInv, EnteredIsPast, Is
      <4> QED
        BY <3>4, <4>3, <4>4, <4>5
    <3> QED
      BY <1>1, <2>2, <2>3, <3>2, <3>3, <3>4, CodeMoves
  <2> QED
    BY <2>4, <2>5
<1>2. ASSUME NEW d \in Calls, Is(d, {"confirm"})',
             NEW c \in Calls, (c \in call[d].before)', Answered(c, {"reset"})',
             (call[c].user = call[d].user)'
      PROVE  (call[d].with = c \/ Renewed(c))'
  <2>1. call'[d] # Null
    BY <1>2 DEF Is
  <2>2. at'[c] = at[c] /\ call[c] # Null /\ call'[c] = call[c]
    BY <1>2, <2>1, PastIsPast
  <2>3. Answered(c, {"reset"})
    BY <1>2, <2>2 DEF Answered, Is
  <2>4. call[d] # Null => call'[d] = call[d]
    BY CallStays
  <2>5. call'[d].with = c \/ Renewed(c)
    <3>1. CASE call[d] # Null
      BY <1>2, <2>2, <2>3, <2>4, <3>1 DEF NewestInv, EnteredIsPast, Is
    <3>2. CASE call[d] = Null
      BY <1>2, <2>1, <2>2, <2>3, <3>2, CallBegins, CallReads
         DEF NewestInv, NewestIsStored, Is
    <3> QED
      BY <3>1, <3>2
  <2> QED
    BY <2>2, <2>5, RenewedStays
<1> QED
  BY <1>1, <1>2 DEF NewestInv, NewestIsStored, EnteredIsPast

(* The code that was sent last is the one that counts, unless a             *)
(* confirmation overlapped and stored the one it had read.                  *)
THEOREM NewestCodesCount == Spec => []NewestCodeCounts
<1>1. Init => WellFormed /\ NewestInv
  BY DEF Init, WellFormed, TypeOK, Fits, Past, NewestInv, NewestIsStored, EnteredIsPast,
     Answered, Is
<1>2. NewestInv => NewestCodeCounts
  BY DEF NewestInv, NewestIsStored, NewestCodeCounts, Renewed, Renews
<1> QED
  BY <1>1, <1>2, TypeStep, NewestStep, PTL DEF Spec

\* Codes that were used.
Restored(c) ==
    \E v \in Calls : Is(v, {"confirm"}) /\ call[v].with = call[c].with /\ Overlap(v, c)

UsedIsGone ==
    \A c \in Calls : Answered(c, {"finalize"}) =>
       \A u \in Users : (reset[u] # Null /\ reset[u].code = call[c].with) => Restored(c)

\* Who confirms or uses a code after a use of it has found it restored.
LaterUses ==
    \A d \in Calls : Is(d, {"confirm", "finalize"}) =>
       \A c \in Calls :
          (/\ c \in call[d].before /\ Answered(c, {"finalize"})
           /\ call[c].with = call[d].with) => Restored(c)

UsedInv == CodesWereSent /\ UsedIsGone /\ LaterUses

LEMMA RestoredStays ==
    ASSUME WellFormed, [Next]_vars, NEW c \in Calls, call[c] # Null, Restored(c)
    PROVE  Restored(c)'
<1>1. PICK v \in Calls : Is(v, {"confirm"}) /\ call[v].with = call[c].with /\ Overlap(v, c)
  BY DEF Restored
<1>2. call[v] # Null
  BY <1>1 DEF Is
<1> QED
  BY <1>1, <1>2, RelationStays DEF Restored, Is

LEMMA UsedStep ==
    WellFormed /\ UsedInv /\ [Next]_vars => UsedInv'
<1> SUFFICES ASSUME WellFormed, UsedInv, [Next]_vars PROVE UsedInv'
  OBVIOUS
<1>1. CodesWereSent'
  BY CodeStep DEF UsedInv
<1>2. ASSUME NEW c \in Calls, Answered(c, {"finalize"})',
             NEW u \in Users, reset'[u] # Null, reset'[u].code = call'[c].with
      PROVE  Restored(c)'
  <2>1. call'[c] # Null /\ call'[c].kind = "finalize" /\ at'[c] = "answered"
    BY <1>2 DEF Answered, Is
  <2>2. call[c] # Null /\ call'[c] = call[c]
    BY <2>1, CallBegins, CallStays DEF Running
  <2>3. Sent(call[c].with, call[c].user)
    BY <2>1, <2>2 DEF UsedInv, CodesWereSent, Is
  <2>4. CASE at[c] # "answered"
    <3>1. Ask(c) \/ Step(c) \/ Abort(c)
      BY <2>1, <2>4, Actor
    <3>2. DeleteCode(c)
      <4>1. Fits(c)
        BY DEF WellFormed
      <4> QED
        BY <2>1, <2>2, <3>1, <4>1, Arrivals DEF Fits, Suits, Sign, WriteList, WriteProfile,
           StoreCode, ConfirmCode, StoreOtp, DropOtp
    <3>3. call[c].user # u /\ reset'[u] = reset[u]
      BY <1>2, <3>2 DEF DeleteCode, WellFormed, TypeOK
    <3>4. Sent(reset[u].code, u)
      BY <1>2, <3>3 DEF UsedInv, CodesWereSent
    <3> QED
      BY <1>2, <2>2, <2>3, <3>3, <3>4 DEF Sent
  <2>5. CASE at[c] = "answered"
    <3>1. Answered(c, {"finalize"})
      BY <2>1, <2>2, <2>5 DEF Answered, Is
    <3>2. CASE reset'[u] = reset[u]
      BY <1>2, <2>2, <3>1, <3>2, RestoredStays DEF UsedInv, UsedIsGone
    <3>3. ASSUME NEW d \in Calls, at[d] \in Running, call[d] # Null, call[d].user = u,
                 Stores(d, u) \/ Confirms(d, u)
          PROVE  Restored(c)
      <4>1. CASE Stores(d, u)
        BY <1>2, <2>2, <2>3, <4>1 DEF Stores, Sent
      <4>2. CASE Confirms(d, u)
        <5>1. d # c
          BY <2>5, <4>2 DEF Confirms
        <5>2. call[d].with = call[c].with /\ Is(d, {"confirm"})
          BY <1>2, <2>2, <3>3, <4>2 DEF Confirms, Is
        <5>3. CASE c \in call[d].before
          BY <3>1, <5>2, <5>3 DEF UsedInv, LaterUses, Is
        <5>4. CASE c \notin call[d].before
          <6>1. Overlap(d, c)
            BY <2>2, <3>3, <5>1, <5>4, RunningOverlaps DEF Overlap
          <6> QED
            BY <5>2, <6>1 DEF Restored
        <5> QED
          BY <5>3, <5>4
      <4> QED
        BY <3>3, <4>1, <4>2
    <3> QED
      BY <1>2, <2>2, <3>2, <3>3, CodeMoves, RestoredStays
  <2> QED
    BY <2>4, <2>5
<1>3. ASSUME NEW d \in Calls, Is(d, {"confirm", "finalize"})',
             NEW c \in Calls, (c \in call[d].before)', Answered(c, {"finalize"})',
             (call[c].with = call[d].with)'
      PROVE  Restored(c)'
  <2>1. call'[d] # Null
    BY <1>3 DEF Is
  <2>2. at'[c] = at[c] /\ call[c] # Null /\ call'[c] = call[c]
    BY <1>3, <2>1, PastIsPast
  <2>3. Answered(c, {"finalize"})
    BY <1>3, <2>2 DEF Answered, Is
  <2>4. CASE call[d] # Null
    <3>1. call'[d] = call[d]
      BY <2>4, CallStays
    <3>2. Restored(c)
      BY <1>3, <2>2, <2>3, <2>4, <3>1 DEF UsedInv, LaterUses, Is
    <3> QED
      BY <2>2, <3>2, RestoredStays
  <2>5. CASE call[d] = Null
    <3>1. /\ call'[d].user \in Users
          /\ reset[call'[d].user] # Null
          /\ call'[d].with = reset[call'[d].user].code
      BY <1>3, <2>1, <2>5, CallBegins, CallReads DEF Is
    <3>2. Restored(c)
      BY <1>3, <2>2, <2>3, <3>1 DEF UsedInv, UsedIsGone
    <3> QED
      BY <2>2, <3>2, RestoredStays
  <2> QED
    BY <2>4, <2>5
<1> QED
  BY <1>1, <1>2, <1>3 DEF UsedInv, UsedIsGone, LaterUses

LEMMA AlwaysUsed == Spec => []UsedInv
<1>1. Init => WellFormed /\ UsedInv
  BY DEF Init, WellFormed, TypeOK, Fits, Past, UsedInv, CodesWereSent, UsedIsGone,
     LaterUses, Answered, Is
<1> QED
  BY <1>1, TypeStep, UsedStep, PTL DEF Spec

(* A code resets a password once, unless two resets overlapped or the code  *)
(* was confirmed again while one of them ran.                               *)
THEOREM CodesResetOnce == Spec => []OneResetPerCode
<1>1. UsedInv => OneResetPerCode
  <2> SUFFICES ASSUME UsedInv, NEW c \in Calls, NEW d \in Calls, c # d,
                      Answered(c, {"finalize"}), Answered(d, {"finalize"}),
                      call[c].with = call[d].with, ~Overlap(c, d)
               PROVE  Restored(c) \/ Restored(d)
    BY DEF OneResetPerCode, Restored
  <2>1. c \in call[d].before \/ d \in call[c].before
    BY DEF Overlap
  <2> QED
    BY <2>1 DEF UsedInv, LaterUses, Answered, Is
<1> QED
  BY <1>1, AlwaysUsed, PTL

-----------------------------------------------------------------------------
(* Devices.                                                                 *)

\* A row belongs to a call that was made, and a call that is about to insert
\* one overlaps every call that inserted one for its user.
RowsHaveCalls == \A c \in Calls : devices[c] # Null => call[c] # Null
InsertsOverlap ==
    \A c \in Calls : at[c] = "insert_device" =>
       \A d \in Calls :
          (d # c /\ devices[d] # Null /\ call[d].user = call[c].user) => Overlap(c, d)

RowInv == RowsHaveCalls /\ OnlyOverlapDoublesDevices /\ InsertsOverlap

LEMMA RowMoves ==
    ASSUME WellFormed, [Next]_vars, NEW c \in Calls
    PROVE  /\ devices[c] # Null => devices'[c] # Null
           /\ (devices[c] = Null /\ devices'[c] # Null) => InsertDevice(c)
<1>1. ASSUME NEW d \in Calls, PutDevice(d)
      PROVE  devices[c] # Null <=> devices'[c] # Null
  <2>1. Brings(d) # Null
    BY <1>1, CallFields, AccountsAssumption DEF PutDevice, Running
  <2>2. \/ devices' = devices
        \/ \E e \in DevicesOf(call[d].user) : devices' = [devices EXCEPT ![e] = Brings(d)]
    BY <1>1 DEF PutDevice
  <2> QED
    BY <2>1, <2>2 DEF DevicesOf, WellFormed, TypeOK
<1>2. ASSUME NEW d \in Calls, InsertDevice(d)
      PROVE  devices'[d] # Null /\ (c # d => devices'[c] = devices[c])
  <2>1. Brings(d) # Null
    BY <1>2, CallFields, AccountsAssumption DEF InsertDevice, Running
  <2> QED
    BY <1>2, <2>1 DEF InsertDevice, WellFormed, TypeOK
<1> QED
  BY <1>1, <1>2, Writers

LEMMA RowStep ==
    WellFormed /\ RowInv /\ [Next]_vars => RowInv'
<1> SUFFICES ASSUME WellFormed, RowInv, [Next]_vars PROVE RowInv'
  OBVIOUS
<1>1. ASSUME NEW c \in Calls, InsertDevice(c)
      PROVE  /\ at[c] = "insert_device" /\ at[c] \in Running
             /\ call[c] # Null /\ call'[c] = call[c]
             /\ \A d \in Calls : d # c => devices'[d] = devices[d] /\ at'[d] = at[d]
             /\ at'[c] # "insert_device"
  <2>1. at[c] = "insert_device" /\ at[c] \in Running
    BY <1>1 DEF InsertDevice, Running
  <2>2. call[c] # Null
    BY <2>1, CallFields
  <2> QED
    BY <1>1, <2>1, <2>2 DEF InsertDevice, GoTo, AfterDevice, WellFormed, TypeOK
<1>2. RowsHaveCalls'
  <2> SUFFICES ASSUME NEW c \in Calls, devices'[c] # Null PROVE call'[c] # Null
    BY DEF RowsHaveCalls
  <2> QED
    BY <1>1, RowMoves, CallStays DEF RowInv, RowsHaveCalls
<1>3. ASSUME NEW c \in Calls, NEW d \in Calls, c # d,
             devices'[c] # Null, devices'[d] # Null, call'[c].user = call'[d].user
      PROVE  Overlap(c, d)'
  <2>1. CASE devices[c] # Null /\ devices[d] # Null
    <3>1. call[c] # Null /\ call[d] # Null
      BY <2>1 DEF RowInv, RowsHaveCalls
    <3> QED
      BY <1>3, <2>1, <3>1, RelationStays DEF RowInv, OnlyOverlapDoublesDevices
  <2>2. ASSUME NEW e \in Calls, NEW f \in Calls, e # f, devices[e] = Null,
               devices'[e] # Null, devices'[f] # Null, call'[e].user = call'[f].user
        PROVE  Overlap(e, f)'
    <3>1. InsertDevice(e)
      BY <2>2, RowMoves
    <3>2. devices[f] # Null
      BY <1>1, <2>2, <3>1
    <3>3. call[f] # Null /\ call[e] # Null /\ call'[f] = call[f] /\ call'[e] = call[e]
      BY <1>1, <3>1, <3>2, CallStays DEF RowInv, RowsHaveCalls
    <3>4. Overlap(e, f)
      BY <1>1, <2>2, <3>1, <3>2, <3>3 DEF RowInv, InsertsOverlap
    <3> QED
      BY <3>3, <3>4, RelationStays
  <2>3. Overlap(d, c)' => Overlap(c, d)'
    BY DEF Overlap
  <2> QED
    BY <1>3, <2>1, <2>2, <2>3
<1>4. ASSUME NEW c \in Calls, at'[c] = "insert_device",
             NEW d \in Calls, d # c, devices'[d] # Null, call'[d].user = call'[c].user
      PROVE  Overlap(c, d)'
  <2>1. CASE at[c] = "insert_device"
    <3>1. call[c] # Null /\ at[c] \in Running /\ call'[c] = call[c]
      BY <2>1, CallFields, CallStays DEF Running
    <3>2. CASE devices[d] # Null
      <4>1. call[d] # Null /\ call'[d] = call[d]
        BY <3>2, CallStays DEF RowInv, RowsHaveCalls
      <4> QED
        BY <1>4, <2>1, <3>1, <3>2, <4>1, RelationStays DEF RowInv, InsertsOverlap
    <3>3. CASE devices[d] = Null
      <4>1. at[d] \in Running /\ call[d] # Null
        BY <1>1, <1>4, <3>3, RowMoves
      <4>2. Overlap(c, d)
        BY <1>4, <3>1, <4>1, RunningOverlaps
      <4> QED
        BY <3>1, <4>1, <4>2, RelationStays
    <3> QED
      BY <3>2, <3>3
  <2>2. CASE at[c] # "insert_device"
    <3>1. Ask(c) \/ Step(c) \/ Abort(c)
      BY <1>4, <2>2, Actor
    <3>2. PutDevice(c)
      BY <1>4, <3>1, Arrivals
    <3>3. at[c] = "put_device" /\ at[c] \in Running /\ call'[c] = call[c]
      BY <3>2 DEF PutDevice, Running
    <3>4. DevicesOf(call[c].user) = {} /\ devices' = devices
      <4>1. ~GoTo(c, AfterDevice(c)) /\ ~GoTo(c, "failed")
        BY <1>4, GoToEffect DEF AfterDevice
      <4> QED
        BY <3>2, <4>1 DEF PutDevice
    <3>5. call[d] # Null /\ call'[d] = call[d]
      BY <1>4, <3>4, CallStays DEF RowInv, RowsHaveCalls
    <3> QED
      BY <1>4, <3>3, <3>4, <3>5 DEF DevicesOf
  <2> QED
    BY <2>1, <2>2
<1> QED
  BY <1>2, <1>3, <1>4 DEF RowInv, OnlyOverlapDoublesDevices, InsertsOverlap

(* A user has two device rows only from calls that overlapped.              *)
THEOREM DeviceDoublesOverlap == Spec => []OnlyOverlapDoublesDevices
<1>1. Init => WellFormed /\ RowInv
  BY DEF Init, WellFormed, TypeOK, Fits, Past, RowInv, RowsHaveCalls,
     OnlyOverlapDoublesDevices, InsertsOverlap
<1>2. RowInv => OnlyOverlapDoublesDevices
  BY DEF RowInv
<1> QED
  BY <1>1, <1>2, TypeStep, RowStep, PTL DEF Spec

\* The device that a reset brought.
HasReset(c) == Is(c, {"device_finalize"}) /\ at[c] \in {"drop_otp", "answered"}
Holds(c) == \E d \in DevicesOf(call[c].user) : devices[d] = call[c].with
Supersedes(d, c) ==
    /\ d # c
    /\ Is(d, {"login", "device_finalize"})
    /\ call[d].user = call[c].user
    /\ d \notin call[c].before
    /\ Is(d, {"login"}) => Overlap(c, d)
Superseded(c) == \E d \in Calls : Supersedes(d, c)

ResetsHold ==
    \A c \in Calls : HasReset(c) =>
       DevicesOf(call[c].user) # {} /\ (Holds(c) \/ Superseded(c))

\* A login that brings a device began before any reset of the user had ended.
LoginsFindNone ==
    \A d \in Calls : (Is(d, {"login"}) /\ at[d] \in {"put_device", "insert_device"}) =>
       \A c \in Calls : c \in call[d].before =>
          ~(HasReset(c) /\ call[c].user = call[d].user)

ResetInv == RowsHaveCalls /\ ResetsHold /\ LoginsFindNone

LEMMA SupersededStays ==
    ASSUME WellFormed, [Next]_vars, NEW c \in Calls, call[c] # Null, Superseded(c)
    PROVE  Superseded(c)'
<1>1. PICK d \in Calls : Supersedes(d, c)
  BY DEF Superseded
<1>2. call[d] # Null
  BY <1>1 DEF Supersedes, Is
<1>3. Supersedes(d, c)'
  BY <1>1, <1>2, RelationStays DEF Supersedes, Is
<1> QED
  BY <1>3 DEF Superseded

\* A call that writes a row leaves its device in a row of its user.
LEMMA RowWritten ==
    ASSUME WellFormed, RowsHaveCalls, [Next]_vars, NEW e \in Calls,
           PutDevice(e) \/ InsertDevice(e), devices' # devices \/ at'[e] = "drop_otp"
    PROVE  /\ at[e] \in {"put_device", "insert_device"} /\ at[e] \in Running
           /\ call[e] # Null /\ call'[e] = call[e]
           /\ call[e].kind \in {"login", "device_finalize"}
           /\ \E d \in Calls :
                /\ call'[d] # Null /\ call'[d] = call[d] /\ call[d].user = call[e].user
                /\ devices'[d] = Brings(e) /\ Brings(e) # Null
                /\ \A f \in Calls : f # d => devices'[f] = devices[f]
<1>1. at[e] \in {"put_device", "insert_device"} /\ at[e] \in Running
  BY DEF PutDevice, InsertDevice, Running
<1>2. /\ call[e] # Null /\ call'[e] = call[e]
      /\ call[e].kind \in {"login", "device_finalize"}
      /\ Brings(e) # Null
  BY <1>1, CallFields, CallStays, AccountsAssumption DEF Suits
<1> DEFINE Row(d) ==
      /\ call'[d] # Null /\ call'[d] = call[d] /\ call[d].user = call[e].user
      /\ devices'[d] = Brings(e) /\ Brings(e) # Null
      /\ \A f \in Calls : f # d => devices'[f] = devices[f]
<1>3. CASE InsertDevice(e)
  <2>1. devices' = [devices EXCEPT ![e] = Brings(e)]
    BY <1>3 DEF InsertDevice
  <2>2. devices'[e] = Brings(e) /\ \A f \in Calls : f # e => devices'[f] = devices[f]
    BY <2>1 DEF WellFormed, TypeOK
  <2>3. Row(e)
    BY <1>2, <2>2
  <2> QED
    BY <1>1, <1>2, <2>3
<1>4. CASE PutDevice(e)
  <2>1. PICK d \in DevicesOf(call[e].user) : devices' = [devices EXCEPT ![d] = Brings(e)]
    <3>1. ~GoTo(e, "insert_device") \/ devices' # devices
      BY GoToEffect
    <3>2. ~GoTo(e, "failed") \/ devices' # devices
      BY GoToEffect
    <3> QED
      BY <1>4, <3>1, <3>2 DEF PutDevice
  <2>2. d \in Calls /\ call[d] # Null /\ call[d].user = call[e].user
    BY DEF DevicesOf, RowsHaveCalls
  <2>3. call'[d] = call[d]
    BY <2>2, CallStays
  <2>4. devices'[d] = Brings(e) /\ \A f \in Calls : f # d => devices'[f] = devices[f]
    BY <2>1, <2>2 DEF WellFormed, TypeOK
  <2>5. Row(d)
    BY <1>2, <2>2, <2>3, <2>4
  <2> QED
    BY <1>1, <1>2, <2>2, <2>5
<1> QED
  BY <1>3, <1>4

LEMMA ResetStep ==
    WellFormed /\ ResetInv /\ RowsHaveCalls' /\ [Next]_vars => ResetInv'
<1> SUFFICES ASSUME WellFormed, ResetInv, RowsHaveCalls', [Next]_vars PROVE ResetInv'
  OBVIOUS
<1>0. RowsHaveCalls
  BY DEF ResetInv
<1>1. ASSUME NEW d \in Calls, devices[d] # Null
      PROVE  devices'[d] # Null /\ call'[d] = call[d]
  BY <1>0, <1>1, RowMoves, CallStays DEF RowsHaveCalls
<1>2. ASSUME NEW c \in Calls, HasReset(c)'
      PROVE  (DevicesOf(call[c].user) # {} /\ (Holds(c) \/ Superseded(c)))'
  <2>1. call'[c] # Null /\ at'[c] \in {"drop_otp", "answered"}
        /\ call'[c].kind = "device_finalize"
    BY <1>2 DEF HasReset, Is
  <2>2. call[c] # Null /\ call'[c] = call[c]
    <3>1. CASE call[c] = Null
      <4>1. at'[c] = "drop_otp" /\ Ask(c)
        BY <2>1, <3>1, CallBegins DEF Running
      <4>2. PutDevice(c) \/ InsertDevice(c)
        BY <4>1, Arrivals
      <4> QED
        BY <3>1, <4>2, CallFields DEF PutDevice, InsertDevice, Running
    <3> QED
      BY <3>1, CallStays
  <2>3. CASE ~HasReset(c)
    <3>1. at'[c] # at[c]
      BY <2>1, <2>2, <2>3 DEF HasReset, Is
    <3>2. Ask(c) \/ Step(c) \/ Abort(c)
      BY <3>1, Actor
    <3>3. Fits(c)
      BY DEF WellFormed
    <3>4. at'[c] = "drop_otp"
      <4>1. CASE at'[c] = "answered"
        <5>1. DropOtp(c)
          BY <2>1, <2>2, <3>2, <3>3, <4>1, Arrivals DEF Fits, Suits, Sign, WriteList,
             WriteProfile, StoreCode, ConfirmCode, DeleteCode, StoreOtp
        <5> QED
          BY <2>1, <2>2, <2>3, <5>1 DEF DropOtp, HasReset, Is
      <4> QED
        BY <2>1, <4>1
    <3>5. PutDevice(c) \/ InsertDevice(c)
      BY <3>2, <3>4, Arrivals
    <3>6. PICK d \in Calls : /\ call'[d] # Null /\ call'[d] = call[d]
                             /\ call[d].user = call[c].user
                             /\ devices'[d] = Brings(c) /\ Brings(c) # Null
      BY <1>0, <3>4, <3>5, RowWritten
    <3>7. Brings(c) = call[c].with
      BY <2>1, <2>2 DEF Brings
    <3>8. d \in DevicesOf(call[c].user)'
      BY <2>2, <3>6 DEF DevicesOf
    <3> QED
      BY <2>2, <3>6, <3>7, <3>8 DEF Holds
  <2>4. CASE HasReset(c)
    <3>1. DevicesOf(call[c].user) # {} /\ (Holds(c) \/ Superseded(c))
      BY <2>4 DEF ResetInv, ResetsHold
    <3>2. (DevicesOf(call[c].user) # {})'
      <4>1. PICK d \in Calls : devices[d] # Null /\ call[d].user = call[c].user
        BY <3>1 DEF DevicesOf
      <4> QED
        BY <1>1, <2>2, <4>1 DEF DevicesOf
    <3>3. CASE Superseded(c)
      BY <2>2, <3>2, <3>3, SupersededStays
    <3>4. ASSUME NEW d \in Calls, devices[d] # Null, call[d].user = call[c].user,
                 devices[d] = call[c].with, devices'[d] = devices[d]
          PROVE  Holds(c)'
      BY <1>1, <2>2, <3>4 DEF Holds, DevicesOf
    <3>5. CASE Holds(c) /\ devices' = devices
      BY <3>2, <3>4, <3>5 DEF Holds, DevicesOf
    <3>6. ASSUME NEW e \in Calls, PutDevice(e) \/ InsertDevice(e), devices' # devices,
                 Holds(c)
          PROVE  Holds(c)' \/ Superseded(c)
      <4>1. /\ at[e] \in {"put_device", "insert_device"} /\ at[e] \in Running
            /\ call[e] # Null
            /\ call[e].kind \in {"login", "device_finalize"}
        BY <1>0, <3>6, RowWritten
      <4>2. PICK d \in Calls : /\ call[d].user = call[e].user
                               /\ \A f \in Calls : f # d => devices'[f] = devices[f]
        BY <1>0, <3>6, RowWritten
      <4>3. CASE call[e].user # call[c].user
        <5>1. PICK f \in Calls : devices[f] # Null /\ call[f].user = call[c].user
                                 /\ devices[f] = call[c].with
          BY <3>6 DEF Holds, DevicesOf
        <5>2. devices'[f] = devices[f]
          BY <4>2, <4>3, <5>1
        <5> QED
          BY <3>4, <5>1, <5>2
      <4>4. CASE call[e].user = call[c].user
        <5>1. e # c
          BY <2>4, <4>1 DEF HasReset
        <5>2. e \notin call[c].before /\ (c \notin call[e].before => Overlap(c, e))
          BY <2>2, <4>1, <5>1, RunningOverlaps
        <5>3. call[e].kind = "login" => c \notin call[e].before
          BY <2>4, <4>1, <4>4 DEF ResetInv, LoginsFindNone, Is
        <5> QED
          BY <4>1, <4>4, <5>1, <5>2, <5>3 DEF Superseded, Supersedes, Is
      <4> QED
        BY <4>3, <4>4
    <3> QED
      BY <2>2, <3>1, <3>2, <3>3, <3>5, <3>6, Writers, SupersededStays
  <2> QED
    BY <2>3, <2>4
<1>3. ASSUME NEW d \in Calls, Is(d, {"login"})', at'[d] \in {"put_device", "insert_device"},
             NEW c \in Calls, (c \in call[d].before)', HasReset(c)',
             (call[c].user = call[d].user)'
      PROVE  FALSE
  <2>1. call'[d] # Null /\ call'[d].kind = "login"
    BY <1>3 DEF Is
  <2>2. at'[c] = at[c] /\ call[c] # Null /\ call'[c] = call[c]
    BY <1>3, <2>1, PastIsPast
  <2>3. HasReset(c)
    BY <1>3, <2>2 DEF HasReset, Is
  <2>4. CASE at[d] \in {"put_device", "insert_device"}
    <3>1. call'[d] = call[d] /\ call[d] # Null
      BY <2>4, CallFields, CallStays DEF Running
    <3> QED
      BY <1>3, <2>1, <2>2, <2>3, <2>4, <3>1 DEF ResetInv, LoginsFindNone, Is
  <2>5. CASE at[d] \notin {"put_device", "insert_device"}
    <3>1. Ask(d) \/ Step(d) \/ Abort(d)
      BY <1>3, <2>5, Actor
    <3>2. ~PutDevice(d)
      BY <2>5 DEF PutDevice
    <3>3. ASSUME NEW u \in Users, FinalizeDeviceLookup(d, u) PROVE FALSE
      BY <2>1, <3>3 DEF FinalizeDeviceLookup, Start, WellFormed, TypeOK
    <3>4. CheckDevice(d)
      BY <1>3, <3>1, <3>2, <3>3, Arrivals
    <3>5. call'[d] = call[d] /\ DevicesOf(call[d].user) = {}
      BY <1>3, <3>4, GoToEffect DEF CheckDevice
    <3> QED
      BY <1>3, <2>2, <2>3, <3>5 DEF ResetInv, ResetsHold
  <2> QED
    BY <2>4, <2>5
<1> QED
  BY <1>2, <1>3 DEF ResetInv, ResetsHold, LoginsFindNone

(* A device that was reset stays until the next reset, unless a login       *)
(* overlapped that had found no device.                                     *)
THEOREM ResetDevicesStay == Spec => []ResetDeviceStays
<1>1. Init => WellFormed /\ RowInv /\ ResetInv
  BY DEF Init, WellFormed, TypeOK, Fits, Past, RowInv, RowsHaveCalls,
     OnlyOverlapDoublesDevices, InsertsOverlap, ResetInv, ResetsHold, LoginsFindNone,
     HasReset, Is
<1>2. RowInv => RowsHaveCalls
  BY DEF RowInv
<1>3. ResetInv => ResetDeviceStays
  BY DEF ResetInv, ResetsHold, ResetDeviceStays, HasReset, Holds, Superseded, Supersedes,
     Answered, Is
<1> QED
  BY <1>1, <1>2, <1>3, TypeStep, RowStep, ResetStep, PTL DEF Spec

-----------------------------------------------------------------------------
(* What a user can rely on whose calls take turns.                          *)

TakesTurns(u) ==
    \A c, d \in Calls :
       (/\ c # d /\ call[c] # Null /\ call[d] # Null
        /\ call[c].user = u /\ call[d].user = u) => ~Overlap(c, d)

\* Nobody asked for one of kinds for the same user once c had ended.
IsLast(c, kinds) ==
    \A d \in Calls : Is(d, kinds) /\ call[d].user = call[c].user => c \notin call[d].before

\* One device, the one of the last reset of it, the password that was chosen last, the
\* code that was sent last, and no code that works twice.
AccountHolds(u) ==
    /\ \A c, d \in DevicesOf(u) : c = d
    /\ \A c \in Calls :
          (/\ Answered(c, {"device_finalize"}) /\ call[c].user = u
           /\ IsLast(c, {"device_finalize"})) =>
             \E d \in DevicesOf(u) : devices[d] = call[c].with
    /\ \A c \in Calls :
          (/\ Answered(c, {"change_password", "finalize"})
           /\ call[c].user = u /\ u \in BvnUsers
           /\ IsLast(c, {"change_password", "finalize"})) => password[u] = c
    /\ \A c \in Calls :
          (/\ Answered(c, {"reset"}) /\ call[c].user = u
           /\ IsLast(c, {"reset"}) /\ reset[u] # Null) => reset[u].code = c
    /\ \A c, d \in Calls :
          (/\ c # d /\ call[c].user = u /\ call[d].user = u
           /\ Answered(c, {"finalize"}) /\ Answered(d, {"finalize"})) =>
             call[c].with # call[d].with

LEMMA InTurn ==
    ASSUME NEW u \in Users, TakesTurns(u), NEW c \in Calls, NEW d \in Calls, c # d,
           call[c] # Null, call[d] # Null, call[c].user = u, call[d].user = u
    PROVE  /\ ~Overlap(c, d) /\ ~Overlap(d, c)
           /\ d \notin call[c].before => c \in call[d].before
BY DEF TakesTurns, Overlap

(* The calls of one user have to overlap for that user's account to suffer; *)
(* the calls of others, and calls that end early, do not matter.            *)
THEOREM TurnsKeepAccounts == Spec => [](\A u \in Users : TakesTurns(u) => AccountHolds(u))
<1>1. ASSUME RowsHaveCalls, UsedInv, OnlyOverlapDoublesDevices, ResetDeviceStays,
             NewPasswordStays, NewestCodeCounts, OneResetPerCode,
             NEW u \in Users, TakesTurns(u)
      PROVE  AccountHolds(u)
  <2>1. ASSUME NEW c \in DevicesOf(u), NEW d \in DevicesOf(u) PROVE c = d
    BY <1>1, <2>1, InTurn DEF DevicesOf, OnlyOverlapDoublesDevices, RowsHaveCalls
  <2>2. ASSUME NEW c \in Calls, Answered(c, {"device_finalize"}), call[c].user = u,
               IsLast(c, {"device_finalize"})
        PROVE  \E d \in DevicesOf(u) : devices[d] = call[c].with
    <3>1. ASSUME NEW d \in Calls \ {c}, Is(d, {"login", "device_finalize"}),
                 call[d].user = u, d \notin call[c].before
          PROVE  Is(d, {"login"}) /\ ~Overlap(c, d)
      <4>1. /\ ~Overlap(c, d)
            /\ c \in call[d].before
        BY <1>1, <2>2, <3>1, InTurn DEF Answered, Is
      <4>2. ~Is(d, {"device_finalize"})
        BY <2>2, <3>1, <4>1 DEF IsLast
      <4> QED
        BY <3>1, <4>1, <4>2 DEF Is
    <3> QED
      BY <1>1, <2>2, <3>1 DEF ResetDeviceStays
  <2>3. ASSUME NEW c \in Calls, Answered(c, {"change_password", "finalize"}),
               call[c].user = u, u \in BvnUsers,
               IsLast(c, {"change_password", "finalize"})
        PROVE  password[u] = c
    <3>1. ASSUME NEW d \in Calls \ {c}, Is(d, {"change_password", "finalize", "update"}),
                 call[d].user = u, d \notin call[c].before
          PROVE  Is(d, {"update"}) /\ ~Overlap(c, d)
      <4>1. /\ ~Overlap(c, d)
            /\ c \in call[d].before
        BY <1>1, <2>3, <3>1, InTurn DEF Answered, Is
      <4>2. ~Is(d, {"change_password", "finalize"})
        BY <2>3, <3>1, <4>1 DEF IsLast
      <4> QED
        BY <3>1, <4>1, <4>2 DEF Is
    <3> QED
      BY <1>1, <2>3, <3>1 DEF NewPasswordStays
  <2>4. ASSUME NEW c \in Calls, Answered(c, {"reset"}), call[c].user = u,
               IsLast(c, {"reset"}), reset[u] # Null
        PROVE  reset[u].code = c
    <3>1. ASSUME NEW d \in Calls \ {c}, Is(d, {"reset", "confirm"}),
                 call[d].user = u, d \notin call[c].before
          PROVE  Is(d, {"confirm"}) /\ ~Overlap(c, d)
      <4>1. /\ ~Overlap(c, d)
            /\ c \in call[d].before
        BY <1>1, <2>4, <3>1, InTurn DEF Answered, Is
      <4>2. ~Is(d, {"reset"})
        BY <2>4, <3>1, <4>1 DEF IsLast
      <4> QED
        BY <3>1, <4>1, <4>2 DEF Is
    <3> QED
      BY <1>1, <2>4, <3>1 DEF NewestCodeCounts
  <2>5. ASSUME NEW c \in Calls, NEW d \in Calls, c # d, call[c].user = u, call[d].user = u,
               Answered(c, {"finalize"}), Answered(d, {"finalize"}),
               call[c].with = call[d].with
        PROVE  FALSE
    <3>1. ~Overlap(c, d)
      BY <1>1, <2>5, InTurn DEF Answered, Is
    <3>2. PICK v \in Calls : /\ Is(v, {"confirm"})
                             /\ call[v].with = call[c].with
                             /\ Overlap(v, c) \/ Overlap(v, d)
      BY <1>1, <2>5, <3>1 DEF OneResetPerCode
    <3>3. call[v].user = call[call[c].with].user /\ call[c].user = call[call[c].with].user
      BY <1>1, <2>5, <3>2 DEF UsedInv, CodesWereSent, Sent, Answered, Is
    <3> QED
      BY <1>1, <2>5, <3>2, <3>3, InTurn DEF Answered, Is, Overlap
  <2> QED
    BY <2>1, <2>2, <2>3, <2>4, <2>5 DEF AccountHolds
<1>2. /\ RowsHaveCalls /\ UsedInv /\ OnlyOverlapDoublesDevices /\ ResetDeviceStays
      /\ NewPasswordStays /\ NewestCodeCounts /\ OneResetPerCode
      => \A u \in Users : TakesTurns(u) => AccountHolds(u)
  BY <1>1
<1>3. Spec => []RowsHaveCalls
  <2>1. Init => WellFormed /\ RowInv
    BY DEF Init, WellFormed, TypeOK, Fits, Past, RowInv, RowsHaveCalls,
       OnlyOverlapDoublesDevices, InsertsOverlap
  <2>2. RowInv => RowsHaveCalls
    BY DEF RowInv
  <2> QED
    BY <2>1, <2>2, TypeStep, RowStep, PTL DEF Spec
<1> QED
  BY <1>2, <1>3, AlwaysUsed, DeviceDoublesOverlap, ResetDevicesStay, NewPasswordsStay,
     NewestCodesCount, CodesResetOnce, PTL

(* The list of logged out tokens is the exception: it is one for all users, *)
(* so that the logouts of all of them have to take turns.                   *)
THEOREM TurnsKeepLogouts ==
    Spec => [](\/ \E c, d \in Calls : Is(c, {"logout"}) /\ Is(d, {"logout"}) /\ Overlap(c, d)
               \/ \A c \in Calls : Answered(c, {"logout"}) => call[c].with \in blacklist)
<1>1. LoggedOutStaysListed =>
         \/ \E c, d \in Calls : Is(c, {"logout"}) /\ Is(d, {"logout"}) /\ Overlap(c, d)
         \/ \A c \in Calls : Answered(c, {"logout"}) => call[c].with \in blacklist
  BY DEF LoggedOutStaysListed, Answered
<1> QED
  BY <1>1, LoggedOutIsListed, PTL
=============================================================================
