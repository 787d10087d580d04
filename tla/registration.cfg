CONSTANTS
    plain = plain
    capital = capital
    Null = Null
    Emails <- MCEmails
    Lower <- MCLower
    Tokens = {k1, k2}
    Mobiles = {m}
    Threads = {t1, t2}
SPECIFICATION Spec
SYMMETRY MCSymmetry
INVARIANTS
    TypeOK
    UserIsVerified
    OneUserPerSession
    SessionEndsWithUser
PROPERTIES
    OtpStays
CHECK_DEADLOCK FALSE
