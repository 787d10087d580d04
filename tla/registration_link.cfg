CONSTANTS
    plain = plain
    capital = capital
    Null = Null
    Emails <- MCEmails
    Lower <- MCLower
    Tokens = {k1}
    Mobiles = {m}
    Threads = {t1, t2}
SPECIFICATION Spec
PROPERTIES
    VerificationStays
CHECK_DEADLOCK FALSE
