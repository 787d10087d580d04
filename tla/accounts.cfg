CONSTANTS
    Null = Null
    Users = {u1}
    BvnUsers = {u1}
    Calls = {c1, c2, c3, c4}
    MaxRunning = 2
SPECIFICATION Spec
SYMMETRY MCSymmetry
INVARIANTS
    TypeOK
    LoggedOutStaysListed
    NewPasswordStays
    OneResetPerCode
    NewestCodeCounts
    OnlyOverlapDoublesDevices
    ResetDeviceStays
CHECK_DEADLOCK FALSE
