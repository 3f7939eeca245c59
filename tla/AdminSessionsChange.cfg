SPECIFICATION SessionsSpec
CONSTANTS
    Requesters = {q1, q2}
    MaxPasswords = 2
    MaxKept = 0
INVARIANT OthersLoggedOut
CHECK_DEADLOCK FALSE
