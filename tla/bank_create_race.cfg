\* Two creations of different ids side by side.
CONSTANTS
    Offices = {o1, o2}
    MAX_BANK_ACCOUNTS = 3
    MIN_BALANCE = 1
    MAX_BALANCE = 3
    WORD = 8
    pa = pa
    p1 = p1
    p2 = p2
    AdminPassword = pa
    Passwords = {pa, p1, p2}
    Requests <- Creations
    NoRequest = NoRequest
    NoReply = NoReply
    NoAccount = NoAccount
    Nobody = Nobody
    SerialCreates = FALSE
SPECIFICATION Spec
CHECK_DEADLOCK FALSE
INVARIANT CreatedAsAsked
