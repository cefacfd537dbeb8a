\* A transfer of all that a client owns is not refused.
CONSTANTS
    Offices = {o1}
    MAX_BANK_ACCOUNTS = 3
    MIN_BALANCE = 1
    MAX_BALANCE = 4
    WORD = 16
    pa = pa
    p1 = p1
    p2 = p2
    AdminPassword = pa
    Passwords = {pa, p1, p2}
    Requests <- CreationsAndTransfers
    NoRequest = NoRequest
    NoReply = NoReply
    NoAccount = NoAccount
    Nobody = Nobody
    SerialCreates = TRUE
SPECIFICATION Spec
PROPERTY IsLedgerOfTypesH
