\* Creations side by side, with room for three clients: accounts[] and
\* numAccounts are raced for, and the array can be overrun.
CONSTANTS
    Offices = {o1, o2}
    MAX_BANK_ACCOUNTS = 4
    MIN_BALANCE = 1
    MAX_BALANCE = 3
    WORD = 8
    pa = pa
    p1 = p1
    p2 = p2
    AdminPassword = pa
    Passwords = {pa, p1, p2}
    Requests <- RacingRequests
    NoRequest = NoRequest
    NoReply = NoReply
    NoAccount = NoAccount
    Nobody = Nobody
    SerialCreates = FALSE
SPECIFICATION Spec
SYMMETRY OfficesAreAlike
\* The program has no defined behaviour after an overrun.
CHECK_DEADLOCK FALSE
INVARIANTS
    TypeOK
    AdminUntouched
