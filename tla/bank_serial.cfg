\* Three cells for the administrator and two clients; balances up to 3.
CONSTANTS
    Offices = {o1, o2}
    MAX_BANK_ACCOUNTS = 3
    MIN_BALANCE = 1
    MAX_BALANCE = 3
    WORD = 8
    pa = pa
    p1 = p1
    p2 = p2
    AdminPassword = pa
    Passwords = {pa, p1, p2}
    Requests <- AllRequests
    NoRequest = NoRequest
    NoReply = NoReply
    NoAccount = NoAccount
    Nobody = Nobody
    SerialCreates = TRUE
SPECIFICATION FairSpec
INVARIANTS
    DecisionStillHolds
    BalancesInRange
    CreatedAsAsked
    NoCircularWait
    AdminUntouched
PROPERTIES
    IsLedger
    AllAnswered
