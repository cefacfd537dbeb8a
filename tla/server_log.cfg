\* Two offices; two or three requests.
CONSTANTS
    NumOffices = 2
    MAX_BANK_ACCOUNTS = 3
    Arrivals <- MCArrivals
    Nobody = Nobody
    NoLine = NoLine
SPECIFICATION Spec
\* The server ends, or waits for more.
CHECK_DEADLOCK FALSE
INVARIANTS
    FetchedAsStored
    RepliesFollow
    SectionsApart
    LogIsComplete
