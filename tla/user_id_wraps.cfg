SPECIFICATION Spec
CONSTANTS
    MAX_BANK_ACCOUNTS = 4
    MAX_BALANCE = 4
    MIN_PASSWORD_LEN = 2
    MAX_PASSWORD_LEN = 3
    MAX_OP_DELAY_MS = 2
    WORD = 16
    Microseconds = 5
    CommandLines <- MCCommandLines
    HeaderSize = 33
    CreateSize = 29
    TransferSize = 8
    NoRequest = NoRequest
INVARIANT InvalidIdIsRefused
CHECK_DEADLOCK FALSE
