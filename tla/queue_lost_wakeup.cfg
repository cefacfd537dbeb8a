\* Two offices, two cells and one shutdown request among four.
CONSTANTS
    Offices = {o1, o2}
    MAX_REQUESTS = 2
    Requests = {r1, r2, r3, s1}
    Shutdowns = {s1}
    NoRequest = NoRequest
    Main = Main
    Nobody = Nobody
SPECIFICATION FairSpec
CHECK_DEADLOCK FALSE
PROPERTY
    ShutdownCompletes
