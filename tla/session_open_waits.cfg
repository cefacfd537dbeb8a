\* Two users; the server may die and is not started again.
CONSTANTS
    Users = {u1, u2}
    Admins = {}
    Offices = {o1}
    NoUser = NoUser
    NoReply = NoReply
    MaxRestarts = 0
SPECIFICATION FairSpec
CHECK_DEADLOCK FALSE
PROPERTY
    OpenEnds
