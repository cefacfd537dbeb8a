\* Two users, each of whom may be the administrator, at two offices; a
\* server that died is started again once.
CONSTANTS
    Users = {u1, u2}
    Admins = {u1, u2}
    Offices = {o1, o2}
    NoUser = NoUser
    NoReply = NoReply
    MaxRestarts = 1
SPECIFICATION FairSpec
\* Every user ends once; then the server waits for more.
CHECK_DEADLOCK FALSE
INVARIANTS
    TrueAnswers
    OrderlyEnd
PROPERTIES
    RequestCarriedOut
    UserEnds
    LateUsersAreTold
