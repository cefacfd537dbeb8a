\* Two users at two offices: the server dies over one of them while the
\* other one waits for its reply.
CONSTANTS
    Users = {u1, u2}
    Admins = {}
    Offices = {o1, o2}
    NoUser = NoUser
    NoReply = NoReply
    MaxRestarts = 0
SPECIFICATION Spec
CHECK_DEADLOCK FALSE
INVARIANT
    OkIsTrue
