\* A single user whose time-out runs down while its request is carried out.
CONSTANTS
    Users = {u1}
    Admins = {}
    Offices = {o1}
    NoUser = NoUser
    NoReply = NoReply
    MaxRestarts = 0
SPECIFICATION Spec
CHECK_DEADLOCK FALSE
INVARIANT
    ServerSurvivesUsers
