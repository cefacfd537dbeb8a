\* The administrator shuts the server down while a user has its FIFO open.
CONSTANTS
    Users = {u1, u2}
    Admins = {u1}
    Offices = {o1}
    NoUser = NoUser
    NoReply = NoReply
    MaxRestarts = 0
SPECIFICATION Spec
CHECK_DEADLOCK FALSE
INVARIANT
    UserSurvivesServer
