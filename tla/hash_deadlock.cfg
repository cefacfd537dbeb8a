\* Two offices that hash a password at the same time.
CONSTANTS
    Offices = {o1, o2}
    MaxCalls = 1
SPECIFICATION FairSpec
CHECK_DEADLOCK FALSE
PROPERTY
    HashIsGenerated
