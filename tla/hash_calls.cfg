\* Three offices that hash a password twice each: a ring may have three
\* members, and a coprocess may outlive the call that started it.
CONSTANTS
    Offices = {o1, o2, o3}
    MaxCalls = 2
SPECIFICATION Spec
SYMMETRY OfficesAreAlike
\* The offices end, or wait for each other for ever.
CHECK_DEADLOCK FALSE
INVARIANTS
    HashOfInput
    StopsOnlyInRings
