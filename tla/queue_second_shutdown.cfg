\* Two offices, two cells; two shutdown requests among four, so that the
\* second one meets the closed descriptor.
CONSTANTS
    Offices = {o1, o2}
    MAX_REQUESTS = 2
    Requests = {r1, r2, s1, s2}
    Shutdowns = {s1, s2}
    NoRequest = NoRequest
    Main = Main
    Nobody = Nobody
SPECIFICATION Spec
SYMMETRY OfficesAndRequestsAreAlike
CHECK_DEADLOCK FALSE
INVARIANT
    EndsOnlyWhenIdle
