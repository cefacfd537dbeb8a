SPECIFICATION Spec
CONSTANTS
    r = r
    a = a
    b = b
    c = c
    fr = fr
    fb = fb
    Dirs = {r, a, b, c}
    Root = r
    Files = {fr, fb}
    Subdirs <- MCSubdirs
    Below <- MCBelow
    Place <- MCPlace
    Failing = {}
    OUT = TRUE
    Mortal = FALSE
    NoFile = NoFile
    None = None
INVARIANT InterruptHasItsCode
CHECK_DEADLOCK FALSE
