SPECIFICATION Spec
CONSTANTS
    r = r
    a = a
    b = b
    c = c
    fr = fr
    fb = fb
    Dirs = {r, a, b, c}
    Root = r
    Files = {fr, fb}
    Subdirs <- MCSubdirs
    Below <- MCBelow
    Place <- MCPlace
    Failing = {fb}
    OUT = TRUE
    Mortal = FALSE
    NoFile = NoFile
    None = None
INVARIANT OutputIsComplete
CHECK_DEADLOCK FALSE
