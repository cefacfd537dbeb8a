SPECIFICATION Spec
CONSTANTS
    r = r
    a = a
    b = b
    c = c
    fr = fr
    fb = fb
    Dirs = {r, a, b, c}
    Root = r
    Files = {fr, fb}
    Subdirs <- MCSubdirs
    Below <- MCBelow
    Place <- MCPlace
    Failing = {}
    OUT = TRUE
    Mortal = TRUE
    NoFile = NoFile
    None = None
INVARIANT DeathIsNoticed
CHECK_DEADLOCK FALSE
