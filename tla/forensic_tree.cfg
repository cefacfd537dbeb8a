SPECIFICATION FairSpec
CONSTANTS
    r = r
    a = a
    b = b
    c = c
    fr = fr
    fb = fb
    Dirs = {r, a, b, c}
    Root = r
    Files = {fr, fb}
    Subdirs <- MCSubdirs
    Below <- MCBelow
    Place <- MCPlace
    Failing = {c, fr}
    OUT = TRUE
    Mortal = TRUE
    NoFile = NoFile
    None = None
INVARIANTS CompleteAtEnd WholeAnalyses FailureHasCause QuietAtReport SentBeforeReceived
PROPERTIES NothingNewAfterInterrupt AllEnd
CHECK_DEADLOCK FALSE
