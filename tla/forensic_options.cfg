SPECIFICATION Spec
CONSTANTS
    Words <- MCWords
    Lists <- MCLists
    MaxArgs = 6
INVARIANTS AcceptsUsage InsideArgv NamesOutput
CHECK_DEADLOCK FALSE
