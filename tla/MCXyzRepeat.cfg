SPECIFICATION Spec
CONSTANTS
    File <- MCFile
    CtrlZ = "z"
    BlkMod = 3
    MaxRetries = 2
    CanCount = 3
    Sizes = {2, 9}
    MaxLine = 3
    MaxReads = 2
    MaxFaults = 2
INVARIANTS
    NeedNewHeader
CHECK_DEADLOCK FALSE
