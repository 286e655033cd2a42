SPECIFICATION Spec
CONSTANTS
    Byte = 4
    AnaMax = 6
    DefVid = 14
    DefPid = 3
    Devices <- MCOneDevice
    Vids = {14}
    Pids = {16}
    Addrs = {5, 6, 252}
    Counts = {2, 64}
    Values = {397}
    MaxCmds = 2
PROPERTIES
    FmQueryOnlyAsks
CHECK_DEADLOCK FALSE
