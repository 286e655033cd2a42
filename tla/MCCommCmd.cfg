\* Every sequence of lines.
SPECIFICATION Spec
CONSTANTS
    MaxCmds = 6
    TmpSize = 4
    ArgSize = 2
    UsbNames <- MCUsbNames
    SockNames <- MCSockNames
    Letters = {"u", "c", "l", "q", "e", "h"}
    Lines <- MCLines
INVARIANTS TypeOK ParseExact DispatchExact EachOnce NoModuleCommandLeft
PROPERTIES QuitEnds
